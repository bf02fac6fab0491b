---------------------------- MODULE JmtpfsProofs ----------------------------
(***************************************************************************)
(* Jmtpfs keeps its types, a local copy without unsent changes is equal to *)
(* its file, and every call but rename does to the tree of files what it   *)
(* should, for all storages, names, ids, handles and faults.  First the    *)
(* lemmas about the device: its stores of objects are trees, and what a    *)
(* call of the device does to the paths in them.                           *)
(***************************************************************************)
EXTENDS JmtpfsProperties, SequenceTheorems, FunctionTheorems, WellFoundedInduction, TLAPS

-----------------------------------------------------------------------------
(* Some set of natural numbers has a least element: induction without a    *)
(* predicate as a parameter.                                               *)
LEMMA LeastNat ==
  ASSUME NEW S \in SUBSET Nat, S # {}
  PROVE  \E m \in S : \A k \in S : m <= k
<1>1. IsWellFoundedOn(OpToRel(<, Nat), Nat)
  BY NatLessThanWellFounded
<1>2. \E x \in S : \A y \in S : ~ (<<y, x>> \in OpToRel(<, Nat))
  BY <1>1, WFMin
<1>3. ASSUME NEW x \in Nat, NEW y \in Nat, y < x
      PROVE  <<y, x>> \in OpToRel(<, Nat)
  <2>1. <<y, x>> \in {ss \in Nat \X Nat : ss[1] < ss[2]}
    BY <1>3
  <2>2. OpToRel(<, Nat) = {ss \in Nat \X Nat : ss[1] < ss[2]}
    BY Zenon DEF OpToRel
  <2> QED BY <2>1, <2>2, Zenon
<1>4. PICK x \in S : \A y \in S : ~ (<<y, x>> \in OpToRel(<, Nat))
  BY <1>2
<1>5. \A y \in S : ~ (y < x)
  BY <1>3, <1>4, Zenon
<1> QED BY <1>5

-----------------------------------------------------------------------------
(* Chains: the objects on the way down to one.                             *)
IsStore(o) == IsMap(o, ObjIds, Object) /\ IsTree(o)

Chains(o, i, d) ==
  {c \in [1 .. d -> DOMAIN o] :
     /\ c[d] = i /\ o[c[1]].parent = 0
     /\ \A k \in 2 .. d : o[c[k]].parent = c[k - 1]
     /\ \A j, k \in 1 .. d : c[j] = c[k] => j = k}

LEMMA StoreFields ==
  ASSUME NEW o, IsStore(o), NEW i \in DOMAIN o
  PROVE  /\ i \in ObjIds /\ i \in Nat /\ i # 0 /\ 0 \notin DOMAIN o
         /\ o[i].parent = 0 \/ (/\ o[i].parent \in DOMAIN o /\ ~o[o[i].parent].file
                                /\ o[o[i].parent].storage = o[i].storage)
<1>1. DOMAIN o \subseteq ObjIds
  BY DEF IsStore, IsMap
<1> QED BY <1>1, DeviceAssumption DEF IsStore, IsTree, ObjIds

LEMMA ChainExists ==
  ASSUME NEW o, IsStore(o), NEW i \in DOMAIN o
  PROVE  \E d \in Nat \ {0} : Chains(o, i, d) # {}
<1> DEFINE S == {j \in DOMAIN o : \A d \in Nat \ {0} : Chains(o, j, d) = {}}
<1> SUFFICES ASSUME S # {} PROVE FALSE
  OBVIOUS
<1>1. PICK m \in S : o[m].parent \notin S
  <2>1. S \in SUBSET DOMAIN o
    OBVIOUS
  <2> HIDE DEF S
  <2> QED BY <2>1 DEF IsStore, IsTree
<1>2. CASE o[m].parent = 0
  <2>1. [k \in 1 .. 1 |-> m] \in Chains(o, m, 1)
    BY <1>1, <1>2 DEF Chains
  <2> QED BY <1>1, <2>1
<1>3. CASE o[m].parent # 0
  <2>1. o[m].parent \in DOMAIN o
    BY <1>1, <1>3, StoreFields
  <2>2. PICK d \in Nat \ {0} : Chains(o, o[m].parent, d) # {}
    BY <1>1, <2>1
  <2>3. PICK c \in Chains(o, o[m].parent, d) : TRUE
    BY <2>2
  <2>c. /\ c \in [1 .. d -> DOMAIN o] /\ c[d] = o[m].parent /\ o[c[1]].parent = 0
        /\ \A k \in 2 .. d : o[c[k]].parent = c[k - 1]
        /\ \A j, k \in 1 .. d : c[j] = c[k] => j = k
    BY <2>3 DEF Chains
  <2>4. CASE \E a \in 1 .. d : c[a] = m
    <3>1. PICK a \in 1 .. d : c[a] = m
      BY <2>4
    <3>2. a \in Nat \ {0} /\ 1 .. a \subseteq 1 .. d
      BY <2>2, <3>1
    <3>3. [k \in 1 .. a |-> c[k]] \in Chains(o, m, a)
      <4> DEFINE b == [k \in 1 .. a |-> c[k]]
      <4>1. b \in [1 .. a -> DOMAIN o] /\ b[a] = m /\ b[1] = c[1]
        BY <2>c, <3>1, <3>2
      <4>2. \A k \in 2 .. a : k \in 1 .. a /\ k - 1 \in 1 .. a /\ k \in 2 .. d
        BY <3>2, <2>2
      <4>3. \A k \in 2 .. a : o[b[k]].parent = b[k - 1]
        BY <4>2, <2>c
      <4>4. \A j, k \in 1 .. a : b[j] = b[k] => j = k
        BY <2>c, <3>2
      <4> HIDE DEF b
      <4>5. b \in Chains(o, m, a)
        BY <4>1, <4>3, <4>4, <2>c DEF Chains
      <4> QED BY <4>5 DEF b
    <3> QED BY <1>1, <3>2, <3>3
  <2>5. CASE \A a \in 1 .. d : c[a] # m
    <3> DEFINE b == [k \in 1 .. d + 1 |-> IF k = d + 1 THEN m ELSE c[k]]
    <3>1. \A k \in 1 .. d + 1 : k # d + 1 => k \in 1 .. d
      BY <2>2
    <3>2. b \in [1 .. d + 1 -> DOMAIN o] /\ b[d + 1] = m /\ b[1] = c[1]
      BY <1>1, <2>2, <2>c, <3>1
    <3>3. \A k \in 2 .. d + 1 : o[b[k]].parent = b[k - 1]
      <4> TAKE k \in 2 .. d + 1
      <4>1. k \in 1 .. d + 1 /\ k - 1 \in 1 .. d + 1 /\ k - 1 # d + 1
        BY <2>2
      <4>2. k # d + 1 => k \in 2 .. d
        BY <2>2
      <4>3. b[k - 1] = c[k - 1] /\ b[k] = IF k = d + 1 THEN m ELSE c[k]
        BY <4>1
      <4> HIDE DEF b
      <4>4. CASE k = d + 1
        <5>1. k - 1 = d
          BY <4>4, <2>2
        <5> QED BY <4>3, <4>4, <5>1, <2>c
      <4> QED BY <4>2, <4>3, <4>4, <2>c
    <3>4. \A j, k \in 1 .. d + 1 : b[j] = b[k] => j = k
      BY <2>c, <2>5, <3>1
    <3> HIDE DEF b
    <3>5. b \in Chains(o, m, d + 1)
      BY <3>2, <3>3, <3>4, <2>c DEF Chains
    <3> QED BY <1>1, <2>2, <3>5
  <2> QED BY <2>4, <2>5
<1> QED BY <1>2, <1>3

LEMMA ChainIsShort ==
  ASSUME NEW o, IsStore(o), NEW i, NEW d \in Nat \ {0}, NEW c \in Chains(o, i, d)
  PROVE  d \in 1 .. MaxId
<1>1. c \in [1 .. d -> 1 .. MaxId] /\ \A j, k \in 1 .. d : c[j] = c[k] => j = k
  BY DEF Chains, IsStore, IsMap, ObjIds
<1>2. c \in Injection(1 .. d, 1 .. MaxId)
  BY <1>1 DEF Injection, IsInjective
<1>3. ExistsInjection(1 .. d, 1 .. MaxId)
  BY <1>2 DEF ExistsInjection
<1> QED BY <1>3, DeviceAssumption, Fun_NatInjLeq

LEMMA AboveIsChain ==
  ASSUME NEW o, IsStore(o), NEW i \in DOMAIN o, NEW d \in Nat \ {0}, NEW c \in Chains(o, i, d)
  PROVE  \A k \in Nat : Above(o, i)[k] = IF k < d THEN c[d - k] ELSE 0
<1> DEFINE f == [k \in Nat |-> IF k < d THEN c[d - k] ELSE 0]
           G(g) == [k \in Nat |-> IF k = 0 THEN i
                                  ELSE LET j == g[k - 1] IN IF j \in DOMAIN o THEN o[j].parent ELSE 0]
           A == Above(o, i)
<1>c. /\ c \in [1 .. d -> DOMAIN o] /\ c[d] = i /\ o[c[1]].parent = 0
      /\ \A k \in 2 .. d : o[c[k]].parent = c[k - 1]
  BY DEF Chains
<1>1. f = G(f)
  <2>1. ASSUME NEW k \in Nat PROVE f[k] = G(f)[k]
    <3>1. CASE k = 0
      BY <3>1, <1>c
    <3>2. CASE k # 0
      <4>1. k - 1 \in Nat
        BY <3>2
      <4>2. f[k - 1] = IF k - 1 < d THEN c[d - (k - 1)] ELSE 0
        BY <4>1
      <4>3. CASE k < d
        <5>1. d - (k - 1) \in 2 .. d /\ d - (k - 1) - 1 = d - k /\ k - 1 < d
          BY <3>2, <4>3
        <5>2. f[k - 1] \in DOMAIN o /\ o[f[k - 1]].parent = c[d - k]
          BY <4>2, <5>1, <1>c
        <5> QED BY <3>2, <4>3, <5>2
      <4>4. CASE k = d
        <5>1. d - (k - 1) = 1 /\ k - 1 < d /\ 1 \in 1 .. d
          BY <3>2, <4>4
        <5>2. f[k - 1] \in DOMAIN o /\ o[f[k - 1]].parent = 0
          BY <4>2, <5>1, <1>c
        <5> QED BY <3>2, <4>4, <5>2
      <4>5. CASE k > d
        <5>1. ~(k - 1 < d) /\ ~(k < d)
          BY <4>5
        <5>2. f[k - 1] = 0 /\ 0 \notin DOMAIN o
          BY <4>2, <5>1, StoreFields
        <5> QED BY <3>2, <5>1, <5>2
      <4> QED BY <4>3, <4>4, <4>5
    <3> QED BY <3>1, <3>2
  <2> QED BY <2>1
<1>2. A = CHOOSE g : g = G(g)
  BY DEF Above
<1>3. A = G(A)
  <2> HIDE DEF A, f, G
  <2> QED BY <1>1, <1>2
<1>4. ASSUME NEW k \in Nat PROVE A[k] = G(A)[k] /\ f[k] = G(f)[k]
  <2> HIDE DEF A, f, G
  <2> QED BY <1>1, <1>3
<1> HIDE DEF A
<1> DEFINE S == {k \in Nat : A[k] # f[k]}
<1>5. ASSUME S # {} PROVE FALSE
  <2>1. PICK m \in S : \A k \in S : m <= k
    BY <1>5, LeastNat
  <2>2. CASE m = 0
    BY <2>1, <2>2, <1>4
  <2>3. CASE m # 0
    <3>1. m - 1 \in Nat /\ m - 1 \notin S
      BY <2>1, <2>3
    <3>2. A[m - 1] = f[m - 1]
      BY <3>1
    <3> HIDE DEF f
    <3>3. G(A)[m] = G(f)[m]
      BY <2>1, <2>3, <3>2
    <3> QED BY <2>1, <3>3, <1>4
  <2> QED BY <2>2, <2>3
<1> QED BY <1>5 DEF A

-----------------------------------------------------------------------------
(* Paths and subtrees, one level at a time.                                *)
LEMMA PathOfChain ==
  ASSUME NEW o, IsStore(o), NEW i \in DOMAIN o, NEW d \in Nat \ {0}, NEW c \in Chains(o, i, d)
  PROVE  PathIn(o, i) = <<o[i].storage>> \o [k \in 1 .. d |-> o[c[k]].name]
<1> DEFINE up    == Above(o, i)
           P(k)  == up[k] = 0 /\ up[k - 1] # 0
           depth == CHOOSE k \in 1 .. MaxId : P(k)
<1>1. \A k \in Nat : up[k] = IF k < d THEN c[d - k] ELSE 0
  BY AboveIsChain
<1>2. c \in [1 .. d -> DOMAIN o] /\ 0 \notin DOMAIN o
  BY StoreFields DEF Chains
<1>3. d \in 1 .. MaxId
  BY ChainIsShort
<1> HIDE DEF up
<1>4. ASSUME NEW k \in 1 .. MaxId PROVE P(k) <=> k = d
  <2>1. k \in Nat /\ k - 1 \in Nat /\ k \in Int
    BY DeviceAssumption
  <2>2. k < d => d - k \in 1 .. d
    BY <2>1, <1>4
  <2>3. k - 1 < d => d - (k - 1) \in 1 .. d
    BY <2>1, <1>4
  <2>4. up[k] = 0 <=> ~(k < d)
    BY <1>1, <1>2, <2>1, <2>2
  <2>5. up[k - 1] # 0 <=> k - 1 < d
    BY <1>1, <1>2, <2>1, <2>3
  <2> QED BY <2>1, <2>4, <2>5
<1>5. depth = d
  <2> HIDE DEF P
  <2> QED BY <1>3, <1>4
<1>6. \A k \in 1 .. d : d - k \in Nat /\ d - k < d /\ d - (d - k) = k
  OBVIOUS
<1>7. \A k \in 1 .. d : up[d - k] = c[k]
  BY <1>1, <1>6
<1>8. [k \in 1 .. depth |-> o[up[depth - k]].name] = [k \in 1 .. d |-> o[c[k]].name]
  <2> HIDE DEF depth
  <2> QED BY <1>5, <1>7
<1>9. PathIn(o, i) = <<o[i].storage>> \o [k \in 1 .. depth |-> o[up[depth - k]].name]
  BY DEF PathIn, up
<1> QED BY <1>8, <1>9

LEMMA ChainFront ==
  ASSUME NEW o, IsStore(o), NEW i \in DOMAIN o, NEW d \in Nat \ {0}, NEW c \in Chains(o, i, d)
  PROVE  /\ d = 1 <=> o[i].parent = 0
         /\ d # 1 => /\ d - 1 \in Nat \ {0}
                     /\ [k \in 1 .. d - 1 |-> c[k]] \in Chains(o, o[i].parent, d - 1)
<1>c. /\ c \in [1 .. d -> DOMAIN o] /\ c[d] = i /\ o[c[1]].parent = 0
      /\ \A k \in 2 .. d : o[c[k]].parent = c[k - 1]
      /\ \A j, k \in 1 .. d : c[j] = c[k] => j = k
  BY DEF Chains
<1>1. ASSUME d # 1
      PROVE  /\ d - 1 \in Nat \ {0} /\ o[i].parent # 0
             /\ [k \in 1 .. d - 1 |-> c[k]] \in Chains(o, o[i].parent, d - 1)
  <2> DEFINE b == [k \in 1 .. d - 1 |-> c[k]]
  <2>1. d - 1 \in Nat \ {0} /\ d \in 2 .. d /\ 1 .. d - 1 \subseteq 1 .. d /\ 1 \in 1 .. d - 1
        /\ d - 1 \in 1 .. d - 1 /\ d - 1 \in 1 .. d
    BY <1>1
  <2>2. o[i].parent = c[d - 1] /\ c[d - 1] # 0
    BY <1>c, <2>1, StoreFields
  <2>3. b \in [1 .. d - 1 -> DOMAIN o] /\ b[d - 1] = o[i].parent /\ b[1] = c[1]
    BY <1>c, <2>1, <2>2
  <2>4. \A k \in 2 .. d - 1 : k \in 2 .. d /\ k \in 1 .. d - 1 /\ k - 1 \in 1 .. d - 1
    BY <2>1
  <2>5. \A k \in 2 .. d - 1 : o[b[k]].parent = b[k - 1]
    BY <1>c, <2>4
  <2>6. \A j, k \in 1 .. d - 1 : b[j] = b[k] => j = k
    BY <1>c, <2>1
  <2> HIDE DEF b
  <2>7. b \in Chains(o, o[i].parent, d - 1)
    BY <1>c, <2>3, <2>5, <2>6 DEF Chains
  <2> QED BY <2>1, <2>2, <2>7 DEF b
<1>2. d = 1 => o[i].parent = 0
  BY <1>c
<1> QED BY <1>1, <1>2

LEMMA PairIsConcat ==
  ASSUME NEW S, NEW x \in S, NEW T, NEW y \in T
  PROVE  <<x>> \o <<y>> = <<x, y>> /\ <<x, y>> \in Seq(S \cup T)
<1>1. <<x>> \in Seq(S \cup T) /\ <<y>> \in Seq(S \cup T) /\ <<x, y>> \in Seq(S \cup T)
  OBVIOUS
<1>2. Append(<<x>>, y) = <<x>> \o <<y>>
  BY <1>1, AppendIsConcat
<1>3. Append(<<x>>, y) = <<x, y>>
  <2> DEFINE s == <<x>>
             t == Append(s, y)
             u == <<x, y>>
  <2>1. s \in Seq(S \cup T) /\ Len(s) = 1 /\ s[1] = x
    OBVIOUS
  <2>2. u \in Seq(S \cup T) /\ Len(u) = 2 /\ u[1] = x /\ u[2] = y
    OBVIOUS
  <2>3. t \in Seq(S \cup T) /\ Len(t) = 2 /\ t[1] = x /\ t[2] = y
    <3> HIDE DEF s
    <3>1. y \in S \cup T /\ 1 \in 1 .. Len(s) /\ Len(s) + 1 = 2
      BY <2>1
    <3> DEFINE U == S \cup T
    <3> HIDE DEF U
    <3>3. s \in Seq(U) /\ y \in U
      BY <2>1, <3>1 DEF U
    <3>2. /\ t \in Seq(U) /\ Len(t) = Len(s) + 1
          /\ \A k \in 1 .. Len(s) : t[k] = s[k] 
          /\ t[Len(s) + 1] = y
      BY <3>3, AppendProperties
    <3> QED BY <2>1, <3>1, <3>2 DEF U
  <2> HIDE DEF s, t, u
  <2>4. \A k \in 1 .. 2 : t[k] = u[k]
    BY <2>2, <2>3
  <2>5. t = u
    BY <2>2, <2>3, <2>4, SeqEqual
  <2> QED BY <2>5 DEF s, t, u
<1> QED BY <1>1, <1>2, <1>3

\* A path is that of the folder, and then the name.
LEMMA PathStep ==
  ASSUME NEW o, IsStore(o), NEW i \in DOMAIN o
  PROVE  /\ PathIn(o, i) \in Seq(Storages \cup Names)
         /\ PathIn(o, i) # <<>> /\ PathIn(o, i)[1] = o[i].storage
         /\ o[i].parent = 0 => PathIn(o, i) = <<o[i].storage, o[i].name>>
         /\ o[i].parent # 0 => PathIn(o, i) = Append(PathIn(o, o[i].parent), o[i].name)
<1>0. \A j \in DOMAIN o : o[j].storage \in Storages /\ o[j].name \in Names
  BY DEF IsStore, IsMap, Object
<1>1. PICK d \in Nat \ {0} : Chains(o, i, d) # {}
  BY ChainExists
<1>2. PICK c : c \in Chains(o, i, d)
  BY <1>1
<1>3. PathIn(o, i) = <<o[i].storage>> \o [k \in 1 .. d |-> o[c[k]].name]
  BY <1>2, PathOfChain
<1>4. c \in [1 .. d -> DOMAIN o] /\ c[d] = i
  BY <1>2 DEF Chains
<1>5. [k \in 1 .. d |-> o[c[k]].name] \in Seq(Names)
  BY <1>0, <1>4
<1>6. <<o[i].storage>> \in Seq(Storages)
  BY <1>0
<1> DEFINE nm == [k \in 1 .. d |-> o[c[k]].name]
<1>l. Len(nm) = d
  BY <1>4
<1>7. CASE o[i].parent = 0
  <2>1. d = 1
    BY <1>2, <1>7, ChainFront
  <2>2. nm = <<o[i].name>>
    BY <1>4, <2>1
  <2>3. PathIn(o, i) = <<o[i].storage>> \o <<o[i].name>>
    BY <1>3, <2>2
  <2>4. PathIn(o, i) = <<o[i].storage, o[i].name>>
    BY <1>0, <2>3, PairIsConcat
  <2> QED BY <1>0, <1>7, <2>4
<1>8. CASE o[i].parent # 0
  <2> DEFINE p == o[i].parent
             b == [k \in 1 .. d - 1 |-> c[k]]
             pn == [k \in 1 .. d - 1 |-> o[b[k]].name]
             st == <<o[i].storage>>
  <2>1. d - 1 \in Nat \ {0} /\ b \in Chains(o, p, d - 1)
    BY <1>2, <1>8, ChainFront
  <2>2. p \in DOMAIN o /\ o[p].storage = o[i].storage
    BY <1>8, StoreFields
  <2>3. PathIn(o, p) = st \o pn
    <3> HIDE DEF b
    <3> QED BY <2>1, <2>2, PathOfChain
  <2>4. 1 .. d - 1 \subseteq 1 .. d
    BY <2>1
  <2>5. pn \in Seq(Names) /\ Len(pn) = d - 1 /\ pn = [k \in 1 .. d - 1 |-> o[c[k]].name]
    BY <1>0, <1>4, <2>1, <2>4
  <2>6. nm = Append(pn, o[i].name)
    <3>1. Append(pn, o[i].name) = [k \in 1 .. Len(pn) + 1 |-> IF k = Len(pn) + 1 THEN o[i].name ELSE pn[k]]
      OBVIOUS
    <3>2. Len(pn) + 1 = d
      BY <2>1, <2>5
    <3>3. ASSUME NEW k \in 1 .. d PROVE nm[k] = IF k = d THEN o[i].name ELSE pn[k]
      <4>1. k # d => k \in 1 .. d - 1
        OBVIOUS
      <4>2. nm[k] = o[c[k]].name
        OBVIOUS
      <4>3. k # d => pn[k] = o[c[k]].name
        <5> HIDE DEF nm, pn
        <5> QED BY <4>1, <2>5
      <4> HIDE DEF nm, pn
      <4> QED BY <1>4, <4>2, <4>3
    <3>4. nm = [k \in 1 .. d |-> IF k = d THEN o[i].name ELSE pn[k]]
      <4> HIDE DEF pn
      <4> QED BY <3>3
    <3> HIDE DEF nm, pn
    <3> QED BY <3>1, <3>2, <3>4
  <2> HIDE DEF nm, pn
  <2>7. PathIn(o, i) = Append(PathIn(o, p), o[i].name)
    <3>1. st \in Seq(Storages \cup Names) /\ pn \in Seq(Storages \cup Names) /\ o[i].name \in Storages \cup Names
      BY <1>0, <2>5
    <3>2. st \o Append(pn, o[i].name) = Append(st \o pn, o[i].name)
      <4> HIDE DEF st
      <4> QED BY <3>1, AppendIsConcat, ConcatAssociative, ConcatProperties, AppendProperties
    <3> QED BY <3>2, <1>3, <2>3, <2>6 DEF nm
  <2>8. PathIn(o, i) \in Seq(Storages \cup Names) /\ PathIn(o, i) # <<>> /\ PathIn(o, i)[1] = o[i].storage
    <3>1. st \in Seq(Storages \cup Names) /\ nm \in Seq(Storages \cup Names)
      BY <1>0, <1>5 DEF nm
    <3>2. PathIn(o, i) = st \o nm /\ Len(st) = 1 /\ st[1] = o[i].storage
      BY <1>3 DEF nm
    <3> HIDE DEF st, nm
    <3>3. /\ st \o nm \in Seq(Storages \cup Names) /\ Len(st \o nm) = Len(st) + Len(nm)
          /\ \A k \in 1 .. Len(st) + Len(nm) : k <= Len(st) => (st \o nm)[k] = st[k]
      BY <3>1, ConcatProperties
    <3>4. Len(nm) \in Nat
      BY <3>1, LenProperties
    <3>5. Len(st) + Len(nm) >= 1 /\ 1 \in 1 .. Len(st) + Len(nm)
      BY <3>2, <3>4
    <3>6. st \o nm # <<>> /\ (st \o nm)[1] = st[1]
      BY <3>2, <3>3, <3>5
    <3> QED BY <3>2, <3>3, <3>6
  <2> QED BY <1>8, <2>7, <2>8
<1> QED BY <1>7, <1>8

LEMMA BelowStep ==
  ASSUME NEW o, IsStore(o), NEW i \in DOMAIN o, NEW n \in DOMAIN o
  PROVE  /\ n \in Subtree(o, n)
         /\ i # n => (i \in Subtree(o, n) <=> o[i].parent # 0 /\ o[i].parent \in Subtree(o, n))
<1>1. ASSUME NEW j \in DOMAIN o, NEW d \in Nat \ {0}, NEW c \in Chains(o, j, d)
      PROVE  j \in Subtree(o, n) <=> \E k \in 1 .. d : c[k] = n
  <2>1. d \in 1 .. MaxId /\ MaxId \in Nat
    BY ChainIsShort, DeviceAssumption
  <2>2. \A k \in Nat : Above(o, j)[k] = IF k < d THEN c[d - k] ELSE 0
    BY AboveIsChain
  <2>3. c \in [1 .. d -> DOMAIN o] /\ c[d] = j
    BY DEF Chains
  <2>4. ASSUME NEW k \in 0 .. MaxId, Above(o, j)[k] = n PROVE \E m \in 1 .. d : c[m] = n
    <3>1. n # 0
      BY StoreFields
    <3>2. k < d /\ c[d - k] = n
      BY <2>2, <2>4, <3>1
    <3>3. d - k \in 1 .. d
      BY <3>2
    <3> QED BY <3>2, <3>3
  <2>5. ASSUME NEW m \in 1 .. d, c[m] = n PROVE \E k \in 0 .. MaxId : Above(o, j)[k] = n
    <3>1. d - m \in 0 .. MaxId /\ d - m \in Nat /\ d - m < d /\ d - (d - m) = m
      BY <2>1
    <3>2. Above(o, j)[d - m] = n
      BY <2>2, <2>5, <3>1
    <3> QED BY <3>1, <3>2
  <2>6. j = n => \E m \in 1 .. d : c[m] = n
    <3>1. d \in 1 .. d
      OBVIOUS
    <3> QED BY <3>1, <2>3
  <2> QED BY <2>4, <2>5, <2>6 DEF Subtree
<1>2. PICK d \in Nat \ {0} : Chains(o, i, d) # {}
  BY ChainExists
<1>3. PICK c : c \in Chains(o, i, d)
  BY <1>2
<1>4. c \in [1 .. d -> DOMAIN o] /\ c[d] = i
  BY <1>3 DEF Chains
<1>5. ASSUME i # n
      PROVE  i \in Subtree(o, n) <=> o[i].parent # 0 /\ o[i].parent \in Subtree(o, n)
  <2>1. CASE d = 1
    <3>1. o[i].parent = 0
      BY <2>1, <1>3, ChainFront
    <3>2. \A k \in 1 .. d : c[k] = i
      BY <2>1, <1>4
    <3> QED BY <3>1, <3>2, <1>1, <1>3, <1>5
  <2>2. CASE d # 1
    <3> DEFINE b == [k \in 1 .. d - 1 |-> c[k]]
    <3>1. d - 1 \in Nat \ {0} /\ b \in Chains(o, o[i].parent, d - 1) /\ o[i].parent # 0
      BY <2>2, <1>3, ChainFront
    <3>2. o[i].parent \in DOMAIN o
      BY <3>1, StoreFields
    <3>3. o[i].parent \in Subtree(o, n) <=> \E k \in 1 .. d - 1 : b[k] = n
      <4> HIDE DEF b
      <4> QED BY <3>1, <3>2, <1>1
    <3>4. \A k \in 1 .. d : k # d => k \in 1 .. d - 1
      OBVIOUS
    <3>5. 1 .. d - 1 \subseteq 1 .. d
      OBVIOUS
    <3>6. (\E k \in 1 .. d - 1 : b[k] = n) <=> \E k \in 1 .. d : c[k] = n
      BY <3>4, <3>5, <1>4, <1>5
    <3> QED BY <3>1, <3>3, <3>6, <1>1, <1>3
  <2> QED BY <2>1, <2>2
<1> QED BY <1>5 DEF Subtree

-----------------------------------------------------------------------------
(* Prefixes of sequences.                                                  *)
LEMMA PrefixPointwise ==
  ASSUME NEW U, NEW s \in Seq(U), NEW t \in Seq(U)
  PROVE  IsPrefix(s, t) <=> Len(s) <= Len(t) /\ \A k \in 1 .. Len(s) : s[k] = t[k]
<1>1. Len(s) \in Nat /\ Len(t) \in Nat /\ 1 \in Int /\ Len(s) \in Int
  BY LenProperties
<1>2. ASSUME Len(s) <= Len(t)
      PROVE  SubSeq(s, 1, Len(s)) = SubSeq(t, 1, Len(s)) <=> \A k \in 1 .. Len(s) : s[k] = t[k]
  <2> DEFINE n == Len(s)  x == SubSeq(s, 1, n)  y == SubSeq(t, 1, n)
  <2>1. \A k \in 1 .. n : s[k] \in U /\ t[k] \in U
    BY <1>1, <1>2, ElementOfSeq
  <2>2. n - 1 + 1 = n /\ (n >= 1 \/ n = 0) /\ \A k \in 1 .. n : 1 + k - 1 = k
    BY <1>1
  <2>3. x \in Seq(U) /\ Len(x) = (IF 1 <= n THEN n - 1 + 1 ELSE 0)
        /\ \A k \in 1 .. n - 1 + 1 : x[k] = s[1 + k - 1]
    <3> HIDE DEF n
    <3> QED BY <1>1, <2>1, SubSeqProperties DEF n
  <2>4. y \in Seq(U) /\ Len(y) = (IF 1 <= n THEN n - 1 + 1 ELSE 0)
        /\ \A k \in 1 .. n - 1 + 1 : y[k] = t[1 + k - 1]
    <3> HIDE DEF n
    <3> QED BY <1>1, <2>1, SubSeqProperties DEF n
  <2> HIDE DEF x, y, n
  <2>5. Len(x) = n /\ Len(y) = n /\ n \in Nat
    BY <1>1, <2>2, <2>3, <2>4 DEF n
  <2>6. \A k \in 1 .. n : x[k] = s[k] /\ y[k] = t[k]
    BY <2>2, <2>3, <2>4
  <2>7. (\A k \in 1 .. n : s[k] = t[k]) => x = y
    BY <2>3, <2>4, <2>5, <2>6, SeqEqual
  <2> QED BY <2>6, <2>7 DEF x, y, n
<1> QED BY <1>2 DEF IsPrefix

LEMMA PrefixSelf ==
  ASSUME NEW U, NEW s \in Seq(U)
  PROVE  IsPrefix(s, s)
BY PrefixPointwise, LenProperties

LEMMA PrefixTrans ==
  ASSUME NEW U, NEW s \in Seq(U), NEW t \in Seq(U), NEW u \in Seq(U),
         IsPrefix(s, t), IsPrefix(t, u)
  PROVE  IsPrefix(s, u)
BY PrefixPointwise, LenProperties

LEMMA PrefixAntisym ==
  ASSUME NEW U, NEW s \in Seq(U), NEW t \in Seq(U), IsPrefix(s, t), IsPrefix(t, s)
  PROVE  s = t
<1>1. Len(s) = Len(t) /\ \A k \in 1 .. Len(s) : s[k] = t[k]
  BY PrefixPointwise, LenProperties
<1> QED BY <1>1, SeqEqual

LEMMA PrefixAppend ==
  ASSUME NEW U, NEW s \in Seq(U), NEW t \in Seq(U), NEW e \in U
  PROVE  IsPrefix(s, Append(t, e)) <=> IsPrefix(s, t) \/ s = Append(t, e)
<1> DEFINE u == Append(t, e)
<1>1. /\ u \in Seq(U) /\ Len(u) = Len(t) + 1 /\ u[Len(t) + 1] = e
      /\ \A k \in 1 .. Len(t) : u[k] = t[k]
  BY AppendProperties
<1>2. Len(s) \in Nat /\ Len(t) \in Nat
  BY LenProperties
<1> HIDE DEF u
<1>3. IsPrefix(s, u) <=> Len(s) <= Len(u) /\ \A k \in 1 .. Len(s) : s[k] = u[k]
  BY <1>1, PrefixPointwise
<1>4. IsPrefix(s, t) <=> Len(s) <= Len(t) /\ \A k \in 1 .. Len(s) : s[k] = t[k]
  BY PrefixPointwise
<1>5. IsPrefix(s, t) => IsPrefix(s, u)
  BY <1>1, <1>2, <1>3, <1>4
<1>6. s = u => IsPrefix(s, u)
  BY <1>1, PrefixSelf
<1>7. ASSUME IsPrefix(s, u), Len(s) <= Len(t) PROVE IsPrefix(s, t)
  <2>1. \A k \in 1 .. Len(s) : k \in 1 .. Len(t)
    BY <1>2, <1>7
  <2> QED BY <1>1, <1>3, <1>4, <1>7, <2>1
<1>8. ASSUME IsPrefix(s, u), ~(Len(s) <= Len(t)) PROVE s = u
  <2>1. Len(s) = Len(u)
    BY <1>1, <1>2, <1>3, <1>8
  <2> QED BY <1>1, <1>3, <1>8, <2>1, SeqEqual
<1> QED BY <1>5, <1>6, <1>7, <1>8 DEF u

-----------------------------------------------------------------------------
(* Paths and the tree.                                                     *)
PathElem == Storages \cup Names

LEMMA PathLen ==
  ASSUME NEW o, IsStore(o), NEW i \in DOMAIN o
  PROVE  /\ PathIn(o, i) \in Seq(PathElem) /\ Len(PathIn(o, i)) \in Nat /\ Len(PathIn(o, i)) > 1
         /\ PathIn(o, i)[1] = o[i].storage /\ PathIn(o, i)[Len(PathIn(o, i))] = o[i].name
<1>0. o[i].storage \in PathElem /\ o[i].name \in PathElem
  BY DEF IsStore, IsMap, Object, PathElem
<1>1. PathIn(o, i) \in Seq(PathElem) /\ PathIn(o, i)[1] = o[i].storage
  BY PathStep DEF PathElem
<1>2. CASE o[i].parent = 0
  <2>1. PathIn(o, i) = <<o[i].storage, o[i].name>>
    BY <1>2, PathStep
  <2> QED BY <1>1, <2>1
<1>3. CASE o[i].parent # 0
  <2> DEFINE p == PathIn(o, o[i].parent)
  <2>1. o[i].parent \in DOMAIN o
    BY <1>3, StoreFields
  <2>2. p \in Seq(PathElem) /\ p # <<>>
    BY <2>1, PathStep DEF PathElem
  <2>3. Len(p) \in Nat \ {0}
    BY <2>2, EmptySeq
  <2>4. PathIn(o, i) = Append(p, o[i].name)
    BY <1>3, PathStep
  <2> HIDE DEF p
  <2>5. Len(Append(p, o[i].name)) = Len(p) + 1 /\ Append(p, o[i].name)[Len(p) + 1] = o[i].name
    BY <1>0, <2>2, AppendProperties
  <2> QED BY <1>1, <2>3, <2>4, <2>5
<1> QED BY <1>2, <1>3

\* The path of what lies in a folder begins with that of the folder.
LEMMA BelowPath ==
  ASSUME NEW o, IsStore(o), NEW n \in DOMAIN o, NEW i \in DOMAIN o, i \in Subtree(o, n)
  PROVE  IsPrefix(PathIn(o, n), PathIn(o, i))
<1> DEFINE S == {j \in DOMAIN o : j \in Subtree(o, n) /\ ~IsPrefix(PathIn(o, n), PathIn(o, j))}
<1>1. ASSUME S # {} PROVE FALSE
  <2>0. S \in SUBSET DOMAIN o
    OBVIOUS
  <2>1. PICK j \in S : o[j].parent \notin S
    <3> HIDE DEF S
    <3> QED BY <1>1, <2>0 DEF IsStore, IsTree
  <2>2. j # n
    BY <2>1, PathLen, PrefixSelf
  <2>3. o[j].parent # 0 /\ o[j].parent \in Subtree(o, n)
    BY <2>1, <2>2, BelowStep
  <2>4. o[j].parent \in DOMAIN o
    BY <2>1, <2>3, StoreFields
  <2>5. IsPrefix(PathIn(o, n), PathIn(o, o[j].parent))
    BY <2>1, <2>3, <2>4
  <2>6. PathIn(o, j) = Append(PathIn(o, o[j].parent), o[j].name)
    BY <2>1, <2>3, PathStep
  <2>7. PathIn(o, n) \in Seq(PathElem) /\ PathIn(o, o[j].parent) \in Seq(PathElem) /\ o[j].name \in PathElem
    BY <2>1, <2>4, PathLen DEF IsStore, IsMap, Object, PathElem
  <2>8. IsPrefix(PathIn(o, n), Append(PathIn(o, o[j].parent), o[j].name))
    BY <2>5, <2>7, PrefixAppend
  <2> QED BY <2>1, <2>6, <2>8
<1> QED BY <1>1

\* No two objects have one path, if no two of one name are in one folder.
LEMMA PathsUnique ==
  ASSUME NEW o, IsStore(o), NoTwins(o), NEW i \in DOMAIN o, NEW j \in DOMAIN o,
         PathIn(o, i) = PathIn(o, j)
  PROVE  i = j
<1> DEFINE S == {k \in DOMAIN o : \E m \in DOMAIN o : m # k /\ PathIn(o, m) = PathIn(o, k)}
<1>1. ASSUME S # {} PROVE FALSE
  <2>0. S \in SUBSET DOMAIN o
    OBVIOUS
  <2>1. PICK k \in S : o[k].parent \notin S
    <3> HIDE DEF S
    <3> QED BY <1>1, <2>0 DEF IsStore, IsTree
  <2>2. PICK m \in DOMAIN o : m # k /\ PathIn(o, m) = PathIn(o, k)
    BY <2>1
  <2>3. k \in DOMAIN o
    BY <2>1
  <2>4. o[k].storage = o[m].storage /\ o[k].name = o[m].name
    BY <2>2, <2>3, PathLen
  <2>n. o[k].name \in PathElem /\ o[m].name \in PathElem
    BY <2>2, <2>3 DEF IsStore, IsMap, Object, PathElem
  <2>5. \A x \in DOMAIN o : o[x].parent = 0 => Len(PathIn(o, x)) = 2
    <3> TAKE x \in DOMAIN o
    <3>1. o[x].parent = 0 => PathIn(o, x) = <<o[x].storage, o[x].name>>
      BY PathStep
    <3> QED BY <3>1
  <2>6. \A x \in DOMAIN o : o[x].parent # 0 => Len(PathIn(o, x)) > 2
    <3> TAKE x \in DOMAIN o
    <3> HAVE o[x].parent # 0
    <3> DEFINE p == PathIn(o, o[x].parent)
    <3>1. o[x].parent \in DOMAIN o
      BY StoreFields
    <3>2. p \in Seq(PathElem) /\ Len(p) \in Nat /\ Len(p) > 1 /\ o[x].name \in PathElem
      BY <3>1, PathLen DEF IsStore, IsMap, Object, PathElem
    <3>3. PathIn(o, x) = Append(p, o[x].name)
      BY PathStep
    <3> HIDE DEF p
    <3>4. Len(Append(p, o[x].name)) = Len(p) + 1
      BY <3>2, AppendProperties
    <3> QED BY <3>2, <3>3, <3>4
  <2>7. o[k].parent = 0 <=> o[m].parent = 0
    BY <2>2, <2>3, <2>5, <2>6, PathLen
  <2>8. o[k].parent = o[m].parent
    <3>1. CASE o[k].parent # 0
      <4>1. o[k].parent \in DOMAIN o /\ o[m].parent \in DOMAIN o
        BY <3>1, <2>2, <2>3, <2>7, StoreFields
      <4> DEFINE p == PathIn(o, o[k].parent)
                 q == PathIn(o, o[m].parent)
      <4>2. Append(p, o[k].name) = Append(q, o[m].name)
        BY <3>1, <2>2, <2>3, <2>7, PathStep
      <4>3. p \in Seq(PathElem) /\ q \in Seq(PathElem)
        BY <4>1, PathLen
      <4>4. p = q
        <5> HIDE DEF p, q
        <5> QED BY <4>2, <4>3, <2>n, AppendInjective
      <4> QED BY <4>1, <4>4, <2>1
    <3> QED BY <3>1, <2>7
  <2> QED BY <2>2, <2>3, <2>4, <2>8 DEF NoTwins
<1> QED BY <1>1

\* ... and then a path that begins with another lies below it.
LEMMA PrefixBelow ==
  ASSUME NEW o, IsStore(o), NoTwins(o), NEW n \in DOMAIN o, NEW i \in DOMAIN o,
         IsPrefix(PathIn(o, n), PathIn(o, i))
  PROVE  i \in Subtree(o, n)
<1> DEFINE S == {j \in DOMAIN o : j \notin Subtree(o, n) /\ IsPrefix(PathIn(o, n), PathIn(o, j))}
<1>1. ASSUME S # {} PROVE FALSE
  <2>0. S \in SUBSET DOMAIN o
    OBVIOUS
  <2>1. PICK j \in S : o[j].parent \notin S
    <3> HIDE DEF S
    <3> QED BY <1>1, <2>0 DEF IsStore, IsTree
  <2>2. j \in DOMAIN o /\ j \notin Subtree(o, n) /\ IsPrefix(PathIn(o, n), PathIn(o, j)) /\ j # n
    BY <2>1, BelowStep
  <2>3. PathIn(o, n) # PathIn(o, j)
    BY <2>2, PathsUnique
  <2>4. CASE o[j].parent = 0
    <3>1. Len(PathIn(o, j)) = 2
      <4>1. PathIn(o, j) = <<o[j].storage, o[j].name>>
        BY <2>2, <2>4, PathStep
      <4> QED BY <4>1
    <3>2. Len(PathIn(o, n)) = 2
      BY <2>2, <3>1, PathLen, PrefixPointwise
    <3>3. IsPrefix(PathIn(o, j), PathIn(o, n))
      BY <2>2, <3>1, <3>2, PathLen, PrefixPointwise
    <3> QED BY <2>2, <2>3, <3>3, PathLen, PrefixAntisym
  <2>5. CASE o[j].parent # 0
    <3>1. o[j].parent \in DOMAIN o
      BY <2>2, <2>5, StoreFields
    <3>2. PathIn(o, j) = Append(PathIn(o, o[j].parent), o[j].name)
      BY <2>2, <2>5, PathStep
    <3>3. PathIn(o, n) \in Seq(PathElem) /\ PathIn(o, o[j].parent) \in Seq(PathElem) /\ o[j].name \in PathElem
      BY <2>2, <3>1, PathLen DEF IsStore, IsMap, Object, PathElem
    <3>4. IsPrefix(PathIn(o, n), PathIn(o, o[j].parent))
      BY <2>2, <2>3, <3>2, <3>3, PrefixAppend
    <3>5. o[j].parent \in Subtree(o, n)
      BY <2>1, <3>1, <3>4
    <3> QED BY <2>2, <2>5, <3>5, BelowStep
  <2> QED BY <2>4, <2>5
<1> QED BY <1>1

-----------------------------------------------------------------------------
(* What a call of the device does to the tree.                             *)

\* Objects that stay where they are, in folders that stay, keep their paths.
LEMMA SamePaths ==
  ASSUME NEW o, NEW u, IsStore(o), IsStore(u), NEW K, K \subseteq DOMAIN o, K \subseteq DOMAIN u,
         \A i \in K : /\ u[i].parent = o[i].parent /\ u[i].storage = o[i].storage
                      /\ u[i].name = o[i].name /\ (o[i].parent = 0 \/ o[i].parent \in K)
  PROVE  \A i \in K : PathIn(u, i) = PathIn(o, i)
<1> DEFINE S == {j \in K : PathIn(u, j) # PathIn(o, j)}
<1>1. ASSUME S # {} PROVE FALSE
  <2>0. S \in SUBSET DOMAIN o
    OBVIOUS
  <2>1. PICK j \in S : o[j].parent \notin S
    <3> HIDE DEF S
    <3> QED BY <1>1, <2>0 DEF IsStore, IsTree
  <2>2. j \in K /\ j \in DOMAIN o /\ j \in DOMAIN u /\ PathIn(u, j) # PathIn(o, j)
    BY <2>1
  <2>3. CASE o[j].parent = 0
    BY <2>2, <2>3, PathStep
  <2>4. CASE o[j].parent # 0
    <3>1. PathIn(u, o[j].parent) = PathIn(o, o[j].parent)
      BY <2>1, <2>2, <2>4
    <3>2. PathIn(o, j) = Append(PathIn(o, o[j].parent), o[j].name)
      BY <2>2, <2>4, PathStep
    <3>3. u[j].parent = o[j].parent /\ u[j].name = o[j].name
      BY <2>2
    <3>4. PathIn(u, j) = Append(PathIn(u, o[j].parent), o[j].name)
      BY <2>2, <2>4, <3>3, PathStep
    <3> QED BY <2>2, <3>1, <3>2, <3>4
  <2> QED BY <2>3, <2>4
<1> QED BY <1>1

\* A new object k, in a folder that takes it.
Fits(o, k, x) ==
  /\ k \in ObjIds /\ k \notin DOMAIN o /\ x \in Object
  /\ x.file \/ x.data = <<>>
  /\ x.parent = 0 \/ /\ x.parent \in DOMAIN o /\ ~o[x.parent].file
                     /\ o[x.parent].storage = x.storage

LEMMA StoreWithObject ==
  ASSUME NEW o, IsStore(o), NEW k, NEW x, Fits(o, k, x)
  PROVE  /\ IsStore(Put(o, k, x))
         /\ \A i \in DOMAIN o : PathIn(Put(o, k, x), i) = PathIn(o, i)
         /\ x.parent = 0 => PathIn(Put(o, k, x), k) = <<x.storage, x.name>>
         /\ x.parent # 0 => PathIn(Put(o, k, x), k) = Append(PathIn(o, x.parent), x.name)
<1> DEFINE u == Put(o, k, x)
<1>1. /\ DOMAIN u = DOMAIN o \cup {k} /\ u[k] = x /\ \A i \in DOMAIN o : u[i] = o[i]
      /\ k # 0 /\ k \notin DOMAIN o
  BY DeviceAssumption DEF Put, Fits, ObjIds
<1>2. IsMap(u, ObjIds, Object)
  BY DEF IsStore, IsMap, Put, Fits
<1>3. \A i \in DOMAIN o : o[i].parent # k
  BY <1>1, StoreFields
<1>4. x.parent # k
  BY <1>1 DEF Fits
<1> HIDE DEF u
<1>5. IsTree(u)
  <2>1. ASSUME NEW i \in DOMAIN u
        PROVE  LET p == u[i].parent
               IN  p = 0 \/ (p \in DOMAIN u /\ ~u[p].file /\ u[p].storage = u[i].storage)
    BY <1>1, <2>1, StoreFields DEF Fits
  <2>2. ASSUME NEW S \in SUBSET DOMAIN u, S # {}
        PROVE  \E i \in S : u[i].parent \notin S
    <3>1. CASE S = {k}
      BY <1>1, <1>4, <3>1
    <3>2. CASE S # {k}
      <4>1. S \ {k} \in SUBSET DOMAIN o /\ S \ {k} # {}
        BY <1>1, <2>2, <3>2
      <4>2. PICK i \in S \ {k} : o[i].parent \notin S \ {k}
        BY <4>1 DEF IsStore, IsTree
      <4> QED BY <1>1, <1>3, <4>1, <4>2
    <3> QED BY <3>1, <3>2
  <2>3. ASSUME NEW i \in DOMAIN u, ~u[i].file PROVE u[i].data = <<>>
    BY <1>1, <2>3 DEF IsStore, IsTree, Fits
  <2> QED BY <2>1, <2>2, <2>3 DEF IsTree
<1>6. IsStore(u)
  BY <1>2, <1>5 DEF IsStore
<1>7. \A i \in DOMAIN o : PathIn(u, i) = PathIn(o, i)
  <2>1. \A i \in DOMAIN o : u[i].parent = o[i].parent /\ u[i].storage = o[i].storage
                            /\ u[i].name = o[i].name /\ (o[i].parent = 0 \/ o[i].parent \in DOMAIN o)
    BY <1>1, StoreFields
  <2> QED BY <1>1, <1>6, <2>1, SamePaths
<1>8. /\ x.parent = 0 => PathIn(u, k) = <<x.storage, x.name>>
      /\ x.parent # 0 => PathIn(u, k) = Append(PathIn(o, x.parent), x.name)
  BY <1>1, <1>6, <1>7, PathStep DEF Fits
<1> QED BY <1>6, <1>7, <1>8 DEF u

LEMMA TwinsWithObject ==
  ASSUME NEW o, IsStore(o), NoTwins(o), NEW k, NEW x, Fits(o, k, x),
         \A i \in DOMAIN o : o[i].parent = x.parent /\ o[i].storage = x.storage => o[i].name # x.name
  PROVE  NoTwins(Put(o, k, x))
<1> DEFINE u == Put(o, k, x)
<1>1. DOMAIN u = DOMAIN o \cup {k} /\ u[k] = x /\ \A i \in DOMAIN o : u[i] = o[i]
  BY DEF Put, Fits
<1> HIDE DEF u
<1>2. NoTwins(u)
  BY <1>1 DEF NoTwins
<1> QED BY <1>2 DEF u

\* An object deleted, with all that lies in it.
LEMMA StoreWithoutObject ==
  ASSUME NEW o, IsStore(o), NEW n \in DOMAIN o
  PROVE  LET u == Drop(o, Subtree(o, n))
         IN  /\ IsStore(u) /\ n \notin DOMAIN u /\ (NoTwins(o) => NoTwins(u))
             /\ \A i \in DOMAIN u : i \in DOMAIN o /\ u[i] = o[i] /\ PathIn(u, i) = PathIn(o, i)
<1> DEFINE u == Drop(o, Subtree(o, n))
<1>1. DOMAIN u = DOMAIN o \ Subtree(o, n) /\ \A i \in DOMAIN u : u[i] = o[i]
  BY DEF Drop
<1>2. n \notin DOMAIN u
  BY <1>1, BelowStep
<1>3. IsMap(u, ObjIds, Object)
  BY DEF IsStore, IsMap, Drop
<1> HIDE DEF u
<1>4. \A i \in DOMAIN u : o[i].parent = 0 \/ o[i].parent \in DOMAIN u
  <2> TAKE i \in DOMAIN u
  <2>1. i \in DOMAIN o /\ i \notin Subtree(o, n) /\ i # n
    BY <1>1, <1>2
  <2>2. o[i].parent # 0 => o[i].parent \in DOMAIN o /\ o[i].parent \notin Subtree(o, n)
    BY <2>1, StoreFields, BelowStep
  <2> QED BY <1>1, <2>2
<1>5. IsTree(u)
  <2>1. ASSUME NEW i \in DOMAIN u
        PROVE  LET p == u[i].parent
               IN  p = 0 \/ (p \in DOMAIN u /\ ~u[p].file /\ u[p].storage = u[i].storage)
    BY <1>1, <1>4, StoreFields
  <2>2. ASSUME NEW S \in SUBSET DOMAIN u, S # {}
        PROVE  \E i \in S : u[i].parent \notin S
    <3>1. S \in SUBSET DOMAIN o
      BY <1>1
    <3>2. PICK i \in S : o[i].parent \notin S
      BY <2>2, <3>1 DEF IsStore, IsTree
    <3> QED BY <1>1, <3>2
  <2>3. ASSUME NEW i \in DOMAIN u, ~u[i].file PROVE u[i].data = <<>>
    BY <1>1, <2>3 DEF IsStore, IsTree
  <2> QED BY <2>1, <2>2, <2>3 DEF IsTree
<1>6. IsStore(u)
  BY <1>3, <1>5 DEF IsStore
<1>7. NoTwins(o) => NoTwins(u)
  BY <1>1 DEF NoTwins
<1>8. \A i \in DOMAIN u : PathIn(u, i) = PathIn(o, i)
  <2>1. \A i \in DOMAIN u : u[i].parent = o[i].parent /\ u[i].storage = o[i].storage
                            /\ u[i].name = o[i].name /\ (o[i].parent = 0 \/ o[i].parent \in DOMAIN u)
    BY <1>1, <1>4
  <2>2. PICK K : K = DOMAIN u
    OBVIOUS
  <2>3. K \subseteq DOMAIN o
    BY <1>1, <2>2
  <2> QED BY <1>6, <2>1, <2>2, <2>3, SamePaths
<1> QED BY <1>1, <1>2, <1>6, <1>7, <1>8 DEF u

\* In an empty folder, as in a file, there is nothing.
LEMMA NothingBelow ==
  ASSUME NEW o, IsStore(o), NEW n \in DOMAIN o, \A i \in DOMAIN o : o[i].parent # n
  PROVE  Subtree(o, n) = {n}
<1> DEFINE S == {j \in DOMAIN o : j \in Subtree(o, n) /\ j # n}
<1>1. ASSUME S # {} PROVE FALSE
  <2>0. S \in SUBSET DOMAIN o
    OBVIOUS
  <2>1. PICK j \in S : o[j].parent \notin S
    <3> HIDE DEF S
    <3> QED BY <1>1, <2>0 DEF IsStore, IsTree
  <2>2. o[j].parent # 0 /\ o[j].parent \in Subtree(o, n) /\ o[j].parent # n
    BY <2>1, BelowStep
  <2>3. o[j].parent \in DOMAIN o
    BY <2>1, <2>2, StoreFields
  <2> QED BY <2>1, <2>2, <2>3
<1>2. Subtree(o, n) \subseteq DOMAIN o
  BY DEF Subtree
<1> QED BY <1>1, <1>2, BelowStep

LEMMA NothingInAFile ==
  ASSUME NEW o, IsStore(o), NEW n \in DOMAIN o, o[n].file
  PROVE  Subtree(o, n) = {n}
<1>1. \A i \in DOMAIN o : o[i].parent # n
  BY StoreFields
<1> QED BY <1>1, NothingBelow

\* An object with a new name.
LEMMA StoreWithName ==
  ASSUME NEW o, IsStore(o), NEW n \in DOMAIN o, NEW name \in Names
  PROVE  LET u == Put(o, n, [o[n] EXCEPT !.name = name])
         IN  /\ IsStore(u) /\ DOMAIN u = DOMAIN o
             /\ \A i \in DOMAIN o : /\ u[i].file = o[i].file /\ u[i].parent = o[i].parent
                                    /\ u[i].storage = o[i].storage /\ u[i].data = o[i].data
                                    /\ u[i].name = IF i = n THEN name ELSE o[i].name
             /\ NoTwins(o) /\ (\A j \in DOMAIN o \ {n} :
                                 o[j].parent = o[n].parent /\ o[j].storage = o[n].storage => o[j].name # name)
                  => NoTwins(u)
<1> DEFINE x == [o[n] EXCEPT !.name = name]
           u == Put(o, n, x)
<1>1. o[n] \in Object
  BY DEF IsStore, IsMap
<1>2. /\ x \in Object /\ x.file = o[n].file /\ x.parent = o[n].parent /\ x.storage = o[n].storage
      /\ x.data = o[n].data /\ x.name = name
  BY <1>1 DEF Object
<1> HIDE DEF x
<1>3. DOMAIN u = DOMAIN o /\ u[n] = x /\ \A i \in DOMAIN o : i # n => u[i] = o[i]
  BY DEF Put
<1>4. IsMap(u, ObjIds, Object)
  BY <1>2 DEF Put, IsStore, IsMap
<1> HIDE DEF u
<1>5. \A i \in DOMAIN o : /\ u[i].file = o[i].file /\ u[i].parent = o[i].parent
                          /\ u[i].storage = o[i].storage /\ u[i].data = o[i].data
                          /\ u[i].name = IF i = n THEN name ELSE o[i].name
  BY <1>2, <1>3
<1>6. IsTree(u)
  BY <1>3, <1>5 DEF IsStore, IsTree
<1>7. NoTwins(o) /\ (\A j \in DOMAIN o \ {n} :
                       o[j].parent = o[n].parent /\ o[j].storage = o[n].storage => o[j].name # name)
        => NoTwins(u)
  BY <1>3, <1>5 DEF NoTwins
<1> QED BY <1>3, <1>4, <1>5, <1>6, <1>7 DEF IsStore, u, x

-----------------------------------------------------------------------------
(* Maps.                                                                   *)
LEMMA PutIsMap ==
  ASSUME NEW f, NEW S, NEW T, IsMap(f, S, T), NEW k \in S, NEW v \in T
  PROVE  IsMap(Put(f, k, v), S, T)
BY DEF Put, IsMap

LEMMA DropIsMap ==
  ASSUME NEW f, NEW S, NEW T, IsMap(f, S, T), NEW K
  PROVE  IsMap(Drop(f, K), S, T)
BY DEF Drop, IsMap

LEMMA MapElements ==
  ASSUME NEW f, NEW S, NEW T, IsMap(f, S, T), NEW k \in DOMAIN f
  PROVE  k \in S /\ f[k] \in T
BY DEF IsMap

(* File contents.                                                          *)
LEMMA DataIsShort ==
  ASSUME NEW d \in Data
  PROVE  /\ Len(d) \in 0 .. MaxLen
         /\ d \in [1 .. Len(d) -> Bytes]
<1>1. PICK n \in 0 .. MaxLen : d \in [1 .. n -> Bytes]
  BY DEF Data
<1>2. n \in Nat /\ d \in Seq(Bytes)
  BY <1>1, DeviceAssumption, SeqDef
<1>3. Len(d) = n
  BY <1>1, <1>2, LenProperties
<1> QED
  BY <1>1, <1>3

LEMMA ResizeType ==
  ASSUME NEW d \in Data, NEW len \in 0 .. MaxLen
  PROVE  Resize(d, len) \in Data
<1>1. Resize(d, len) \in [1 .. len -> Bytes]
  BY DataIsShort, DeviceAssumption DEF Resize
<1> QED
  BY <1>1 DEF Data

LEMMA WriteAtType ==
  ASSUME NEW d \in Data, NEW off \in 0 .. MaxLen - 1, NEW byte \in Bytes
  PROVE  WriteAt(d, off, byte) \in Data
<1> DEFINE len == IF Len(d) > off THEN Len(d) ELSE off + 1
<1>1. len \in 0 .. MaxLen
  BY DataIsShort, DeviceAssumption
<1>2. WriteAt(d, off, byte) \in [1 .. len -> Bytes]
  BY DataIsShort, DeviceAssumption DEF WriteAt
<1> QED
  BY <1>1, <1>2 DEF Data

-----------------------------------------------------------------------------
(* The steps of a handler, by their names.                                 *)
LEMMA StepArguments ==
  ASSUME NEW s \in HandlerStep
  PROVE  /\ s[1] = "getNode" => /\ s[2] \in NodeIds /\ s[3] \in Seq(Names)
                                /\ s[4] \in Continuation
         /\ s[1] \in {"getattr", "getItem", "open", "read", "fsync"} => s[2] \in NodeIds
         /\ s[1] = "write" => s[2] \in NodeIds /\ s[3] \in 0 .. MaxLen - 1 /\ s[4] \in Bytes
         /\ s[1] = "truncate" => s[2] \in NodeIds /\ s[3] \in 0 .. MaxLen
         /\ s[1] = "closeFile" => s[2] \in NodeIds /\ s[3] \in SUBSET NodeIds
         /\ s[1] = "sendFile" => /\ s[2] \in ObjIds /\ s[3] \in SUBSET NodeIds
                                 /\ s[4] \in Object
         /\ s[1] \in {"mkdir", "createFile"} => s[2] \in NodeIds /\ s[3] \in Names
         /\ s[1] = "remove" => s[2] \in NodeIds /\ s[3] \in BOOLEAN
         /\ s[1] = "rename" => s[2] \in Node /\ s[3] \in NodeIds /\ s[4] \in Names
         /\ s[1] = "copyTo" => s[2] \in NodeIds /\ s[3] \in NodeIds /\ s[4] \in Names
         /\ s[1] \in {"dropOriginal", "moveContents"} => s[2] \in NodeIds /\ s[3] \in NodeIds
         /\ s[1] = "moveRest" => /\ s[2] \in NodeIds /\ s[3] \in NodeIds
                                 /\ s[4] \in SUBSET Entry
         /\ s[1] = "clearItems" => s[2] \in SUBSET NodeIds
         /\ s[1] = "throw" => s[2] \in Codes
BY DEF HandlerStep

LEMMA StepTypes ==
  /\ \A n \in NodeIds, p \in Seq(Names), k \in Continuation :
       <<"getNode", n, p, k>> \in HandlerStep
  /\ \A op \in {"getattr", "getItem", "open", "read", "fsync"}, n \in NodeIds :
       <<op, n>> \in HandlerStep
  /\ \A n \in NodeIds, off \in 0 .. MaxLen - 1, byte \in Bytes :
       <<"write", n, off, byte>> \in HandlerStep
  /\ \A n \in NodeIds, len \in 0 .. MaxLen : <<"truncate", n, len>> \in HandlerStep
  /\ \A n \in NodeIds, K \in SUBSET NodeIds : <<"closeFile", n, K>> \in HandlerStep
  /\ \A n \in ObjIds, K \in SUBSET NodeIds, o \in Object :
       <<"sendFile", n, K, o>> \in HandlerStep
  /\ \A op \in {"mkdir", "createFile"}, n \in NodeIds, name \in Names :
       <<op, n, name>> \in HandlerStep
  /\ \A n \in NodeIds, file \in BOOLEAN : <<"remove", n, file>> \in HandlerStep
  /\ \A src \in Node, dst \in NodeIds, name \in Names :
       <<"rename", src, dst, name>> \in HandlerStep
  /\ \A n \in NodeIds, dst \in NodeIds, name \in Names :
       <<"copyTo", n, dst, name>> \in HandlerStep
  /\ \A op \in {"dropOriginal", "moveContents"}, n, m \in NodeIds :
       <<op, n, m>> \in HandlerStep
  /\ \A n, m \in NodeIds, rest \in SUBSET Entry : <<"moveRest", n, m, rest>> \in HandlerStep
  /\ \A K \in SUBSET NodeIds : <<"clearItems", K>> \in HandlerStep
  /\ \A code \in Codes : <<"throw", code>> \in HandlerStep
  /\ <<"unmount">> \in HandlerStep
BY DEF HandlerStep

LEMMA ContinuationArguments ==
  ASSUME NEW k \in Continuation
  PROVE  /\ k[1] \in {"invoke", "opened", "source", "newParent", "child", "destDir"}
         /\ k[1] = "source" => k[2] \in LongPath
         /\ k[1] = "newParent" => k[2] \in Node /\ k[3] \in Names
         /\ k[1] = "child" => k[2] \in NodeIds /\ k[3] \in Names
         /\ k[1] = "destDir" => k[2] \in NodeIds
BY DEF Continuation

LEMMA ContinuationTypes ==
  /\ <<"invoke">> \in Continuation /\ <<"opened">> \in Continuation
  /\ \A new \in LongPath : <<"source", new>> \in Continuation
  /\ \A src \in Node, name \in Names : <<"newParent", src, name>> \in Continuation
  /\ \A dst \in NodeIds, name \in Names : <<"child", dst, name>> \in Continuation
  /\ \A src \in NodeIds : <<"destDir", src>> \in Continuation
BY DEF Continuation

-----------------------------------------------------------------------------
(* Paths: a storage, then names.                                           *)
LEMMA PathParts ==
  ASSUME NEW p \in Path, p # <<>>
  PROVE  Head(p) \in Storages /\ Tail(p) \in Seq(Names)
<1>1. p \in Seq(Storages \cup Names) /\ Len(p) \in Nat \ {0}
  BY EmptySeq DEF Path
<1>2. Head(p) = p[1]
  BY <1>1
<1>3. Tail(p) = SubSeq(p, 2, Len(p))
  BY <1>1, TailIsSubSeq
<1>4. \A k \in 2 .. Len(p) : p[k] \in Names
  BY DEF Path
<1>5. SubSeq(p, 2, Len(p)) \in Seq(Names)
  BY <1>1, <1>4, SubSeqProperties
<1> QED
  BY <1>2, <1>3, <1>5 DEF Path

LEMMA LongPathParts ==
  ASSUME NEW p \in LongPath
  PROVE  Front(p) \in Path /\ Front(p) # <<>> /\ Last(p) \in Names
<1> DEFINE S == Storages \cup Names
           f == SubSeq(p, 1, Len(p) - 1)
<1>1. p \in Seq(S) /\ Len(p) \in Nat /\ Len(p) > 1
  BY LenProperties DEF Path, LongPath
<1>2. \A i \in 1 .. Len(p) - 1 : p[i] \in S
  BY <1>1, ElementOfSeq
<1>3. /\ f \in Seq(S) /\ Len(f) = Len(p) - 1
      /\ \A i \in 1 .. Len(p) - 1 : f[i] = p[i]
  <2>1. Len(p) - 1 \in Int /\ 1 \in Int
    BY <1>1
  <2> HIDE DEF S
  <2>2. /\ f \in Seq(S)
        /\ Len(f) = IF 1 <= Len(p) - 1 THEN Len(p) - 1 - 1 + 1 ELSE 0
        /\ \A i \in 1 .. Len(p) - 1 - 1 + 1 : f[i] = p[1 + i - 1]
    BY <1>2, <2>1, SubSeqProperties
  <2> QED
    BY <1>1, <2>2
<1>4. p[1] \in Storages /\ \A k \in 2 .. Len(p) : p[k] \in Names
  BY <1>1 DEF Path, LongPath
<1>5. f[1] = p[1] /\ \A k \in 2 .. Len(f) : f[k] = p[k]
  BY <1>1, <1>3
<1>6. f \in Path /\ f # <<>>
  <2> HIDE DEF f
  <2>1. \A k \in 2 .. Len(f) : f[k] \in Names
    BY <1>1, <1>3, <1>4, <1>5
  <2>2. f # <<>>
    BY <1>1, <1>3
  <2> QED
    BY <1>3, <1>4, <1>5, <2>1, <2>2 DEF Path
<1> QED
  BY <1>1, <1>4, <1>6 DEF Front, Last

LEMMA LookupType ==
  ASSUME NEW p \in Path, p # <<>>, NEW k \in Continuation
  PROVE  Lookup(p, k) \in HandlerStep
BY PathParts, StepTypes DEF Lookup, NodeIds

-----------------------------------------------------------------------------
(* The steps that a call, or a node found, gives rise to.                  *)
WellFormed(c) ==
  /\ c \in Call /\ c.op # "none" /\ c.path # <<>> /\ c.new # <<>>
  /\ c.op \in {"mkdir", "create"} => c.path \in LongPath
  /\ c.op = "rename" => c.new \in LongPath
  /\ c.op = "write" => c.off < MaxLen

LEMMA HandlerType ==
  ASSUME NEW c, WellFormed(c)
  PROVE  Handler(c) \in Seq(HandlerStep)
<1>1. c.path \in Path /\ c.new \in Path
  BY DEF WellFormed, Call
<1>2. CASE c.op = "create"
  <2>1. /\ Lookup(Front(c.path), <<"invoke">>) \in HandlerStep
        /\ Lookup(c.path, <<"opened">>) \in HandlerStep
    BY <1>1, <1>2, LongPathParts, LookupType, ContinuationTypes DEF WellFormed
  <2> QED
    BY <1>2, <2>1 DEF Handler
<1>3. CASE c.op = "mkdir"
  <2>1. Lookup(Front(c.path), <<"invoke">>) \in HandlerStep
    BY <1>1, <1>3, LongPathParts, LookupType, ContinuationTypes DEF WellFormed
  <2> QED
    BY <1>3, <2>1 DEF Handler
<1>4. CASE c.op = "rename"
  <2>1. Lookup(c.path, <<"source", c.new>>) \in HandlerStep
    BY <1>1, <1>4, LookupType, ContinuationTypes DEF WellFormed
  <2> QED
    BY <1>4, <2>1 DEF Handler
<1>6. CASE c.op = "unmount"
  BY <1>6, StepTypes DEF Handler
<1>5. CASE c.op \notin {"create", "mkdir", "rename", "unmount"}
  <2>1. Lookup(c.path, <<"invoke">>) \in HandlerStep
    BY <1>1, LookupType, ContinuationTypes DEF WellFormed
  <2> QED
    BY <1>5, <2>1 DEF Handler
<1> QED
  BY <1>2, <1>3, <1>4, <1>5, <1>6

LEMMA InvokeType ==
  ASSUME NEW c, WellFormed(c), NEW node \in Node
  PROVE  Invoke(c, node) \in Seq(HandlerStep)
<1>1. /\ node.id \in NodeIds /\ node.file \in BOOLEAN
      /\ c.off \in 0 .. MaxLen /\ c.byte \in Bytes /\ c.path \in Path
  BY DEF Node, WellFormed, Call
<1>2. "EIO" \in Codes /\ "EROFS" \in Codes
  BY DEF Codes
<1>3. c.op \in {"mkdir", "create"} => Last(c.path) \in Names
  BY LongPathParts DEF WellFormed
<1>4. c.op = "write" => c.off \in 0 .. MaxLen - 1
  BY <1>1, DeviceAssumption DEF WellFormed
<1>5. /\ <<"getattr", node.id>> \in HandlerStep /\ <<"getItem", node.id>> \in HandlerStep
      /\ <<"open", node.id>> \in HandlerStep /\ <<"read", node.id>> \in HandlerStep
      /\ <<"fsync", node.id>> \in HandlerStep
      /\ <<"truncate", node.id, c.off>> \in HandlerStep
      /\ <<"remove", node.id, node.file>> \in HandlerStep
      /\ <<"throw", "EIO">> \in HandlerStep /\ <<"throw", "EROFS">> \in HandlerStep
      /\ c.op = "write" => <<"write", node.id, c.off, c.byte>> \in HandlerStep
      /\ c.op = "mkdir" => <<"mkdir", node.id, Last(c.path)>> \in HandlerStep
      /\ c.op = "create" => <<"createFile", node.id, Last(c.path)>> \in HandlerStep
  BY <1>1, <1>2, <1>3, <1>4, StepTypes
<1> HIDE DEF HandlerStep
<1> QED
  BY <1>5 DEF Invoke, NotImplemented

LEMMA ThenType ==
  ASSUME WellFormed(call), NEW k \in Continuation, NEW node \in Node
  PROVE  Then(k, node) \in Seq(HandlerStep)
<1>1. node.id \in NodeIds /\ "EIO" \in Codes
  BY DEF Node, Codes
<1>2. CASE k[1] = "invoke"
  BY <1>2, InvokeType DEF Then
<1>3. CASE k[1] = "opened"
  <2>1. <<"open", node.id>> \in HandlerStep /\ <<"throw", "EIO">> \in HandlerStep
    BY <1>1, StepTypes
  <2> QED
    BY <1>3, <2>1 DEF Then, NotImplemented
<1>4. CASE k[1] = "source"
  <2>1. k[2] \in LongPath
    BY <1>4, ContinuationArguments
  <2>2. Front(k[2]) \in Path /\ Front(k[2]) # <<>> /\ Last(k[2]) \in Names
    BY <2>1, LongPathParts
  <2>3. Lookup(Front(k[2]), <<"newParent", node, Last(k[2])>>) \in HandlerStep
    BY <2>2, LookupType, ContinuationTypes
  <2> QED
    BY <1>4, <2>3 DEF Then
<1>5. CASE k[1] = "newParent"
  <2>1. <<"rename", k[2], node.id, k[3]>> \in HandlerStep
    BY <1>1, <1>5, ContinuationArguments, StepTypes
  <2> QED
    BY <1>5, <2>1 DEF Then
<1>6. CASE k[1] = "child"
  <2>1. <<"rename", node, k[2], k[3]>> \in HandlerStep
    BY <1>6, ContinuationArguments, StepTypes
  <2> QED
    BY <1>6, <2>1 DEF Then
<1>7. CASE k[1] = "destDir"
  <2>1. <<"moveContents", k[2], node.id>> \in HandlerStep
    BY <1>1, <1>7, ContinuationArguments, StepTypes
  <2> QED
    BY <1>7, <2>1 DEF Then
<1> QED
  BY <1>2, <1>3, <1>4, <1>5, <1>6, <1>7, ContinuationArguments

-----------------------------------------------------------------------------
(* What is read from the device and from the cache.                        *)
LEMMA ObjectFields ==
  ASSUME DeviceTypeOK, NEW i \in DOMAIN objs
  PROVE  /\ i \in ObjIds /\ objs[i] \in Object
         /\ objs[i].file \in BOOLEAN /\ objs[i].name \in Names /\ objs[i].parent \in 0 .. MaxId
         /\ objs[i].storage \in Storages /\ objs[i].data \in Data
<1>1. i \in ObjIds /\ objs[i] \in Object
  BY MapElements DEF DeviceTypeOK
<1> QED
  BY <1>1 DEF Object

LEMMA FolderContentsType ==
  ASSUME DeviceTypeOK, NEW s, NEW p
  PROVE  GetFolderContents(s, p) \in SUBSET Entry
<1>1. \A i \in Inside(p, s) : [id |-> i, name |-> objs[i].name, file |-> objs[i].file] \in Entry
  BY ObjectFields DEF Inside, Entry
<1> QED
  BY <1>1 DEF GetFolderContents

LEMMA MetadataType ==
  ASSUME DeviceTypeOK, NEW n \in Storages \cup DOMAIN objs
  PROVE  getMetadata(n) \in Metadata
<1>1. CASE n \in Storages
  BY <1>1, FolderContentsType, DeviceAssumption DEF getMetadata, Metadata
<1>2. CASE n \notin Storages
  <2>1. Len(objs[n].data) \in 0 .. MaxLen
    BY <1>2, ObjectFields, DataIsShort
  <2>2. (IF objs[n].file THEN {} ELSE GetFolderContents(objs[n].storage, n)) \in SUBSET Entry
    BY FolderContentsType
  <2> QED
    BY <1>2, <2>1, <2>2, ObjectFields DEF getMetadata, Metadata
<1> QED
  BY <1>1, <1>2

LEMMA GetItemType ==
  ASSUME TypeOK, NEW n \in NodeIds, NEW r \in getItem(n)
  PROVE  r.md \in Metadata /\ IsMap(r.cache, NodeIds, Metadata)
<1>1. CASE n \in DOMAIN cache /\ r = [md |-> cache[n], cache |-> cache]
  BY <1>1, MapElements DEF TypeOK
<1>2. CASE /\ n \in Storages \cup DOMAIN objs
           /\ r = [md |-> getMetadata(n), cache |-> Put(cache, n, getMetadata(n))]
  <2>1. getMetadata(n) \in Metadata
    BY <1>2, MetadataType DEF TypeOK
  <2>2. IsMap(Put(cache, n, getMetadata(n)), NodeIds, Metadata)
    BY <2>1, PutIsMap DEF TypeOK
  <2> QED
    BY <1>2, <2>1, <2>2
<1> QED
  BY <1>1, <1>2 DEF getItem

LEMMA ParentType ==
  ASSUME NEW md \in Metadata
  PROVE  GetParentNodeId(md) \in NodeIds
BY DeviceAssumption DEF Metadata, GetParentNodeId, NodeIds, ObjIds

(* The local copies after openFile: one more if the file was not open, a   *)
(* clean copy of what is on the device.                                    *)
LEMMA OpenFileType ==
  ASSUME TypeOK, NEW n, NEW files \in openFile(n)
  PROVE  /\ IsMap(files, ObjIds, Copy)
         /\ DOMAIN files = DOMAIN localFiles \cup {n}
         /\ n \in ObjIds /\ files[n] \in Copy
         /\ \A i \in DOMAIN localFiles : files[i] = localFiles[i]
         /\ n \notin DOMAIN localFiles =>
              /\ n \in DOMAIN objs
              /\ files[n] = [data |-> objs[n].data, dirty |-> FALSE, broken |-> FALSE]
<1>1. CASE n \in DOMAIN localFiles
  <2>1. files = localFiles
    BY <1>1 DEF openFile
  <2>2. IsMap(localFiles, ObjIds, Copy)
    BY DEF TypeOK
  <2>3. n \in ObjIds /\ localFiles[n] \in Copy
    BY <1>1, <2>2, MapElements
  <2> QED
    BY <1>1, <2>1, <2>2, <2>3
<1>2. CASE n \notin DOMAIN localFiles
  <2> DEFINE copy == [data |-> objs[n].data, dirty |-> FALSE, broken |-> FALSE]
  <2>1. n \in DOMAIN objs /\ files = Put(localFiles, n, copy)
    BY <1>2 DEF openFile
  <2>2. n \in ObjIds /\ copy \in Copy
    BY <2>1, ObjectFields DEF TypeOK, Copy
  <2>3. IsMap(files, ObjIds, Copy)
    BY <2>1, <2>2, PutIsMap DEF TypeOK
  <2>4. /\ DOMAIN files = DOMAIN localFiles \cup {n} /\ files[n] = copy
        /\ \A i \in DOMAIN localFiles : files[i] = localFiles[i]
    <3> HIDE DEF copy
    <3> QED
      BY <1>2, <2>1 DEF Put
  <2>5. files[n] \in Copy
    BY <2>2, <2>4
  <2>6. files[n] = [data |-> objs[n].data, dirty |-> FALSE, broken |-> FALSE]
    BY <2>4
  <2> HIDE DEF copy
  <2> QED
    BY <1>2, <2>1, <2>2, <2>3, <2>4, <2>5, <2>6
<1> QED
  BY <1>1, <1>2

(* Changing a field of one copy.                                           *)
LEMMA CopyUpdateType ==
  ASSUME NEW files, IsMap(files, ObjIds, Copy), NEW n, NEW c, n \in DOMAIN files => c \in Copy
  PROVE  IsMap([files EXCEPT ![n] = c], ObjIds, Copy)
BY DEF IsMap

LEMMA BrokenType ==
  ASSUME TypeOK, NEW n
  PROVE  IsMap(Broken(n), ObjIds, Copy)
<1>1. IsMap(localFiles, ObjIds, Copy)
  BY DEF TypeOK
<1>2. \A k \in DOMAIN Broken(n) : Broken(n)[k] \in Copy
  <2> TAKE k \in DOMAIN Broken(n)
  <2>1. localFiles[k] \in Copy
    BY <1>1, MapElements DEF Broken
  <2> QED
    BY <2>1 DEF Broken, Copy
<1> QED
  BY <1>1, <1>2 DEF Broken, IsMap

-----------------------------------------------------------------------------
(* What the calls make of the store.                                       *)
LEMMA NewObjectType ==
  ASSUME WellFormed(call), NEW dir \in NodeIds, NEW name \in Names, NEW file \in BOOLEAN,
         NEW data \in Data
  PROVE  NewObject(dir, name, file, data) \in Object
<1>1. FolderId(dir) \in 0 .. MaxId
  BY DeviceAssumption DEF FolderId, NodeIds, ObjIds
<1>2. Head(call.new) \in Storages
  BY PathParts DEF WellFormed, Call
<1> QED
  BY <1>1, <1>2 DEF NewObject, Object

LEMMA AddType ==
  ASSUME DeviceTypeOK, NEW o \in Object, MayAdd(o)
  PROVE  /\ IsMap(WithObject(o), ObjIds, Object)
         /\ nextId + 1 \in 1 .. MaxId + 1 /\ nextId \in ObjIds
<1>1. nextId \in ObjIds
  BY DEF MayAdd
<1>2. IsMap(WithObject(o), ObjIds, Object)
  BY <1>1, PutIsMap DEF WithObject, DeviceTypeOK
<1> QED
  BY <1>1, <1>2, DeviceAssumption DEF ObjIds

LEMMA RemoveType ==
  ASSUME DeviceTypeOK, NEW i
  PROVE  IsMap(WithoutObject(i), ObjIds, Object)
BY DropIsMap DEF DeviceTypeOK, WithoutObject

LEMMA SetNameType ==
  ASSUME DeviceTypeOK, NEW i, NEW name \in Names, MaySetName(i, name)
  PROVE  IsMap(WithName(i, name), ObjIds, Object)
<1>1. i \in DOMAIN objs
  BY DEF MaySetName
<1>2. [objs[i] EXCEPT !.name = name] \in Object
  BY <1>1, ObjectFields DEF Object
<1> QED
  BY <1>1, <1>2, ObjectFields, PutIsMap DEF WithName, DeviceTypeOK

-----------------------------------------------------------------------------
(* The parts of TypeOK that a step of a handler can disturb.               *)
ProcessType ==
  /\ IsMap(cache, NodeIds, Metadata)
  /\ IsMap(localFiles, ObjIds, Copy)
  /\ todo \in Seq(HandlerStep)
  /\ reply \in [code : Codes, data : Data]

LEMMA EmptyIsData == <<>> \in Data
<1>1. <<>> \in [1 .. 0 -> Bytes]
  BY SMT
<1> QED
  BY <1>1, DeviceAssumption DEF Data

LEMMA GotoType ==
  ASSUME TypeOK, todo # <<>>, NEW steps \in Seq(HandlerStep), NEW c, NEW files,
         IsMap(c, NodeIds, Metadata), IsMap(files, ObjIds, Copy), Goto(steps, c, files)
  PROVE  ProcessType'
<1>1. Tail(todo) \in Seq(HandlerStep)
  BY HeadTailProperties DEF TypeOK
<1>2. steps \o Tail(todo) \in Seq(HandlerStep)
  BY <1>1, ConcatProperties
<1> QED
  BY <1>2 DEF Goto, ProcessType, TypeOK

LEMMA ThrowType ==
  ASSUME NEW code \in Codes, NEW c, NEW files,
         IsMap(c, NodeIds, Metadata), IsMap(files, ObjIds, Copy), Throw(code, c, files)
  PROVE  ProcessType'
BY EmptyIsData DEF Throw, ProcessType

LEMMA Frame ==
  ASSUME TypeOK, todo # <<>>, Others, DeviceTypeOK', faults' \in 0 .. MaxFaults, ProcessType'
  PROVE  TypeOK'
BY DEF TypeOK, Others, ProcessType, Path, Call

LEMMA NoDeviceChangeType ==
  ASSUME TypeOK, NoDeviceChange
  PROVE  DeviceTypeOK' /\ faults' \in 0 .. MaxFaults
BY DEF TypeOK, NoDeviceChange, device, DeviceTypeOK

LEMMA InCall ==
  ASSUME TypeOK, todo # <<>>
  PROVE  WellFormed(call)
BY DEF TypeOK, WellFormed

(* The step that is next.                                                  *)
LEMMA NextStep ==
  ASSUME TypeOK, NEW name, At(name)
  PROVE  todo # <<>> /\ Head(todo) \in HandlerStep /\ Head(todo)[1] = name
BY HeadTailProperties DEF TypeOK, At

-----------------------------------------------------------------------------
(* Every step keeps the types: steps that do not change the device.        *)
LEMMA GetNodeType == ASSUME TypeOK, GetNode PROVE TypeOK'
<1> DEFINE dir == Arg(2)
           rest == Arg(3)
           k == Arg(4)
<1>1. /\ todo # <<>> /\ WellFormed(call)
      /\ dir \in NodeIds /\ rest \in Seq(Names) /\ k \in Continuation
  BY NextStep, InCall, StepArguments DEF GetNode, Arg
<1>2. DeviceTypeOK' /\ faults' \in 0 .. MaxFaults
  BY NoDeviceChangeType DEF GetNode
<1>3. IsMap(cache, NodeIds, Metadata) /\ IsMap(localFiles, ObjIds, Copy)
  BY DEF TypeOK
<1>4. ASSUME rest = <<>> /\ Goto(Then(k, [id |-> dir, file |-> FALSE]), cache, localFiles)
      PROVE  ProcessType'
  <2>1. Then(k, [id |-> dir, file |-> FALSE]) \in Seq(HandlerStep)
    BY <1>1, ThenType DEF Node
  <2> QED
    BY <1>1, <1>3, <1>4, <2>1, GotoType
<1>5. ASSUME rest # <<>>, NEW r \in getItem(dir), Throw("ENOENT", r.cache, localFiles)
      PROVE  ProcessType'
  BY <1>1, <1>3, <1>5, GetItemType, ThrowType DEF Codes
<1>6. ASSUME rest # <<>>, NEW r \in getItem(dir), NEW e \in r.md.children,
             Goto(IF e.file \/ Len(rest) = 1
                  THEN Then(k, [id |-> e.id, file |-> e.file])
                  ELSE << <<"getNode", e.id, Tail(rest), k>> >>, r.cache, localFiles)
      PROVE  ProcessType'
  <2>1. r.md \in Metadata /\ IsMap(r.cache, NodeIds, Metadata)
    BY <1>1, GetItemType
  <2>2. e \in Entry
    BY <2>1 DEF Metadata
  <2>3. e.id \in NodeIds /\ [id |-> e.id, file |-> e.file] \in Node
    BY <2>2 DEF Entry, Node, NodeIds
  <2>4. Then(k, [id |-> e.id, file |-> e.file]) \in Seq(HandlerStep)
    BY <1>1, <2>3, ThenType
  <2>5. Tail(rest) \in Seq(Names)
    BY <1>1, <1>6, HeadTailProperties
  <2>6. <<"getNode", e.id, Tail(rest), k>> \in HandlerStep
    BY <1>1, <2>3, <2>5, StepTypes
  <2>7. << <<"getNode", e.id, Tail(rest), k>> >> \in Seq(HandlerStep)
    BY <2>6
  <2>8. (IF e.file \/ Len(rest) = 1
           THEN Then(k, [id |-> e.id, file |-> e.file])
           ELSE << <<"getNode", e.id, Tail(rest), k>> >>) \in Seq(HandlerStep)
    BY <2>4, <2>7
  <2> QED
    BY <1>1, <1>3, <1>6, <2>1, <2>8, GotoType
<1>7. ProcessType'
  BY <1>4, <1>5, <1>6 DEF GetNode
<1> QED
  BY <1>1, <1>2, <1>7, Frame DEF GetNode

LEMMA GetAttrType == ASSUME TypeOK, GetAttr PROVE TypeOK'
<1>1. todo # <<>> /\ Arg(2) \in NodeIds
  BY NextStep, StepArguments DEF GetAttr, Arg
<1>2. PICK r \in getItem(Arg(2)) : Goto(<<>>, r.cache, localFiles)
  BY DEF GetAttr
<1>3. IsMap(r.cache, NodeIds, Metadata) /\ IsMap(localFiles, ObjIds, Copy)
  BY <1>1, GetItemType DEF TypeOK
<1>4. ProcessType'
  BY <1>1, <1>2, <1>3, GotoType, EmptySeq
<1> QED
  BY <1>1, <1>4, Frame, NoDeviceChangeType DEF GetAttr

LEMMA OpenType == ASSUME TypeOK, Open PROVE TypeOK'
<1>1. todo # <<>> /\ IsMap(cache, NodeIds, Metadata)
  BY NextStep DEF Open, TypeOK
<1>2. PICK files \in openFile(Arg(2)) : Goto(<<>>, cache, files)
  BY DEF Open
<1>3. ProcessType'
  BY <1>1, <1>2, OpenFileType, GotoType, EmptySeq
<1> QED
  BY <1>1, <1>3, Frame, NoDeviceChangeType DEF Open

LEMMA ReadType == ASSUME TypeOK, Read PROVE TypeOK'
<1>1. todo # <<>> /\ IsMap(cache, NodeIds, Metadata) /\ todo \in Seq(HandlerStep)
  BY NextStep DEF Read, TypeOK
<1>2. PICK files \in openFile(Arg(2)) :
        /\ todo' = Tail(todo) /\ localFiles' = files /\ cache' = cache
        /\ reply' = [code |-> "ok", data |-> files[Arg(2)].data]
  BY DEF Read
<1>3. IsMap(files, ObjIds, Copy) /\ files[Arg(2)].data \in Data
  BY OpenFileType DEF Copy
<1>4. ProcessType'
  BY <1>1, <1>2, <1>3, HeadTailProperties DEF ProcessType, Codes
<1> QED
  BY <1>1, <1>4, Frame, NoDeviceChangeType DEF Read

LEMMA WriteType == ASSUME TypeOK, Write PROVE TypeOK'
<1> DEFINE n == Arg(2)
<1>1. /\ todo # <<>> /\ IsMap(cache, NodeIds, Metadata)
      /\ Arg(3) \in 0 .. MaxLen - 1 /\ Arg(4) \in Bytes
  BY NextStep, StepArguments DEF Write, TypeOK, Arg
<1>2. PICK files \in openFile(n) :
        Goto(<<>>, cache, [files EXCEPT ![n].data = WriteAt(@, Arg(3), Arg(4)),
                                        ![n].dirty = TRUE])
  BY DEF Write
<1>3. IsMap(files, ObjIds, Copy) /\ files[n] \in Copy
  BY OpenFileType
<1>4. WriteAt(files[n].data, Arg(3), Arg(4)) \in Data
  BY <1>1, <1>3, WriteAtType DEF Copy
<1>5. IsMap([files EXCEPT ![n].data = WriteAt(@, Arg(3), Arg(4)), ![n].dirty = TRUE],
            ObjIds, Copy)
  <2> DEFINE d == WriteAt(files[n].data, Arg(3), Arg(4))
  <2>1. [[files[n] EXCEPT !.data = d] EXCEPT !.dirty = TRUE] \in Copy
    BY <1>3, <1>4 DEF Copy
  <2> HIDE DEF d
  <2> QED
    BY <1>3, <2>1 DEF IsMap, d
<1>6. ProcessType'
  BY <1>1, <1>2, <1>5, GotoType, EmptySeq
<1> QED
  BY <1>1, <1>6, Frame, NoDeviceChangeType DEF Write

LEMMA TruncateType == ASSUME TypeOK, Truncate PROVE TypeOK'
<1> DEFINE n == Arg(2)
<1>1. /\ todo # <<>> /\ IsMap(localFiles, ObjIds, Copy)
      /\ n \in NodeIds /\ Arg(3) \in 0 .. MaxLen
  BY NextStep, StepArguments DEF Truncate, TypeOK, Arg
<1>2. PICK r \in getItem(n) :
        \/ Goto(<<>>, r.cache, localFiles)
        \/ \E files \in openFile(n) :
             Goto(<< <<"closeFile", n, {n, GetParentNodeId(r.md)}>> >>, r.cache,
                  [files EXCEPT ![n].data = Resize(@, Arg(3)), ![n].dirty = TRUE])
  BY DEF Truncate
<1>3. IsMap(r.cache, NodeIds, Metadata) /\ GetParentNodeId(r.md) \in NodeIds
  BY <1>1, GetItemType, ParentType
<1>4. ASSUME Goto(<<>>, r.cache, localFiles)
      PROVE  ProcessType'
  BY <1>1, <1>3, <1>4, GotoType, EmptySeq
<1>5. ASSUME NEW files \in openFile(n),
             Goto(<< <<"closeFile", n, {n, GetParentNodeId(r.md)}>> >>, r.cache,
                  [files EXCEPT ![n].data = Resize(@, Arg(3)), ![n].dirty = TRUE])
      PROVE  ProcessType'
  <2>1. IsMap(files, ObjIds, Copy) /\ files[n] \in Copy
    BY OpenFileType
  <2>2. Resize(files[n].data, Arg(3)) \in Data
    BY <1>1, <2>1, ResizeType DEF Copy
  <2> DEFINE d == Resize(files[n].data, Arg(3))
  <2>3. [[files[n] EXCEPT !.data = d] EXCEPT !.dirty = TRUE] \in Copy
    BY <2>1, <2>2 DEF Copy
  <2>4. IsMap([files EXCEPT ![n].data = d, ![n].dirty = TRUE], ObjIds, Copy)
    <3> HIDE DEF d
    <3> QED
      BY <2>1, <2>3 DEF IsMap
  <2>5. << <<"closeFile", n, {n, GetParentNodeId(r.md)}>> >> \in Seq(HandlerStep)
    <3>1. {n, GetParentNodeId(r.md)} \in SUBSET NodeIds
      BY <1>1, <1>3
    <3>2. <<"closeFile", n, {n, GetParentNodeId(r.md)}>> \in HandlerStep
      BY <1>1, <3>1, StepTypes
    <3> QED
      BY <3>2
  <2> QED
    BY <1>1, <1>3, <1>5, <2>4, <2>5, GotoType
<1>6. ProcessType'
  BY <1>2, <1>4, <1>5
<1> QED
  BY <1>1, <1>6, Frame, NoDeviceChangeType DEF Truncate

LEMMA FsyncType == ASSUME TypeOK, Fsync PROVE TypeOK'
<1> DEFINE n == Arg(2)
<1>1. todo # <<>> /\ IsMap(localFiles, ObjIds, Copy) /\ n \in NodeIds
  BY NextStep, StepArguments DEF Fsync, TypeOK, Arg
<1>2. PICK r \in getItem(n) :
        Goto(<< <<"closeFile", n, {GetParentNodeId(r.md)}>> >>, Drop(r.cache, {n}), localFiles)
  BY DEF Fsync
<1>3. IsMap(Drop(r.cache, {n}), NodeIds, Metadata) /\ GetParentNodeId(r.md) \in NodeIds
  BY <1>1, GetItemType, ParentType, DropIsMap
<1>4. << <<"closeFile", n, {GetParentNodeId(r.md)}>> >> \in Seq(HandlerStep)
  <2>1. {GetParentNodeId(r.md)} \in SUBSET NodeIds
    BY <1>3
  <2>2. <<"closeFile", n, {GetParentNodeId(r.md)}>> \in HandlerStep
    BY <1>1, <2>1, StepTypes
  <2> QED
    BY <2>2
<1>5. ProcessType'
  BY <1>1, <1>2, <1>3, <1>4, GotoType
<1> QED
  BY <1>1, <1>5, Frame, NoDeviceChangeType DEF Fsync

LEMMA CloseFileType == ASSUME TypeOK, CloseFile PROVE TypeOK'
<1>1. todo # <<>>
  BY NextStep DEF CloseFile
<1>2. /\ IsMap(Drop(cache, Arg(3)), NodeIds, Metadata)
      /\ IsMap(Drop(localFiles, {Arg(2)}), ObjIds, Copy)
  BY DropIsMap DEF TypeOK
<1>3. ProcessType'
  BY <1>1, <1>2, GotoType, EmptySeq DEF CloseFile
<1> QED
  BY <1>1, <1>3, Frame, NoDeviceChangeType DEF CloseFile

LEMMA UnmountType == ASSUME TypeOK, Unmount PROVE TypeOK'
<1>1. todo # <<>>
  BY NextStep DEF Unmount
<1>2. CASE Goto(<<>>, cache, localFiles)
  BY <1>1, <1>2, GotoType, EmptySeq, Frame, NoDeviceChangeType DEF Unmount, TypeOK
<1>3. ASSUME NEW n \in DOMAIN localFiles,
             Goto(<< <<"closeFile", n, {}>>, <<"unmount">> >>, cache, localFiles)
      PROVE  TypeOK'
  <2>1. IsMap(localFiles, ObjIds, Copy) /\ IsMap(cache, NodeIds, Metadata)
    BY DEF TypeOK
  <2>2. n \in NodeIds
    BY <2>1, MapElements DEF NodeIds
  <2>3. <<"closeFile", n, {}>> \in HandlerStep /\ <<"unmount">> \in HandlerStep
    BY <2>2, StepTypes
  <2>4. << <<"closeFile", n, {}>>, <<"unmount">> >> \in Seq(HandlerStep)
    BY <2>3
  <2>5. ProcessType'
    BY <1>1, <1>3, <2>1, <2>4, GotoType
  <2> QED
    BY <1>1, <2>5, Frame, NoDeviceChangeType DEF Unmount
<1> QED
  BY <1>2, <1>3 DEF Unmount

LEMMA MoveContentsType == ASSUME TypeOK, MoveContents PROVE TypeOK'
<1>1. /\ todo # <<>> /\ IsMap(localFiles, ObjIds, Copy)
      /\ Arg(2) \in NodeIds /\ Arg(3) \in NodeIds
  BY NextStep, StepArguments DEF MoveContents, TypeOK, Arg
<1>2. PICK r \in getItem(Arg(2)) :
        Goto(<< <<"moveRest", Arg(2), Arg(3), r.md.children>> >>, r.cache, localFiles)
  BY DEF MoveContents
<1>3. r.md.children \in SUBSET Entry /\ IsMap(r.cache, NodeIds, Metadata)
  BY <1>1, GetItemType DEF Metadata
<1>4. <<"moveRest", Arg(2), Arg(3), r.md.children>> \in HandlerStep
  BY <1>1, <1>3, StepTypes
<1>5. << <<"moveRest", Arg(2), Arg(3), r.md.children>> >> \in Seq(HandlerStep)
  BY <1>4
<1>6. ProcessType'
  BY <1>1, <1>2, <1>3, <1>5, GotoType
<1> QED
  BY <1>1, <1>6, Frame, NoDeviceChangeType DEF MoveContents

LEMMA MoveRestType == ASSUME TypeOK, MoveRest PROVE TypeOK'
<1>1. /\ todo # <<>> /\ IsMap(cache, NodeIds, Metadata) /\ IsMap(localFiles, ObjIds, Copy)
      /\ Arg(2) \in NodeIds /\ Arg(3) \in NodeIds /\ Arg(4) \in SUBSET Entry
  BY NextStep, StepArguments DEF MoveRest, TypeOK, Arg
<1>2. ASSUME Goto(<<>>, cache, localFiles)
      PROVE  ProcessType'
  BY <1>1, <1>2, GotoType, EmptySeq
<1>3. ASSUME NEW e \in Arg(4),
             Goto(<< <<"getNode", Arg(2), <<e.name>>, <<"child", Arg(3), e.name>> >>,
                     <<"moveRest", Arg(2), Arg(3), Arg(4) \ {e}>> >>, cache, localFiles)
      PROVE  ProcessType'
  <2>1. e.name \in Names
    BY <1>1 DEF Entry
  <2>2. <<e.name>> \in Seq(Names) /\ <<"child", Arg(3), e.name>> \in Continuation
    BY <1>1, <2>1, ContinuationTypes
  <2>3. /\ <<"getNode", Arg(2), <<e.name>>, <<"child", Arg(3), e.name>> >> \in HandlerStep
        /\ <<"moveRest", Arg(2), Arg(3), Arg(4) \ {e}>> \in HandlerStep
    BY <1>1, <2>2, StepTypes
  <2>4. << <<"getNode", Arg(2), <<e.name>>, <<"child", Arg(3), e.name>> >>,
           <<"moveRest", Arg(2), Arg(3), Arg(4) \ {e}>> >> \in Seq(HandlerStep)
    BY <2>3
  <2> QED
    BY <1>1, <1>3, <2>4, GotoType
<1>4. ProcessType'
  BY <1>2, <1>3 DEF MoveRest
<1> QED
  BY <1>1, <1>4, Frame, NoDeviceChangeType DEF MoveRest

LEMMA ClearItemsType == ASSUME TypeOK, ClearItems PROVE TypeOK'
<1>1. /\ todo # <<>> /\ IsMap(localFiles, ObjIds, Copy)
      /\ IsMap(Drop(cache, Arg(2)), NodeIds, Metadata)
  BY NextStep, DropIsMap DEF ClearItems, TypeOK
<1>2. ProcessType'
  BY <1>1, GotoType, EmptySeq DEF ClearItems
<1> QED
  BY <1>1, <1>2, Frame, NoDeviceChangeType DEF ClearItems

LEMMA RenameFileType == ASSUME TypeOK, RenameFile PROVE TypeOK'
<1>1. /\ todo # <<>> /\ IsMap(cache, NodeIds, Metadata) /\ IsMap(localFiles, ObjIds, Copy)
      /\ Arg(2).id \in NodeIds /\ Arg(3) \in NodeIds /\ Arg(4) \in Names
  BY NextStep, StepArguments DEF RenameFile, TypeOK, Arg, Node
<1>2. /\ <<"fsync", Arg(2).id>> \in HandlerStep
      /\ <<"copyTo", Arg(2).id, Arg(3), Arg(4)>> \in HandlerStep
  BY <1>1, StepTypes
<1>3. << <<"fsync", Arg(2).id>>, <<"copyTo", Arg(2).id, Arg(3), Arg(4)>> >>
        \in Seq(HandlerStep)
  BY <1>2
<1>4. ProcessType'
  BY <1>1, <1>3, GotoType DEF RenameFile
<1> QED
  BY <1>1, <1>4, Frame, NoDeviceChangeType DEF RenameFile

LEMMA RefuseType == ASSUME TypeOK, Refuse PROVE TypeOK'
<1>1. IsMap(cache, NodeIds, Metadata) /\ IsMap(localFiles, ObjIds, Copy) /\ "EROFS" \in Codes
  BY DEF TypeOK, Codes
<1>2. CASE At("throw") /\ Throw(Arg(2), cache, localFiles)
  <2>1. todo # <<>> /\ Arg(2) \in Codes
    BY <1>2, NextStep, StepArguments DEF Arg
  <2>2. ProcessType'
    BY <1>1, <1>2, <2>1, ThrowType
  <2> QED
    BY <2>1, <2>2, Frame, NoDeviceChangeType DEF Refuse
<1>3. CASE At("rename") /\ Throw("EROFS", cache, localFiles)
  <2>1. todo # <<>>
    BY <1>3, NextStep
  <2>2. ProcessType'
    BY <1>1, <1>3, ThrowType
  <2> QED
    BY <2>1, <2>2, Frame, NoDeviceChangeType DEF Refuse
<1> QED
  BY <1>2, <1>3 DEF Refuse

-----------------------------------------------------------------------------
(* Steps that change the device.                                           *)
LEMMA SameDeviceType ==
  ASSUME TypeOK, UNCHANGED device
  PROVE  DeviceTypeOK'
BY DEF TypeOK, device, DeviceTypeOK

LEMMA NewStoreType ==
  ASSUME IsMap(objs', ObjIds, Object), nextId' \in 1 .. MaxId + 1
  PROVE  DeviceTypeOK'
BY DEF DeviceTypeOK

LEMMA FaultsType ==
  ASSUME TypeOK, faults' = faults \/ (faults > 0 /\ faults' = faults - 1)
  PROVE  faults' \in 0 .. MaxFaults
BY JmtpfsAssumption DEF TypeOK

LEMMA DeleteOldType == ASSUME TypeOK, DeleteOld PROVE TypeOK'
<1> DEFINE n == Arg(2)
           steps == << <<"sendFile", n, Arg(3), [objs[n] EXCEPT !.data = localFiles[n].data]>> >>
           files == [localFiles EXCEPT ![n].dirty = FALSE]
<1>1. /\ todo # <<>> /\ Arg(3) \in SUBSET NodeIds
      /\ IsMap(cache, NodeIds, Metadata) /\ IsMap(localFiles, ObjIds, Copy)
  BY NextStep, StepArguments DEF DeleteOld, TypeOK, Arg
<1>2. n \in ObjIds /\ localFiles[n] \in Copy
  BY <1>1, MapElements DEF DeleteOld
<1>3. \/ /\ n \in DOMAIN objs /\ objs' = WithoutObject(n) /\ nextId' = nextId
         /\ faults' = faults /\ Goto(steps, cache, files)
      \/ /\ UNCHANGED device \/ (objs' = WithoutObject(n) /\ nextId' = nextId)
         /\ faults' = faults \/ (faults > 0 /\ faults' = faults - 1)
         /\ Throw("EIO", cache, Broken(n))
  BY DEF DeleteOld, DeviceCall
<1>4. ASSUME n \in DOMAIN objs, Goto(steps, cache, files)
      PROVE  ProcessType'
  <2>1. objs[n] \in Object
    BY <1>4, ObjectFields DEF TypeOK
  <2>2. [objs[n] EXCEPT !.data = localFiles[n].data] \in Object
    BY <1>2, <2>1 DEF Object, Copy
  <2>3. <<"sendFile", n, Arg(3), [objs[n] EXCEPT !.data = localFiles[n].data]>> \in HandlerStep
    BY <1>1, <1>2, <2>2, StepTypes
  <2>4. steps \in Seq(HandlerStep)
    BY <2>3
  <2>5. [localFiles[n] EXCEPT !.dirty = FALSE] \in Copy
    BY <1>2 DEF Copy
  <2>6. IsMap(files, ObjIds, Copy)
    BY <1>1, <2>5, CopyUpdateType
  <2> HIDE DEF steps, files
  <2> QED
    BY <1>1, <1>4, <2>4, <2>6, GotoType
<1>5. ASSUME Throw("EIO", cache, Broken(n)) PROVE ProcessType'
  BY <1>1, <1>5, BrokenType, ThrowType DEF Codes
<1>6. nextId \in 1 .. MaxId + 1 /\ IsMap(WithoutObject(n), ObjIds, Object)
  BY RemoveType DEF TypeOK, DeviceTypeOK
<1>7. DeviceTypeOK' /\ faults' \in 0 .. MaxFaults
  BY <1>3, <1>6, SameDeviceType, NewStoreType, FaultsType
<1>8. ProcessType'
  BY <1>3, <1>4, <1>5
<1> QED
  BY <1>1, <1>7, <1>8, Frame DEF DeleteOld

LEMMA SendFileType == ASSUME TypeOK, SendFile PROVE TypeOK'
<1> DEFINE n == Arg(2)
           after == {IF x = n THEN nextId ELSE x : x \in Arg(3)}
<1>1. /\ todo # <<>> /\ n \in ObjIds /\ Arg(4) \in Object /\ todo \in Seq(HandlerStep)
      /\ IsMap(cache, NodeIds, Metadata) /\ IsMap(localFiles, ObjIds, Copy)
  BY NextStep, StepArguments DEF SendFile, TypeOK, Arg
<1>2. \/ /\ MayAdd(Arg(4)) /\ objs' = WithObject(Arg(4)) /\ nextId' = nextId + 1
         /\ faults' = faults
         /\ todo' = Renumber(Tail(todo), n, nextId)
         /\ cache' = Drop(cache, after) /\ localFiles' = Drop(localFiles, {n})
         /\ reply' = reply
      \/ /\ \/ UNCHANGED device
            \/ MayAdd(Arg(4)) /\ objs' = WithObject(Arg(4)) /\ nextId' = nextId + 1
         /\ faults' = faults \/ (faults > 0 /\ faults' = faults - 1)
         /\ Throw("EIO", cache, Broken(n))
  BY DEF SendFile, DeviceCall
<1>3. MayAdd(Arg(4)) => /\ IsMap(WithObject(Arg(4)), ObjIds, Object)
                        /\ nextId + 1 \in 1 .. MaxId + 1 /\ nextId \in ObjIds
  BY <1>1, AddType DEF TypeOK
<1>4. ASSUME nextId \in ObjIds PROVE Renumber(Tail(todo), n, nextId) \in Seq(HandlerStep)
  <2> DEFINE rest == Tail(todo)
  <2>1. rest \in Seq(HandlerStep)
    BY <1>1, HeadTailProperties
  <2>2. ASSUME NEW k \in DOMAIN rest, rest[k][1] = "copyTo"
        PROVE  [rest[k] EXCEPT ![2] = nextId] \in HandlerStep
    <3>1. rest[k] \in HandlerStep
      BY <2>1, <2>2, LenProperties, ElementOfSeq
    <3>2. rest[k] \in {"copyTo"} \X NodeIds \X NodeIds \X Names
      BY <2>2, <3>1 DEF HandlerStep
    <3>3. [rest[k] EXCEPT ![2] = nextId] \in {"copyTo"} \X NodeIds \X NodeIds \X Names
      <4>1. PICK m \in NodeIds, dst \in NodeIds, name \in Names :
              rest[k] = <<"copyTo", m, dst, name>>
        BY <3>2
      <4>2. [rest[k] EXCEPT ![2] = nextId] = <<"copyTo", nextId, dst, name>>
        BY <4>1
      <4> QED
        BY <1>4, <4>2 DEF NodeIds
    <3> QED
      BY <3>3 DEF HandlerStep
  <2>3. \A k \in 1 .. Len(rest) : rest[k] \in HandlerStep /\ k \in DOMAIN rest
    BY <2>1, LenProperties, ElementOfSeq
  <2>4. Renumber(rest, n, nextId) \in [1 .. Len(rest) -> HandlerStep]
    <3> HIDE DEF rest
    <3> QED
      BY <2>1, <2>2, <2>3, LenProperties DEF Renumber
  <2> QED
    BY <2>1, <2>4, LenProperties, SeqDef
<1>5. ASSUME nextId \in ObjIds, todo' = Renumber(Tail(todo), n, nextId),
             cache' = Drop(cache, after), localFiles' = Drop(localFiles, {n}), reply' = reply
      PROVE  ProcessType'
  BY <1>1, <1>4, <1>5, DropIsMap DEF ProcessType, TypeOK
<1>6. ASSUME Throw("EIO", cache, Broken(n)) PROVE ProcessType'
  BY <1>1, <1>6, BrokenType, ThrowType DEF Codes
<1>7. ProcessType'
  BY <1>2, <1>3, <1>5, <1>6
<1>8. DeviceTypeOK' /\ faults' \in 0 .. MaxFaults
  BY <1>2, <1>3, SameDeviceType, NewStoreType, FaultsType
<1> QED
  BY <1>1, <1>7, <1>8, Frame DEF SendFile

LEMMA MkdirType == ASSUME TypeOK, Mkdir PROVE TypeOK'
<1> DEFINE folder == NewObject(Arg(2), Arg(3), FALSE, <<>>)
<1>1. /\ todo # <<>> /\ Arg(2) \in NodeIds /\ Arg(3) \in Names
      /\ IsMap(cache, NodeIds, Metadata) /\ IsMap(localFiles, ObjIds, Copy)
  BY NextStep, StepArguments DEF Mkdir, TypeOK, Arg
<1>2. folder \in Object
  BY <1>1, InCall, NewObjectType, EmptyIsData
<1>3. \/ /\ MayAdd(folder) /\ objs' = WithObject(folder) /\ nextId' = nextId + 1
         /\ faults' = faults /\ Goto(<<>>, Drop(cache, {Arg(2)}), localFiles)
      \/ /\ \/ UNCHANGED device
            \/ MayAdd(folder) /\ objs' = WithObject(folder) /\ nextId' = nextId + 1
         /\ faults' = faults \/ (faults > 0 /\ faults' = faults - 1)
         /\ Throw("EIO", cache, localFiles)
  BY DEF Mkdir, DeviceCall
<1> HIDE DEF folder
<1>4. MayAdd(folder) => /\ IsMap(WithObject(folder), ObjIds, Object)
                        /\ nextId + 1 \in 1 .. MaxId + 1
  BY <1>2, AddType DEF TypeOK
<1>5. IsMap(Drop(cache, {Arg(2)}), NodeIds, Metadata) /\ "EIO" \in Codes
  BY <1>1, DropIsMap DEF Codes
<1>6. ProcessType'
  BY <1>1, <1>3, <1>5, GotoType, ThrowType, EmptySeq
<1>7. DeviceTypeOK' /\ faults' \in 0 .. MaxFaults
  BY <1>3, <1>4, SameDeviceType, NewStoreType, FaultsType
<1> QED
  BY <1>1, <1>6, <1>7, Frame DEF Mkdir

LEMMA CreateFileType == ASSUME TypeOK, CreateFile PROVE TypeOK'
<1> DEFINE file == NewObject(Arg(2), Arg(3), TRUE, <<>>)
<1>1. /\ todo # <<>> /\ Arg(2) \in NodeIds /\ Arg(3) \in Names
      /\ IsMap(cache, NodeIds, Metadata) /\ IsMap(localFiles, ObjIds, Copy)
  BY NextStep, StepArguments DEF CreateFile, TypeOK, Arg
<1>2. file \in Object
  BY <1>1, InCall, NewObjectType, EmptyIsData
<1>3. \/ /\ MayAdd(file) /\ objs' = WithObject(file) /\ nextId' = nextId + 1
         /\ faults' = faults /\ Goto(<<>>, Drop(cache, {nextId, Arg(2)}), localFiles)
      \/ /\ \/ UNCHANGED device
            \/ MayAdd(file) /\ objs' = WithObject(file) /\ nextId' = nextId + 1
         /\ faults' = faults \/ (faults > 0 /\ faults' = faults - 1)
         /\ Throw("EIO", cache, localFiles)
  BY DEF CreateFile, DeviceCall
<1> HIDE DEF file
<1>4. MayAdd(file) => /\ IsMap(WithObject(file), ObjIds, Object)
                      /\ nextId + 1 \in 1 .. MaxId + 1
  BY <1>2, AddType DEF TypeOK
<1>5. IsMap(Drop(cache, {nextId, Arg(2)}), NodeIds, Metadata) /\ "EIO" \in Codes
  BY <1>1, DropIsMap DEF Codes
<1>6. ProcessType'
  BY <1>1, <1>3, <1>5, GotoType, ThrowType, EmptySeq
<1>7. DeviceTypeOK' /\ faults' \in 0 .. MaxFaults
  BY <1>3, <1>4, SameDeviceType, NewStoreType, FaultsType
<1> QED
  BY <1>1, <1>6, <1>7, Frame DEF CreateFile

LEMMA RemoveNodeType == ASSUME TypeOK, RemoveNode PROVE TypeOK'
<1> DEFINE n == Arg(2)
<1>1. todo # <<>> /\ n \in NodeIds /\ IsMap(localFiles, ObjIds, Copy)
  BY NextStep, StepArguments DEF RemoveNode, TypeOK, Arg
<1>2. PICK r \in getItem(n) :
        \/ NoDeviceChange /\ Throw("ENOTEMPTY", r.cache, localFiles)
        \/ DeviceCall(n \in DOMAIN objs, WithoutObject(n), nextId,
             Goto(<<>>, Drop(r.cache, {n, GetParentNodeId(r.md)}), localFiles),
             Throw("EIO", r.cache, localFiles))
  BY DEF RemoveNode
<1>3. \/ NoDeviceChange /\ Throw("ENOTEMPTY", r.cache, localFiles)
      \/ /\ UNCHANGED device \/ (objs' = WithoutObject(n) /\ nextId' = nextId)
         /\ faults' = faults \/ (faults > 0 /\ faults' = faults - 1)
         /\ \/ Goto(<<>>, Drop(r.cache, {n, GetParentNodeId(r.md)}), localFiles)
            \/ Throw("EIO", r.cache, localFiles)
  BY <1>2 DEF DeviceCall
<1>4. /\ IsMap(r.cache, NodeIds, Metadata)
      /\ IsMap(Drop(r.cache, {n, GetParentNodeId(r.md)}), NodeIds, Metadata)
      /\ "EIO" \in Codes /\ "ENOTEMPTY" \in Codes
  BY <1>1, GetItemType, DropIsMap DEF Codes
<1>5. ProcessType'
  BY <1>1, <1>3, <1>4, GotoType, ThrowType, EmptySeq
<1>6. nextId \in 1 .. MaxId + 1 /\ IsMap(WithoutObject(n), ObjIds, Object)
  BY RemoveType DEF TypeOK, DeviceTypeOK
<1>7. DeviceTypeOK' /\ faults' \in 0 .. MaxFaults
  BY <1>3, <1>6, NoDeviceChangeType, SameDeviceType, NewStoreType, FaultsType
<1> QED
  BY <1>1, <1>5, <1>7, Frame DEF RemoveNode

LEMMA CopyToType == ASSUME TypeOK, CopyTo PROVE TypeOK'
<1> DEFINE n == Arg(2)
           new(files) == NewObject(Arg(3), Arg(4), TRUE, files[n].data)
           steps(r) == << <<"dropOriginal", n, GetParentNodeId(r.md)>> >>
<1>1. todo # <<>> /\ n \in NodeIds /\ Arg(3) \in NodeIds /\ Arg(4) \in Names
  BY NextStep, StepArguments DEF CopyTo, TypeOK, Arg
<1>2. PICK r \in getItem(n), files \in openFile(n) :
        DeviceCall(MayAdd(new(files)), WithObject(new(files)), nextId + 1,
          Goto(steps(r), Drop(r.cache, {n, nextId}), files), Throw("EIO", r.cache, files))
  BY DEF CopyTo
<1> DEFINE o == new(files)
<1>3. \/ /\ MayAdd(o) /\ objs' = WithObject(o) /\ nextId' = nextId + 1 /\ faults' = faults
         /\ Goto(steps(r), Drop(r.cache, {n, nextId}), files)
      \/ /\ UNCHANGED device \/ (MayAdd(o) /\ objs' = WithObject(o) /\ nextId' = nextId + 1)
         /\ faults' = faults \/ (faults > 0 /\ faults' = faults - 1)
         /\ Throw("EIO", r.cache, files)
  BY <1>2 DEF DeviceCall
<1>4. /\ IsMap(r.cache, NodeIds, Metadata) /\ GetParentNodeId(r.md) \in NodeIds
      /\ IsMap(Drop(r.cache, {n, nextId}), NodeIds, Metadata) /\ "EIO" \in Codes
  BY <1>1, GetItemType, ParentType, DropIsMap DEF Codes
<1>5. IsMap(files, ObjIds, Copy) /\ files[n].data \in Data
  BY OpenFileType DEF Copy
<1>6. o \in Object
  BY <1>1, <1>5, InCall, NewObjectType
<1> HIDE DEF o
<1>7. steps(r) \in Seq(HandlerStep)
  <2>1. <<"dropOriginal", n, GetParentNodeId(r.md)>> \in HandlerStep
    BY <1>1, <1>4, StepTypes
  <2> QED
    BY <2>1
<1> HIDE DEF steps
<1>8. ProcessType'
  BY <1>1, <1>3, <1>4, <1>5, <1>7, GotoType, ThrowType
<1>9. MayAdd(o) => IsMap(WithObject(o), ObjIds, Object) /\ nextId + 1 \in 1 .. MaxId + 1
  BY <1>6, AddType DEF TypeOK
<1>10. DeviceTypeOK' /\ faults' \in 0 .. MaxFaults
  BY <1>3, <1>9, SameDeviceType, NewStoreType, FaultsType
<1> QED
  BY <1>1, <1>8, <1>10, Frame DEF CopyTo

LEMMA DropOriginalType == ASSUME TypeOK, DropOriginal PROVE TypeOK'
<1>1. /\ todo # <<>> /\ IsMap(localFiles, ObjIds, Copy) /\ IsMap(cache, NodeIds, Metadata)
      /\ IsMap(Drop(cache, {Arg(3)}), NodeIds, Metadata) /\ "EIO" \in Codes
  BY NextStep, DropIsMap DEF DropOriginal, TypeOK, Codes
<1>2. /\ UNCHANGED device \/ (objs' = WithoutObject(Arg(2)) /\ nextId' = nextId)
      /\ faults' = faults \/ (faults > 0 /\ faults' = faults - 1)
      /\ \/ Goto(<<>>, Drop(cache, {Arg(3)}), localFiles)
         \/ Throw("EIO", cache, localFiles)
  BY DEF DropOriginal, DeviceCall
<1>3. ProcessType'
  BY <1>1, <1>2, GotoType, ThrowType, EmptySeq
<1>4. nextId \in 1 .. MaxId + 1 /\ IsMap(WithoutObject(Arg(2)), ObjIds, Object)
  BY RemoveType DEF TypeOK, DeviceTypeOK
<1>5. DeviceTypeOK' /\ faults' \in 0 .. MaxFaults
  BY <1>2, <1>4, SameDeviceType, NewStoreType, FaultsType
<1> QED
  BY <1>1, <1>3, <1>5, Frame DEF DropOriginal

LEMMA RenameFolderType == ASSUME TypeOK, RenameFolder PROVE TypeOK'
<1> DEFINE n == Arg(2).id
           dst == Arg(3)
           name == Arg(4)
           move == << <<"mkdir", dst, name>>, <<"getNode", dst, <<name>>, <<"destDir", n>> >>,
                      <<"remove", n, FALSE>> >>
           clear(r) == <<"clearItems", {dst, GetParentNodeId(r.md)}>>
<1>1. /\ todo # <<>> /\ IsMap(localFiles, ObjIds, Copy)
      /\ n \in NodeIds /\ dst \in NodeIds /\ name \in Names
  BY NextStep, StepArguments DEF RenameFolder, TypeOK, Arg, Node
<1>2. PICK r \in getItem(n) :
        \/ DeviceCall(MaySetName(n, name), WithName(n, name), nextId,
             Goto(<<>>, Drop(r.cache, {dst, GetParentNodeId(r.md)}), localFiles),
             Throw("EIO", r.cache, localFiles))
        \/ /\ NoDeviceChange
           /\ Goto(<<move[1], move[2], move[3], clear(r)>>, r.cache, localFiles)
  BY DEF RenameFolder
<1>3. /\ IsMap(r.cache, NodeIds, Metadata) /\ GetParentNodeId(r.md) \in NodeIds
      /\ IsMap(Drop(r.cache, {dst, GetParentNodeId(r.md)}), NodeIds, Metadata)
      /\ "EIO" \in Codes
  BY <1>1, GetItemType, ParentType, DropIsMap DEF Codes
<1>4. <<move[1], move[2], move[3], clear(r)>> \in Seq(HandlerStep)
  <2>1. <<name>> \in Seq(Names) /\ <<"destDir", n>> \in Continuation
    BY <1>1, ContinuationTypes
  <2>2. {dst, GetParentNodeId(r.md)} \in SUBSET NodeIds
    BY <1>1, <1>3
  <2>3. /\ <<"mkdir", dst, name>> \in HandlerStep
        /\ <<"getNode", dst, <<name>>, <<"destDir", n>> >> \in HandlerStep
        /\ <<"remove", n, FALSE>> \in HandlerStep
        /\ clear(r) \in HandlerStep
    BY <1>1, <2>1, <2>2, StepTypes
  <2> QED
    BY <2>3
<1> HIDE DEF move, clear
<1>5. \/ NoDeviceChange /\ Goto(<<move[1], move[2], move[3], clear(r)>>, r.cache, localFiles)
      \/ /\ \/ UNCHANGED device
            \/ MaySetName(n, name) /\ objs' = WithName(n, name) /\ nextId' = nextId
         /\ faults' = faults \/ (faults > 0 /\ faults' = faults - 1)
         /\ \/ Goto(<<>>, Drop(r.cache, {dst, GetParentNodeId(r.md)}), localFiles)
            \/ Throw("EIO", r.cache, localFiles)
  BY <1>2 DEF DeviceCall
<1>6. ProcessType'
  BY <1>1, <1>3, <1>4, <1>5, GotoType, ThrowType, EmptySeq
<1>7. /\ nextId \in 1 .. MaxId + 1
      /\ MaySetName(n, name) => IsMap(WithName(n, name), ObjIds, Object)
  BY <1>1, SetNameType DEF TypeOK, DeviceTypeOK
<1>8. DeviceTypeOK' /\ faults' \in 0 .. MaxFaults
  BY <1>5, <1>7, NoDeviceChangeType, SameDeviceType, NewStoreType, FaultsType
<1> QED
  BY <1>1, <1>6, <1>8, Frame DEF RenameFolder

-----------------------------------------------------------------------------
(* Failures, and the end of the process.                                   *)
LEMMA ReadFailsType == ASSUME TypeOK, ReadFails PROVE TypeOK'
<1>1. /\ todo # <<>> /\ IsMap(cache, NodeIds, Metadata) /\ IsMap(localFiles, ObjIds, Copy)
  BY DEF ReadFails, At, TypeOK
<1>2. DeviceTypeOK' /\ faults' \in 0 .. MaxFaults
  BY NoDeviceChangeType, SameDeviceType, FaultsType DEF ReadFails
<1>3. PICK c \in {cache} \cup {r.cache : r \in IF At("truncate") \/ At("copyTo")
                                                THEN getItem(Arg(2)) ELSE {}} :
        Throw("EIO", c, localFiles)
  BY DEF ReadFails
<1>4. IsMap(c, NodeIds, Metadata)
  <2>1. CASE c = cache
    BY <1>1, <2>1
  <2>2. CASE /\ At("truncate") \/ At("copyTo")
             /\ \E r \in getItem(Arg(2)) : c = r.cache
    <3>1. Arg(2) \in NodeIds
      BY <2>2, NextStep, StepArguments DEF Arg
    <3> QED
      BY <2>2, <3>1, GetItemType
  <2> QED
    BY <2>1, <2>2
<1>5. ProcessType'
  BY <1>1, <1>3, <1>4, ThrowType DEF Codes
<1> QED
  BY <1>1, <1>2, <1>5, Frame DEF ReadFails

LEMMA EmptyMapType == \A S, T : IsMap(EmptyMap, S, T)
BY DEF EmptyMap, IsMap

LEMMA NoCallType ==
  ASSUME NEW h \in Handles
  PROVE  NoCall(h) \in Call /\ NoCall(h).op = "none"
<1>1. <<>> \in Path
  BY EmptySeq DEF Path
<1> QED
  BY <1>1, DeviceAssumption DEF NoCall, Call

LEMMA ProcessEndsType ==
  ASSUME TypeOK, faults' \in 0 .. MaxFaults, NEW how \in {"down", "crashed"},
         ProcessEnds(how, EmptyMap)
  PROVE  TypeOK'
<1>1. call.h \in Handles
  BY DEF TypeOK, Call
<1>2. call' \in Call /\ call'.op = "none"
  BY <1>1, NoCallType DEF ProcessEnds
<1>3. DeviceTypeOK'
  BY SameDeviceType DEF ProcessEnds
<1>4. IsMap(cache', NodeIds, Metadata) /\ IsMap(localFiles', ObjIds, Copy)
  BY EmptyMapType DEF ProcessEnds
<1>5. todo' = <<>> /\ todo' \in Seq(HandlerStep) /\ reply' \in [code : Codes, data : Data]
  BY EmptySeq, EmptyIsData DEF ProcessEnds, Okay, Codes
<1>6. handles' \in [Handles -> Path]
  <2>1. <<>> \in Path
    BY EmptySeq DEF Path
  <2> QED
    BY <2>1 DEF ProcessEnds
<1>7. proc' \in {"up", "down", "crashed"}
  BY DEF ProcessEnds
<1> QED
  BY <1>2, <1>3, <1>4, <1>5, <1>6, <1>7 DEF TypeOK, Path, LongPath, Call

LEMMA CrashType == ASSUME TypeOK, Crash PROVE TypeOK'
<1>1. faults' \in 0 .. MaxFaults /\ ProcessEnds("crashed", EmptyMap)
  BY DEF Crash, TypeOK
<1> QED
  BY <1>1, ProcessEndsType

LEMMA UnmountedType == ASSUME TypeOK, Unmounted PROVE TypeOK'
<1>1. faults' \in 0 .. MaxFaults
  BY DEF Unmounted, TypeOK
<1>2. \E how \in {"down", "crashed"} : ProcessEnds(how, EmptyMap)
  BY DEF Unmounted
<1> QED
  BY <1>1, <1>2, ProcessEndsType

LEMMA DisconnectType == ASSUME TypeOK, Disconnect PROVE TypeOK'
<1>1. faults' \in 0 .. MaxFaults /\ ProcessEnds("down", EmptyMap)
  BY FaultsType DEF Disconnect
<1> QED
  BY <1>1, ProcessEndsType

LEMMA MountType == ASSUME TypeOK, Mount PROVE TypeOK'
BY DEF TypeOK, Mount, device, process, DeviceTypeOK, Path, LongPath, Call

-----------------------------------------------------------------------------
(* The kernel's calls and their returns.                                   *)
LEMMA AppendNames ==
  ASSUME NEW p \in Path, p # <<>>, NEW names \in Seq(Names)
  PROVE  p \o names \in Path \ {<<>>} /\ Len(p \o names) = Len(p) + Len(names)
<1> DEFINE q == p \o names
<1>1. p \in Seq(Storages \cup Names) /\ names \in Seq(Storages \cup Names)
      /\ Len(p) \in Nat \ {0}
  BY EmptySeq DEF Path
<1>2. /\ q \in Seq(Storages \cup Names) /\ Len(q) = Len(p) + Len(names)
      /\ \A k \in 1 .. Len(p) + Len(names) :
           q[k] = IF k <= Len(p) THEN p[k] ELSE names[k - Len(p)]
  BY <1>1, ConcatProperties
<1>3. p[1] \in Storages /\ \A k \in 2 .. Len(p) : p[k] \in Names
  BY DEF Path
<1>4. \A k \in 1 .. Len(names) : names[k] \in Names
  BY ElementOfSeq
<1>5. q[1] \in Storages
  BY <1>1, <1>2, <1>3, LenProperties
<1>6. \A k \in 2 .. Len(q) : q[k] \in Names
  BY <1>1, <1>2, <1>3, <1>4, LenProperties
<1>7. q # <<>>
  BY <1>1, <1>2, LenProperties
<1> HIDE DEF q
<1>8. q \in Path
  BY <1>2, <1>5, <1>6 DEF Path
<1> QED
  BY <1>2, <1>7, <1>8 DEF q

LEMMA PathsType == Paths \subseteq Path \ {<<>>}
<1> SUFFICES ASSUME NEW p \in Paths PROVE p \in Path \ {<<>>}
  OBVIOUS
<1>1. PICK s \in Storages, names \in SeqOf(Names, MaxDepth) : p = Cons(s, names)
  BY DEF Paths
<1>2. names \in Seq(Names)
  <2>1. PICK d \in 0 .. MaxDepth : names \in [1 .. d -> Names]
    BY <1>1 DEF SeqOf
  <2>2. d \in Nat
    BY JmtpfsAssumption
  <2> QED
    BY <2>1, <2>2, SeqDef
<1>3. <<s>> \in Path /\ <<s>> # <<>>
  BY DEF Path
<1> QED
  BY <1>1, <1>2, <1>3, AppendNames DEF Cons

LEMMA BeginType ==
  ASSUME TypeOK, proc = "up", call.op = "none",
         NEW op, op # "none", NEW path \in Path \ {<<>>}, NEW new \in Path \ {<<>>},
         NEW off \in 0 .. MaxLen, NEW byte \in Bytes, NEW h \in Handles,
         op \in {"mkdir", "create"} => Len(path) > 1,
         op = "rename" => Len(new) > 1,
         op = "write" => off < MaxLen,
         Begin(op, path, new, off, byte, h)
  PROVE  TypeOK'
<1> DEFINE c == [op |-> op, path |-> path, new |-> new, off |-> off, byte |-> byte, h |-> h]
<1>1. /\ op \in Ops /\ call' = c /\ todo' = Handler(c)
      /\ UNCHANGED <<device, cache, localFiles, reply, handles, proc, faults>>
  BY DEF Begin
<1>2. c \in Call
  BY <1>1 DEF Call
<1>3. WellFormed(c)
  BY <1>2 DEF WellFormed, LongPath
<1>4. Handler(c) \in Seq(HandlerStep)
  BY <1>3, HandlerType
<1> HIDE DEF c
<1>5. DeviceTypeOK'
  BY <1>1, SameDeviceType
<1>6. /\ call' \in Call /\ call'.op # "none" /\ call'.path # <<>> /\ call'.new # <<>>
      /\ call'.op \in {"mkdir", "create"} => call'.path \in LongPath
      /\ call'.op = "rename" => call'.new \in LongPath
      /\ call'.op = "write" => call'.off < MaxLen
      /\ todo' \in Seq(HandlerStep)
  BY <1>1, <1>3, <1>4 DEF WellFormed
<1>7. proc' = "up" /\ proc' \in {"up", "down", "crashed"}
  BY <1>1
<1> QED
  BY <1>1, <1>5, <1>6, <1>7 DEF TypeOK, Call, Path, LongPath

LEMMA KernelType == ASSUME TypeOK, Kernel PROVE TypeOK'
<1>1. /\ proc = "up" /\ call.op = "none" /\ call.h \in Handles
      /\ 0 \in 0 .. MaxLen /\ 0 \in Bytes
      /\ \A h \in Handles : handles[h] \in Path
  BY DeviceAssumption DEF Kernel, TypeOK, Call
<1>2. CASE \E op \in {"getattr", "statfs", "chmod", "utime", "readdir", "rmdir", "unlink"},
              p \in Paths : Begin(op, p, p, 0, 0, call.h)
  <2>1. PICK op \in {"getattr", "statfs", "chmod", "utime", "readdir", "rmdir", "unlink"},
             p \in Paths : Begin(op, p, p, 0, 0, call.h)
    BY <1>2
  <2>2. p \in Path \ {<<>>} /\ op # "none" /\ op \notin {"mkdir", "create", "rename", "write"}
    BY PathsType
  <2> QED
    BY <1>1, <2>1, <2>2, BeginType
<1>3. CASE \E p \in Paths, n \in 0 .. MaxLen : Begin("truncate", p, p, n, 0, call.h)
  <2>1. PICK p \in Paths, n \in 0 .. MaxLen : Begin("truncate", p, p, n, 0, call.h)
    BY <1>3
  <2>2. p \in Path \ {<<>>}
    BY PathsType
  <2> QED
    BY <1>1, <2>1, <2>2, BeginType
<1>4. CASE \E p \in Paths, h \in Handles :
             \/ Begin("open", p, p, 0, 0, h)
             \/ Len(p) > 1 /\ Begin("create", p, p, 0, 0, h)
             \/ Len(p) > 1 /\ h = call.h /\ Begin("mkdir", p, p, 0, 0, h)
  <2>1. PICK p \in Paths, h \in Handles :
             \/ Begin("open", p, p, 0, 0, h)
             \/ Len(p) > 1 /\ Begin("create", p, p, 0, 0, h)
             \/ Len(p) > 1 /\ Begin("mkdir", p, p, 0, 0, h)
    BY <1>4
  <2>2. p \in Path \ {<<>>}
    BY PathsType
  <2>3. CASE Begin("open", p, p, 0, 0, h)
    BY <1>1, <2>2, <2>3, BeginType
  <2>4. CASE Len(p) > 1 /\ Begin("create", p, p, 0, 0, h)
    BY <1>1, <2>2, <2>4, BeginType
  <2>5. CASE Len(p) > 1 /\ Begin("mkdir", p, p, 0, 0, h)
    BY <1>1, <2>2, <2>5, BeginType
  <2> QED
    BY <2>1, <2>3, <2>4, <2>5
<1>5. CASE \E h \in Handles :
             /\ handles[h] # <<>>
             /\ \/ \E op \in {"read", "flush", "release"} :
                     Begin(op, handles[h], handles[h], 0, 0, h)
                \/ \E n \in 0 .. MaxLen - 1, b \in Bytes :
                     Begin("write", handles[h], handles[h], n, b, h)
  <2>1. PICK h \in Handles :
             /\ handles[h] # <<>>
             /\ \/ \E op \in {"read", "flush", "release"} :
                     Begin(op, handles[h], handles[h], 0, 0, h)
                \/ \E n \in 0 .. MaxLen - 1, b \in Bytes :
                     Begin("write", handles[h], handles[h], n, b, h)
    BY <1>5
  <2>2. handles[h] \in Path \ {<<>>}
    BY <1>1, <2>1
  <2>3. ASSUME NEW op \in {"read", "flush", "release"},
               Begin(op, handles[h], handles[h], 0, 0, h)
        PROVE  TypeOK'
    BY <1>1, <2>2, <2>3, BeginType
  <2>4. ASSUME NEW n \in 0 .. MaxLen - 1, NEW b \in Bytes,
               Begin("write", handles[h], handles[h], n, b, h)
        PROVE  TypeOK'
    <3>1. n \in 0 .. MaxLen /\ n < MaxLen
      BY DeviceAssumption
    <3> QED
      BY <1>1, <2>2, <2>4, <3>1, BeginType
  <2> QED
    BY <2>1, <2>3, <2>4
<1>6. CASE \E p, q \in Paths : Len(q) > 1 /\ Begin("rename", p, q, 0, 0, call.h)
  <2>1. PICK p \in Paths, q \in Paths : Len(q) > 1 /\ Begin("rename", p, q, 0, 0, call.h)
    BY <1>6
  <2>2. p \in Path \ {<<>>} /\ q \in Path \ {<<>>}
    BY PathsType
  <2> QED
    BY <1>1, <2>1, <2>2, BeginType
<1>7. CASE \E p \in Paths : Begin("unmount", p, p, 0, 0, call.h)
  <2>1. PICK p \in Paths : Begin("unmount", p, p, 0, 0, call.h)
    BY <1>7
  <2>2. p \in Path \ {<<>>}
    BY PathsType
  <2> QED
    BY <1>1, <2>1, <2>2, BeginType
<1> QED
  BY <1>1, <1>2, <1>3, <1>4, <1>5, <1>6, <1>7 DEF Kernel

LEMMA ReturnType == ASSUME TypeOK, Return PROVE TypeOK'
<1> DEFINE moved(p) == IF call.op = "rename" /\ reply.code = "ok" /\ p # <<>>
                            /\ IsPrefix(call.path, p)
                       THEN call.new \o SubSeq(p, Len(call.path) + 1, Len(p)) ELSE p
           closed == IF call.op = "release" THEN {call.h} ELSE {}
           opened == IF reply.code = "ok" /\ call.op \in {"open", "create"} THEN {call.h} ELSE {}
<1>1. /\ call.op # "none" /\ todo = <<>> /\ proc = "up"
      /\ handles' = [h \in Handles |-> IF h \in closed THEN <<>>
                                       ELSE IF h \in opened THEN call.path
                                       ELSE moved(handles[h])]
      /\ call' = NoCall(call.h) /\ reply' = Okay
      /\ UNCHANGED <<device, cache, localFiles, todo, proc, faults>>
  BY DEF Return, Done
<1>2. /\ call.path \in Path \ {<<>>} /\ call.new \in Path \ {<<>>} /\ call.h \in Handles
      /\ \A h \in Handles : handles[h] \in Path
  BY <1>1 DEF TypeOK, Call
<1>3. ASSUME NEW p \in Path PROVE moved(p) \in Path
  <2>1. CASE p = <<>>
    BY <1>3, <2>1
  <2>2. CASE p # <<>>
    <3> DEFINE m == Len(call.path) + 1
    <3>1. m \in Nat /\ m > 1 /\ Len(p) \in Nat
      BY <1>2, EmptySeq, LenProperties DEF Path
    <3>2. \A k \in m .. Len(p) : p[k] \in Names
      BY <2>2, <3>1 DEF Path
    <3>3. SubSeq(p, m, Len(p)) \in Seq(Names)
      BY <3>1, <3>2, SubSeqProperties
    <3> QED
      BY <1>2, <1>3, <3>3, AppendNames
  <2> QED
    BY <2>1, <2>2
<1>4. handles' \in [Handles -> Path]
  <2>1. <<>> \in Path
    BY EmptySeq DEF Path
  <2> HIDE DEF moved, closed, opened
  <2> QED
    BY <1>1, <1>2, <1>3, <2>1
<1>5. call' \in Call /\ call'.op = "none"
  BY <1>1, <1>2, NoCallType
<1>6. reply' \in [code : Codes, data : Data]
  BY <1>1, EmptyIsData DEF Okay, Codes
<1>7. DeviceTypeOK'
  BY <1>1, SameDeviceType
<1> QED
  BY <1>1, <1>4, <1>5, <1>6, <1>7 DEF TypeOK, Path, LongPath, Call

-----------------------------------------------------------------------------
LEMMA InitType == ASSUME Init PROVE TypeOK
<1>1. DeviceTypeOK
  BY DeviceAssumption DEF Init, DeviceInit, DeviceTypeOK
<1>2. IsMap(cache, NodeIds, Metadata) /\ IsMap(localFiles, ObjIds, Copy)
  BY EmptyMapType DEF Init
<1>3. todo = <<>> /\ todo \in Seq(HandlerStep) /\ reply \in [code : Codes, data : Data]
  BY EmptySeq, EmptyIsData DEF Init, Okay, Codes
<1>4. call \in Call /\ call.op = "none"
  BY NoCallType DEF Init
<1>5. handles \in [Handles -> Path]
  <2>1. <<>> \in Path
    BY EmptySeq DEF Path
  <2> QED
    BY <2>1 DEF Init
<1>6. proc \in {"up", "down", "crashed"} /\ faults \in 0 .. MaxFaults
  BY JmtpfsAssumption DEF Init
<1> QED
  BY <1>1, <1>2, <1>3, <1>4, <1>5, <1>6 DEF TypeOK

LEMMA StutterType == ASSUME TypeOK, UNCHANGED vars PROVE TypeOK'
BY DEF TypeOK, vars, device, process, DeviceTypeOK, Path, LongPath, Call

(* Every step, with whatever failure may strike it, keeps the types.       *)
LEMMA NextType == ASSUME TypeOK, [Next]_vars PROVE TypeOK'
<1>1. CASE Kernel
  BY <1>1, KernelType
<1>2. CASE Step
  BY <1>2, GetNodeType, GetAttrType, OpenType, ReadType, WriteType, TruncateType, FsyncType,
     CloseFileType, UnmountType, DeleteOldType, SendFileType, MkdirType, CreateFileType, RemoveNodeType,
     RenameFileType, CopyToType, DropOriginalType, RenameFolderType, MoveContentsType,
     MoveRestType, ClearItemsType, RefuseType, ReadFailsType, CrashType DEF Step
<1>3. CASE Return
  BY <1>3, ReturnType
<1>4. CASE Disconnect
  BY <1>4, DisconnectType
<1>5. CASE Mount
  BY <1>5, MountType
<1>6. CASE UNCHANGED vars
  BY <1>6, StutterType
<1>7. CASE Unmounted
  BY <1>7, UnmountedType
<1> QED
  BY <1>1, <1>2, <1>3, <1>4, <1>5, <1>6, <1>7 DEF Next

(* The variables of the file system keep their types, every step a handler *)
(* has left is one of the code's with arguments of the right kind, and no  *)
(* call is served by a process that is down.                               *)
THEOREM TypeCorrect == Spec => []TypeOK
<1>1. Init => TypeOK
  BY InitType
<1>2. TypeOK /\ [Next]_vars => TypeOK'
  BY NextType
<1> QED
  BY <1>1, <1>2, PTL DEF Spec

-----------------------------------------------------------------------------
(* Clean copies.  CleanCopiesCurrent is not inductive: the id of a copy    *)
(* whose file was deleted must never be that of a new object.              *)
Issued == DOMAIN objs \subseteq 1 .. nextId - 1 /\ DOMAIN localFiles \subseteq 1 .. nextId - 1

CopiesInv == TypeOK /\ Issued /\ CleanCopiesCurrent

(* The table of copies that a step leaves is accurate about the objects    *)
(* there were before it ...                                                *)
Accurate(files) ==
  /\ DOMAIN files \subseteq 1 .. nextId - 1
  /\ \A i \in DOMAIN files \cap DOMAIN objs :
       ~files[i].dirty /\ ~files[i].broken => files[i].data = objs[i].data

(* ... and those that are still there keep their data.                     *)
KeepsData ==
  /\ nextId \in Nat /\ nextId' \in Nat /\ nextId <= nextId'
  /\ DOMAIN objs' \subseteq 1 .. nextId' - 1
  /\ \A i \in DOMAIN objs' :
       i \in 1 .. nextId - 1 => i \in DOMAIN objs /\ objs'[i].data = objs[i].data

LEMMA AccurateKept ==
  ASSUME Accurate(localFiles'), KeepsData
  PROVE  Issued' /\ CleanCopiesCurrent'
BY DEF Accurate, KeepsData, Issued, CleanCopiesCurrent

LEMMA SameStoreKeepsData ==
  ASSUME CopiesInv, UNCHANGED device
  PROVE  KeepsData
BY DeviceAssumption DEF CopiesInv, Issued, TypeOK, DeviceTypeOK, KeepsData, device

LEMMA AddKeepsData ==
  ASSUME CopiesInv, NEW o, objs' = WithObject(o), nextId' = nextId + 1
  PROVE  KeepsData
BY DeviceAssumption DEF CopiesInv, Issued, TypeOK, DeviceTypeOK, KeepsData, WithObject, Put

LEMMA RemoveKeepsData ==
  ASSUME CopiesInv, NEW n, objs' = WithoutObject(n), nextId' = nextId
  PROVE  KeepsData /\ n \notin DOMAIN objs'
<1>1. n \in Subtree(objs, n)
  BY DEF Subtree
<1> QED
  BY <1>1, DeviceAssumption
  DEF CopiesInv, Issued, TypeOK, DeviceTypeOK, KeepsData, WithoutObject, Drop

LEMMA SetNameKeepsData ==
  ASSUME CopiesInv, NEW n, NEW name \in Names, MaySetName(n, name),
         objs' = WithName(n, name), nextId' = nextId
  PROVE  KeepsData
<1>1. n \in DOMAIN objs /\ objs[n] \in Object
  BY ObjectFields DEF MaySetName, CopiesInv, TypeOK
<1>2. [objs[n] EXCEPT !.name = name].data = objs[n].data
  BY <1>1 DEF Object
<1> QED
  BY <1>1, <1>2, DeviceAssumption
  DEF CopiesInv, Issued, TypeOK, DeviceTypeOK, KeepsData, WithName, Put

(* The tables the steps leave.                                             *)
LEMMA SameCopiesAccurate == ASSUME CopiesInv PROVE Accurate(localFiles)
BY DEF CopiesInv, Issued, CleanCopiesCurrent, Accurate

LEMMA DropAccurate ==
  ASSUME NEW files, Accurate(files), NEW K
  PROVE  Accurate(Drop(files, K))
BY DEF Accurate, Drop

LEMMA NoCopiesAccurate == Accurate(EmptyMap)
BY DEF Accurate, EmptyMap

LEMMA OpenAccurate ==
  ASSUME CopiesInv, NEW n, NEW files \in openFile(n)
  PROVE  Accurate(files)
<1>1. TypeOK /\ Accurate(localFiles)
  BY SameCopiesAccurate DEF CopiesInv
<1>2. /\ DOMAIN files = DOMAIN localFiles \cup {n}
      /\ \A i \in DOMAIN localFiles : files[i] = localFiles[i]
      /\ n \notin DOMAIN localFiles =>
           /\ n \in DOMAIN objs
           /\ files[n] = [data |-> objs[n].data, dirty |-> FALSE, broken |-> FALSE]
  BY <1>1, OpenFileType
<1>3. n \in 1 .. nextId - 1
  BY <1>2 DEF CopiesInv, Issued
<1>4. n \notin DOMAIN localFiles => files[n].data = objs[n].data
  BY <1>2
<1> QED
  BY <1>1, <1>2, <1>3, <1>4 DEF Accurate

LEMMA DirtyAccurate ==
  ASSUME CopiesInv, NEW n, NEW files \in openFile(n), NEW d
  PROVE  Accurate([files EXCEPT ![n].data = d, ![n].dirty = TRUE])
<1> DEFINE written == [files EXCEPT ![n].data = d, ![n].dirty = TRUE]
<1>1. Accurate(files) /\ files[n] \in Copy /\ n \in DOMAIN files
  <2>1. TypeOK /\ Accurate(files)
    BY OpenAccurate DEF CopiesInv
  <2>2. files[n] \in Copy /\ DOMAIN files = DOMAIN localFiles \cup {n}
    BY <2>1, OpenFileType
  <2> QED
    BY <2>1, <2>2
<1>2. written[n].dirty
  BY <1>1 DEF Copy
<1>3. \A i \in DOMAIN files : i # n => written[i] = files[i]
  OBVIOUS
<1>4. DOMAIN written = DOMAIN files
  OBVIOUS
<1> HIDE DEF written
<1>5. Accurate(written)
  BY <1>1, <1>2, <1>3, <1>4 DEF Accurate
<1> QED
  BY <1>5 DEF written

LEMMA BrokenAccurate ==
  ASSUME CopiesInv, NEW n
  PROVE  Accurate(Broken(n))
<1>1. Accurate(localFiles) /\ IsMap(localFiles, ObjIds, Copy)
  BY SameCopiesAccurate DEF CopiesInv, TypeOK
<1>2. DOMAIN Broken(n) = DOMAIN localFiles
  BY DEF Broken
<1>3. n \in DOMAIN localFiles => Broken(n)[n].broken
  <2>1. n \in DOMAIN localFiles => localFiles[n] \in Copy
    BY <1>1, MapElements
  <2> QED
    BY <2>1 DEF Broken, Copy
<1>4. \A i \in DOMAIN localFiles : i # n => Broken(n)[i] = localFiles[i]
  BY DEF Broken
<1> QED
  BY <1>1, <1>2, <1>3, <1>4 DEF Accurate

-----------------------------------------------------------------------------
(* Every step leaves an accurate table and keeps the data.                 *)
LEMMA QuietCopies ==
  ASSUME CopiesInv, UNCHANGED device, localFiles' = localFiles
  PROVE  Accurate(localFiles') /\ KeepsData
BY SameCopiesAccurate, SameStoreKeepsData

LEMMA QuietSteps ==
  ASSUME CopiesInv,
         \/ GetNode \/ GetAttr \/ Fsync \/ RenameFile \/ MoveContents \/ MoveRest
         \/ ClearItems \/ Refuse \/ ReadFails \/ Unmount \/ Kernel \/ Return \/ Mount \/ UNCHANGED vars
  PROVE  Accurate(localFiles') /\ KeepsData
<1>1. CASE GetNode \/ GetAttr \/ Fsync \/ RenameFile \/ MoveContents \/ MoveRest
  BY <1>1, QuietCopies
  DEF GetNode, GetAttr, Fsync, RenameFile, MoveContents, MoveRest, NoDeviceChange, Goto, Throw
<1>2. CASE ClearItems \/ Refuse \/ ReadFails \/ Unmount
  BY <1>2, QuietCopies DEF ClearItems, Refuse, ReadFails, Unmount, NoDeviceChange, Goto, Throw
<1>3. CASE Kernel
  BY <1>3, QuietCopies DEF Kernel, Begin
<1>4. CASE Return \/ Mount \/ UNCHANGED vars
  BY <1>4, QuietCopies DEF Return, Mount, vars, process
<1> QED
  BY <1>1, <1>2, <1>3, <1>4

LEMMA OpeningSteps ==
  ASSUME CopiesInv, Open \/ Read \/ Write \/ Truncate \/ CloseFile
  PROVE  Accurate(localFiles') /\ KeepsData
<1>1. KeepsData
  BY SameStoreKeepsData DEF Open, Read, Write, Truncate, CloseFile, NoDeviceChange
<1>2. CASE Open \/ Read
  BY <1>1, <1>2, OpenAccurate DEF Open, Read, Goto
<1>3. CASE Write
  <2>1. PICK files \in openFile(Arg(2)) :
          localFiles' = [files EXCEPT ![Arg(2)].data = WriteAt(@, Arg(3), Arg(4)),
                                      ![Arg(2)].dirty = TRUE]
    BY <1>3 DEF Write, Goto
  <2>2. localFiles' = [files EXCEPT ![Arg(2)].data = WriteAt(files[Arg(2)].data, Arg(3), Arg(4)),
                                    ![Arg(2)].dirty = TRUE]
    BY <2>1
  <2> QED
    BY <1>1, <2>2, DirtyAccurate
<1>4. CASE Truncate
  <2>1. CASE localFiles' = localFiles
    BY <1>1, <2>1, SameCopiesAccurate
  <2>2. ASSUME NEW files \in openFile(Arg(2)),
               localFiles' = [files EXCEPT ![Arg(2)].data = Resize(@, Arg(3)),
                                           ![Arg(2)].dirty = TRUE]
        PROVE  Accurate(localFiles')
    <3>1. localFiles' = [files EXCEPT ![Arg(2)].data = Resize(files[Arg(2)].data, Arg(3)),
                                      ![Arg(2)].dirty = TRUE]
      BY <2>2
    <3> QED
      BY <3>1, DirtyAccurate
  <2> QED
    BY <1>1, <1>4, <2>1, <2>2 DEF Truncate, Goto
<1>5. CASE CloseFile
  BY <1>1, <1>5, SameCopiesAccurate, DropAccurate DEF CloseFile, Goto
<1> QED
  BY <1>2, <1>3, <1>4, <1>5

LEMMA EndingSteps ==
  ASSUME CopiesInv, Crash \/ Disconnect \/ Unmounted
  PROVE  Accurate(localFiles') /\ KeepsData
BY NoCopiesAccurate, SameStoreKeepsData DEF Crash, Disconnect, Unmounted, ProcessEnds

(* A new object, a removal or a new name, and nothing else to the copies   *)
(* than what is opened or broken.                                          *)
LEMMA AddingSteps ==
  ASSUME CopiesInv, Mkdir \/ CreateFile \/ CopyTo \/ SendFile
  PROVE  Accurate(localFiles') /\ KeepsData
<1>1. KeepsData
  BY SameStoreKeepsData, AddKeepsData DEF Mkdir, CreateFile, CopyTo, SendFile, DeviceCall
<1>2. CASE Mkdir \/ CreateFile
  BY <1>1, <1>2, SameCopiesAccurate DEF Mkdir, CreateFile, DeviceCall, Goto, Throw
<1>3. CASE CopyTo
  BY <1>1, <1>3, OpenAccurate DEF CopyTo, DeviceCall, Goto, Throw
<1>4. CASE SendFile
  BY <1>1, <1>4, SameCopiesAccurate, DropAccurate, BrokenAccurate DEF SendFile, DeviceCall, Throw
<1> QED
  BY <1>2, <1>3, <1>4

LEMMA RemovingSteps ==
  ASSUME CopiesInv, RemoveNode \/ DropOriginal \/ RenameFolder
  PROVE  Accurate(localFiles') /\ KeepsData
<1>1. Accurate(localFiles')
  BY SameCopiesAccurate
  DEF RemoveNode, DropOriginal, RenameFolder, DeviceCall, NoDeviceChange, Goto, Throw
<1>2. CASE RemoveNode \/ DropOriginal
  BY <1>1, <1>2, SameStoreKeepsData, RemoveKeepsData
  DEF RemoveNode, DropOriginal, DeviceCall, NoDeviceChange
<1>3. CASE RenameFolder
  <2>1. Arg(4) \in Names
    BY <1>3, NextStep, StepArguments DEF RenameFolder, Arg, CopiesInv
  <2> QED
    BY <1>1, <1>3, <2>1, SameStoreKeepsData, SetNameKeepsData
    DEF RenameFolder, DeviceCall, NoDeviceChange
<1> QED
  BY <1>2, <1>3

(* DeleteOld makes a copy clean while it differs from its file, but the    *)
(* file is gone; if the delete fails the copy is broken.                   *)
LEMMA DeleteOldCopies ==
  ASSUME CopiesInv, DeleteOld
  PROVE  Issued' /\ CleanCopiesCurrent'
<1> DEFINE n == Arg(2)
           files == [localFiles EXCEPT ![n].dirty = FALSE]
<1>1. \/ objs' = WithoutObject(n) /\ nextId' = nextId /\ localFiles' = files
      \/ /\ UNCHANGED device \/ (objs' = WithoutObject(n) /\ nextId' = nextId)
         /\ localFiles' = Broken(n)
  BY DEF DeleteOld, DeviceCall, Goto, Throw
<1>2. CASE localFiles' = Broken(n)
  BY <1>1, <1>2, SameStoreKeepsData, RemoveKeepsData, BrokenAccurate, AccurateKept
<1>3. CASE objs' = WithoutObject(n) /\ nextId' = nextId /\ localFiles' = files
  <2>1. KeepsData /\ n \notin DOMAIN objs' /\ Accurate(localFiles)
    BY <1>3, RemoveKeepsData, SameCopiesAccurate
  <2>2. /\ DOMAIN files = DOMAIN localFiles
        /\ \A i \in DOMAIN files : i # n => files[i] = localFiles[i]
    OBVIOUS
  <2> HIDE DEF files
  <2> QED
    BY <1>3, <2>1, <2>2 DEF Accurate, KeepsData, Issued, CleanCopiesCurrent
<1> QED
  BY <1>1, <1>2, <1>3

LEMMA NextCopies == ASSUME CopiesInv, [Next]_vars PROVE CopiesInv'
<1>1. TypeOK'
  BY NextType DEF CopiesInv
<1>2. CASE DeleteOld
  BY <1>1, <1>2, DeleteOldCopies DEF CopiesInv
<1>3. CASE ~DeleteOld
  <2>1. Accurate(localFiles') /\ KeepsData
    BY <1>3, QuietSteps, OpeningSteps, EndingSteps, AddingSteps, RemovingSteps DEF Next, Step
  <2> QED
    BY <1>1, <2>1, AccurateKept DEF CopiesInv
<1> QED
  BY <1>2, <1>3

LEMMA InitCopies == ASSUME Init PROVE CopiesInv
<1>1. TypeOK
  BY InitType
<1>2. DOMAIN localFiles = {}
  BY DEF Init, EmptyMap
<1>3. DOMAIN objs \subseteq 1 .. nextId - 1
  BY <1>1, DeviceAssumption DEF Init, DeviceInit, TypeOK, DeviceTypeOK, IsMap, ObjIds
<1> QED
  BY <1>1, <1>2, <1>3 DEF CopiesInv, Issued, CleanCopiesCurrent

(* A local copy that has nothing to send, and whose FILE is usable, equals *)
(* the file on the device, whatever was written, sent, renamed or deleted  *)
(* since it was fetched and whatever failed: openFile may hand it out      *)
(* again without asking the device.                                        *)
THEOREM CleanCopies == Spec => []CleanCopiesCurrent
<1>1. Init => CopiesInv
  BY InitCopies
<1>2. CopiesInv /\ [Next]_vars => CopiesInv'
  BY NextCopies
<1>3. CopiesInv => CleanCopiesCurrent
  BY DEF CopiesInv
<1> QED
  BY <1>1, <1>2, <1>3, PTL DEF Spec

-----------------------------------------------------------------------------
(* The device's store is a tree at all times, and the program never takes  *)
(* a folder for a file: ids are never used twice.                          *)
StoreInv == IsTree(objs) /\ (AcceptsDuplicates \/ NoTwins(objs))

(* n is, or was before it was deleted, a file (a folder).                  *)
Kind(n, file) ==
  \/ n \in Storages /\ ~file
  \/ n \in 1 .. nextId - 1 /\ (n \in DOMAIN objs => objs[n].file = file)

TrueStep ==
  {s \in HandlerStep :
     /\ s[1] \in {"open", "read", "write", "truncate", "copyTo"} => Kind(s[2], TRUE)
     /\ s[1] = "sendFile" => s[4].file
     /\ s[1] = "rename" => Kind(s[2].id, s[2].file)
     /\ s[1] = "getNode" => /\ s[3] = <<>> => s[2] \in Storages
                            /\ s[4][1] = "newParent" => Kind(s[4][2].id, s[4][2].file)}

TrueEntries(md) == \A e \in md.children : Kind(e.id, e.file)

TrueCache(c)      == \A n \in DOMAIN c : n \in Storages \cup (1 .. nextId - 1) /\ TrueEntries(c[n])
TrueCopies(files) == \A i \in DOMAIN files : Kind(i, TRUE)

KindsInv == TrueCache(cache) /\ TrueCopies(localFiles) /\ todo \in Seq(TrueStep)

Base == CopiesInv /\ StoreInv /\ KindsInv

LEMMA BaseFacts ==
  ASSUME Base
  PROVE  /\ TypeOK /\ DeviceTypeOK /\ Issued /\ IsStore(objs) /\ nextId \in Nat /\ nextId \notin DOMAIN objs
         /\ nextId \notin DOMAIN localFiles
         /\ nextId \in ObjIds => nextId \notin DOMAIN cache
<1>1. TypeOK /\ DeviceTypeOK /\ Issued
  BY DEF Base, CopiesInv, TypeOK
<1>2. nextId \in Nat
  BY <1>1, DeviceAssumption DEF DeviceTypeOK
<1>3. IsStore(objs)
  BY <1>1 DEF Base, StoreInv, IsStore, DeviceTypeOK
<1>4. nextId \notin 1 .. nextId - 1
  BY <1>2
<1>5. ASSUME nextId \in ObjIds, nextId \in DOMAIN cache PROVE FALSE
  <2>1. nextId \in Storages
    BY <1>4, <1>5 DEF Base, KindsInv, TrueCache
  <2> QED BY <1>5, <2>1, DeviceAssumption
<1> QED BY <1>1, <1>2, <1>3, <1>4, <1>5 DEF Issued

-----------------------------------------------------------------------------
(* A step changes nothing on the device, or one object.                    *)
Adds(x)    == /\ x \in Object /\ (x.file \/ x.data = <<>>) /\ MayAdd(x)
              /\ objs' = WithObject(x) /\ nextId' = nextId + 1
Removes(n) == n \in DOMAIN objs /\ objs' = WithoutObject(n) /\ nextId' = nextId
Renames(n, name) == /\ name \in Names /\ MaySetName(n, name)
                   /\ objs' = WithName(n, name) /\ nextId' = nextId
DeviceStep == \/ UNCHANGED device
              \/ \E x : Adds(x)
              \/ \E n : Removes(n)
              \/ \E n, name : Renames(n, name)

LEMMA TrueArguments ==
  ASSUME Base, NEW name, At(name)
  PROVE  Head(todo) \in TrueStep /\ Head(todo) \in HandlerStep /\ Head(todo)[1] = name
         /\ todo # <<>> /\ todo \in Seq(TrueStep) /\ Tail(todo) \in Seq(TrueStep)
<1>1. todo \in Seq(TrueStep) /\ todo # <<>> /\ Head(todo)[1] = name
  BY DEF Base, KindsInv, At
<1>2. Head(todo) \in TrueStep /\ Tail(todo) \in Seq(TrueStep)
  BY <1>1, HeadTailProperties
<1>3. Head(todo) \in HandlerStep
  BY <1>2 DEF TrueStep
<1> QED BY <1>1, <1>2, <1>3

LEMMA IsDeviceStep ==
  ASSUME Base, [Next]_vars
  PROVE  DeviceStep
<1>0. TypeOK
  BY BaseFacts
<1>1. CASE Mkdir
  <2>1. WellFormed(call) /\ Arg(2) \in NodeIds /\ Arg(3) \in Names
    BY <1>0, <1>1, InCall, NextStep, StepArguments DEF Mkdir, Arg
  <2> DEFINE x == NewObject(Arg(2), Arg(3), FALSE, <<>>)
  <2>2. x \in Object /\ x.data = <<>>
    BY <2>1, NewObjectType, EmptyIsData DEF NewObject
  <2>3. UNCHANGED device \/ (MayAdd(x) /\ objs' = WithObject(x) /\ nextId' = nextId + 1)
    BY <1>1 DEF Mkdir, DeviceCall
  <2> QED BY <2>2, <2>3 DEF DeviceStep, Adds
<1>2. CASE CreateFile
  <2>1. WellFormed(call) /\ Arg(2) \in NodeIds /\ Arg(3) \in Names
    BY <1>0, <1>2, InCall, NextStep, StepArguments DEF CreateFile, Arg
  <2> DEFINE x == NewObject(Arg(2), Arg(3), TRUE, <<>>)
  <2>2. x \in Object /\ x.file
    BY <2>1, NewObjectType, EmptyIsData DEF NewObject
  <2>3. UNCHANGED device \/ (MayAdd(x) /\ objs' = WithObject(x) /\ nextId' = nextId + 1)
    BY <1>2 DEF CreateFile, DeviceCall
  <2> QED BY <2>2, <2>3 DEF DeviceStep, Adds
<1>3. CASE CopyTo
  <2>1. WellFormed(call) /\ Arg(2) \in NodeIds /\ Arg(3) \in NodeIds /\ Arg(4) \in Names
    BY <1>0, <1>3, InCall, NextStep, StepArguments DEF CopyTo, Arg
  <2>2. PICK files \in openFile(Arg(2)) :
          LET x == NewObject(Arg(3), Arg(4), TRUE, files[Arg(2)].data)
          IN  UNCHANGED device \/ (MayAdd(x) /\ objs' = WithObject(x) /\ nextId' = nextId + 1)
    BY <1>3 DEF CopyTo, DeviceCall
  <2> DEFINE x == NewObject(Arg(3), Arg(4), TRUE, files[Arg(2)].data)
  <2>3. files[Arg(2)].data \in Data
    BY <1>0, OpenFileType DEF Copy
  <2>4. x \in Object /\ x.file
    BY <2>1, <2>3, NewObjectType DEF NewObject
  <2> QED BY <2>2, <2>4 DEF DeviceStep, Adds
<1>4. CASE SendFile
  <2>1. Arg(4) \in Object /\ Arg(4).file
    BY <1>0, <1>4, NextStep, StepArguments, TrueArguments DEF SendFile, Arg, TrueStep
  <2>2. UNCHANGED device \/ (MayAdd(Arg(4)) /\ objs' = WithObject(Arg(4)) /\ nextId' = nextId + 1)
    BY <1>4 DEF SendFile, DeviceCall
  <2> QED BY <2>1, <2>2 DEF DeviceStep, Adds
<1>5. CASE RemoveNode \/ DropOriginal \/ DeleteOld
  BY <1>5 DEF RemoveNode, DropOriginal, DeleteOld, DeviceCall, NoDeviceChange, DeviceStep, Removes
<1>6. CASE RenameFolder
  <2>1. Arg(4) \in Names
    BY <1>0, <1>6, NextStep, StepArguments DEF RenameFolder, Arg
  <2> QED BY <1>6, <2>1 DEF RenameFolder, DeviceCall, NoDeviceChange, DeviceStep, Renames
<1>7. CASE \/ GetNode \/ GetAttr \/ Open \/ Read \/ Write \/ Truncate \/ Fsync \/ CloseFile
           \/ Unmount \/ RenameFile \/ MoveContents \/ MoveRest \/ ClearItems \/ Refuse \/ ReadFails
  BY <1>7 DEF GetNode, GetAttr, Open, Read, Write, Truncate, Fsync, CloseFile, Unmount, RenameFile,
     MoveContents, MoveRest, ClearItems, Refuse, ReadFails, NoDeviceChange, DeviceStep, device
<1>8. CASE \/ Crash \/ Unmounted \/ Disconnect \/ Mount \/ Return \/ Kernel \/ UNCHANGED vars
  <2>1. CASE Kernel
    <3>1. \E op, path, new, off, byte, h : Begin(op, path, new, off, byte, h)
      BY <2>1 DEF Kernel
    <3> QED BY <3>1 DEF Begin, DeviceStep
  <2>2. CASE ~Kernel
    BY <1>8, <2>2 DEF Crash, Unmounted, Disconnect, Mount, Return, ProcessEnds, vars, DeviceStep
  <2> QED BY <2>1, <2>2
<1> QED BY <1>1, <1>2, <1>3, <1>4, <1>5, <1>6, <1>7, <1>8 DEF Next, Step

LEMMA AddFits ==
  ASSUME Base, NEW x \in Object, x.file \/ x.data = <<>>, MayAdd(x)
  PROVE  Fits(objs, nextId, x)
BY BaseFacts DEF Fits, MayAdd

LEMMA StoreKept == ASSUME Base, DeviceStep PROVE StoreInv'
<1>0. IsStore(objs) /\ (AcceptsDuplicates \/ NoTwins(objs))
  BY BaseFacts DEF Base, StoreInv
<1>1. CASE UNCHANGED device
  BY <1>1 DEF Base, StoreInv, device
<1>2. ASSUME NEW x, Adds(x) PROVE StoreInv'
  <2>1. Fits(objs, nextId, x) /\ objs' = Put(objs, nextId, x)
    BY <1>2, AddFits DEF Adds, WithObject
  <2>2. IsStore(objs')
    BY <1>0, <2>1, StoreWithObject
  <2>3. NoTwins(objs) /\ ~AcceptsDuplicates => NoTwins(objs')
    <3>1. ~AcceptsDuplicates => \A i \in DOMAIN objs :
            objs[i].parent = x.parent /\ objs[i].storage = x.storage => objs[i].name # x.name
      BY <1>2 DEF Adds, MayAdd, Inside
    <3> QED BY <1>0, <2>1, <3>1, TwinsWithObject
  <2> QED BY <1>0, <2>2, <2>3 DEF StoreInv, IsStore
<1>3. ASSUME NEW n, Removes(n) PROVE StoreInv'
  <2>1. n \in DOMAIN objs /\ objs' = Drop(objs, Subtree(objs, n))
    BY <1>3 DEF Removes, WithoutObject
  <2>2. IsStore(objs') /\ (NoTwins(objs) => NoTwins(objs'))
    BY <1>0, <2>1, StoreWithoutObject
  <2> QED BY <1>0, <2>2 DEF StoreInv, IsStore
<1>4. ASSUME NEW n, NEW name, Renames(n, name) PROVE StoreInv'
  <2>1. n \in DOMAIN objs /\ name \in Names /\ objs' = Put(objs, n, [objs[n] EXCEPT !.name = name])
    BY <1>4 DEF Renames, WithName, MaySetName
  <2>2. ~AcceptsDuplicates => \A j \in DOMAIN objs \ {n} :
          objs[j].parent = objs[n].parent /\ objs[j].storage = objs[n].storage => objs[j].name # name
    BY <1>4 DEF Renames, MaySetName, Inside
  <2>3. IsStore(objs') /\ (~AcceptsDuplicates => NoTwins(objs'))
    BY <1>0, <2>1, <2>2, StoreWithName
  <2> QED BY <2>3 DEF StoreInv, IsStore
<1> QED BY <1>1, <1>2, <1>3, <1>4 DEF DeviceStep

\* An id keeps its kind.
LEMMA KindKept ==
  ASSUME Base, DeviceStep
  PROVE  /\ nextId' \in Nat /\ nextId <= nextId'
         /\ \A n, f : Kind(n, f) => Kind(n, f)'
         /\ TrueStep \subseteq TrueStep'
<1>0. nextId \in Nat /\ IsStore(objs) /\ nextId \notin DOMAIN objs
  BY BaseFacts
<1>1. /\ nextId' \in Nat /\ nextId <= nextId'
      /\ \A i \in DOMAIN objs' : i # nextId => i \in DOMAIN objs /\ objs'[i].file = objs[i].file
      /\ nextId \notin 1 .. nextId - 1
  <2>1. CASE UNCHANGED device
    BY <1>0, <2>1 DEF device
  <2>2. ASSUME NEW x, Adds(x)
        PROVE  /\ nextId' \in Nat /\ nextId <= nextId'
               /\ \A i \in DOMAIN objs' : i # nextId => i \in DOMAIN objs /\ objs'[i].file = objs[i].file
    BY <1>0, <2>2 DEF Adds, WithObject, Put
  <2>3. ASSUME NEW n, Removes(n)
        PROVE  /\ nextId' \in Nat /\ nextId <= nextId'
               /\ \A i \in DOMAIN objs' : i # nextId => i \in DOMAIN objs /\ objs'[i].file = objs[i].file
    BY <1>0, <2>3 DEF Removes, WithoutObject, Drop
  <2>4. ASSUME NEW n, NEW name, Renames(n, name)
        PROVE  /\ nextId' \in Nat /\ nextId <= nextId'
               /\ \A i \in DOMAIN objs' : i # nextId => i \in DOMAIN objs /\ objs'[i].file = objs[i].file
    <3>1. n \in DOMAIN objs /\ name \in Names /\ objs' = Put(objs, n, [objs[n] EXCEPT !.name = name])
      BY <2>4 DEF Renames, WithName, MaySetName
    <3> QED BY <1>0, <2>4, <3>1, StoreWithName DEF Renames
  <2> QED BY <1>0, <2>1, <2>2, <2>3, <2>4 DEF DeviceStep
<1>2. \A n, f : Kind(n, f) => Kind(n, f)'
  BY <1>0, <1>1 DEF Kind
<1>3. TrueStep \subseteq TrueStep'
  BY <1>2 DEF TrueStep
<1> QED BY <1>1, <1>2, <1>3

LEMMA KindsKept ==
  ASSUME Base, DeviceStep, TrueCache(cache'), TrueCopies(localFiles'),
         todo' \in Seq(TrueStep) \/ todo' \in Seq(TrueStep')
  PROVE  KindsInv'
<1>1. /\ nextId' \in Nat /\ nextId \in Nat /\ nextId <= nextId'
      /\ \A n, f : Kind(n, f) => Kind(n, f)'
      /\ TrueStep \subseteq TrueStep'
  BY KindKept, BaseFacts
<1>2. todo' \in Seq(TrueStep')
  BY <1>1, SeqMonotonic
<1>3. TrueCache(cache)'
  <2>1. ASSUME NEW n \in DOMAIN cache'
        PROVE  n \in Storages \cup (1 .. nextId' - 1) /\ TrueEntries(cache[n])'
    <3>1. n \in Storages \cup (1 .. nextId - 1) /\ TrueEntries(cache'[n])
      BY <2>1 DEF TrueCache
    <3>2. n \in Storages \cup (1 .. nextId' - 1)
      BY <1>1, <3>1
    <3>3. \A e \in cache'[n].children : Kind(e.id, e.file)
      BY <3>1 DEF TrueEntries
    <3>4. \A e \in cache'[n].children : Kind(e.id, e.file)'
      BY <1>1, <3>3
    <3> QED BY <3>2, <3>4 DEF TrueEntries
  <2> QED BY <2>1 DEF TrueCache
<1>4. TrueCopies(localFiles)'
  <2>1. \A i \in DOMAIN localFiles' : Kind(i, TRUE)
    BY DEF TrueCopies
  <2>2. \A i \in DOMAIN localFiles' : Kind(i, TRUE)'
    BY <1>1, <2>1
  <2> QED BY <2>2 DEF TrueCopies
<1> QED BY <1>2, <1>3, <1>4 DEF KindsInv

-----------------------------------------------------------------------------
(* What is read, and what is opened, is of the kind it is taken for.       *)
LEMMA TrueItem ==
  ASSUME Base, NEW n \in NodeIds, NEW r \in getItem(n)
  PROVE  TrueEntries(r.md) /\ TrueCache(r.cache)
<1>0. TypeOK /\ DeviceTypeOK /\ Issued /\ TrueCache(cache)
  BY BaseFacts DEF Base, KindsInv
<1>1. CASE n \in DOMAIN cache /\ r = [md |-> cache[n], cache |-> cache]
  BY <1>0, <1>1 DEF TrueCache
<1>2. CASE /\ n \in Storages \cup DOMAIN objs
           /\ r = [md |-> getMetadata(n), cache |-> Put(cache, n, getMetadata(n))]
  <2>1. \A i \in DOMAIN objs : Kind(i, objs[i].file)
    BY <1>0 DEF Kind, Issued
  <2>2. \A s, p : \A e \in GetFolderContents(s, p) : Kind(e.id, e.file)
    BY <2>1 DEF GetFolderContents, Inside
  <2>3. TrueEntries(getMetadata(n))
    BY <2>2 DEF TrueEntries, getMetadata
  <2> DEFINE md == getMetadata(n)
             c == Put(cache, n, md)
  <2>4. n \in Storages \cup (1 .. nextId - 1)
    BY <1>0, <1>2 DEF Issued
  <2>5. DOMAIN c = DOMAIN cache \cup {n} /\ c[n] = md /\ \A k \in DOMAIN cache : k # n => c[k] = cache[k]
    <3> HIDE DEF md
    <3> QED BY DEF Put
  <2> HIDE DEF c, md
  <2>6. TrueCache(c)
    BY <1>0, <2>3, <2>4, <2>5 DEF TrueCache, md
  <2> QED BY <1>2, <2>3, <2>6 DEF c, md
<1> QED BY <1>1, <1>2 DEF getItem

LEMMA TrueDrop ==
  ASSUME NEW c, NEW K
  PROVE  /\ TrueCache(c) => TrueCache(Drop(c, K))
         /\ TrueCopies(c) => TrueCopies(Drop(c, K))
BY DEF TrueCache, TrueCopies, Drop

LEMMA TrueOpen ==
  ASSUME Base, NEW n, Kind(n, TRUE), NEW files \in openFile(n)
  PROVE  TrueCopies(files)
<1>1. DOMAIN files = DOMAIN localFiles \cup {n}
  BY OpenFileType, BaseFacts
<1> QED BY <1>1 DEF Base, KindsInv, TrueCopies

-----------------------------------------------------------------------------
(* The steps that a call, or a node found, gives rise to.                  *)
LEMMA TrueSteps ==
  /\ \A n \in NodeIds, p \in Seq(Names), k \in Continuation :
       /\ p = <<>> => n \in Storages
       /\ k[1] = "newParent" => Kind(k[2].id, k[2].file)
       => <<"getNode", n, p, k>> \in TrueStep
  /\ \A op \in {"getattr", "getItem", "fsync"}, n \in NodeIds : <<op, n>> \in TrueStep
  /\ \A op \in {"open", "read"}, n \in NodeIds : Kind(n, TRUE) => <<op, n>> \in TrueStep
  /\ \A n \in NodeIds, off \in 0 .. MaxLen - 1, byte \in Bytes :
       Kind(n, TRUE) => <<"write", n, off, byte>> \in TrueStep
  /\ \A n \in NodeIds, len \in 0 .. MaxLen : Kind(n, TRUE) => <<"truncate", n, len>> \in TrueStep
  /\ \A n \in NodeIds, K \in SUBSET NodeIds : <<"closeFile", n, K>> \in TrueStep
  /\ \A n \in ObjIds, K \in SUBSET NodeIds, o \in Object :
       o.file => <<"sendFile", n, K, o>> \in TrueStep
  /\ \A op \in {"mkdir", "createFile"}, n \in NodeIds, name \in Names :
       <<op, n, name>> \in TrueStep
  /\ \A n \in NodeIds, file \in BOOLEAN : <<"remove", n, file>> \in TrueStep
  /\ \A src \in Node, dst \in NodeIds, name \in Names :
       Kind(src.id, src.file) => <<"rename", src, dst, name>> \in TrueStep
  /\ \A n \in NodeIds, dst \in NodeIds, name \in Names :
       Kind(n, TRUE) => <<"copyTo", n, dst, name>> \in TrueStep
  /\ \A op \in {"dropOriginal", "moveContents"}, n, m \in NodeIds :
       <<op, n, m>> \in TrueStep
  /\ \A n, m \in NodeIds, rest \in SUBSET Entry : <<"moveRest", n, m, rest>> \in TrueStep
  /\ \A K \in SUBSET NodeIds : <<"clearItems", K>> \in TrueStep
  /\ \A code \in Codes : <<"throw", code>> \in TrueStep
  /\ <<"unmount">> \in TrueStep
<1>1. \A s \in HandlerStep :
        /\ s[1] \in {"open", "read", "write", "truncate", "copyTo"} => Kind(s[2], TRUE)
        /\ s[1] = "sendFile" => s[4].file
        /\ s[1] = "rename" => Kind(s[2].id, s[2].file)
        /\ s[1] = "getNode" => /\ s[3] = <<>> => s[2] \in Storages
                               /\ s[4][1] = "newParent" => Kind(s[4][2].id, s[4][2].file)
        => s \in TrueStep
  BY DEF TrueStep
<1> HIDE DEF TrueStep, HandlerStep
<1> QED BY <1>1, StepTypes

LEMMA TrueLookup ==
  ASSUME NEW p \in Path, p # <<>>, NEW k \in Continuation,
         k[1] = "newParent" => Kind(k[2].id, k[2].file)
  PROVE  Lookup(p, k) \in TrueStep
BY PathParts, TrueSteps DEF Lookup, NodeIds

LEMMA TrueHandler ==
  ASSUME NEW c, WellFormed(c)
  PROVE  Handler(c) \in Seq(TrueStep)
<1>1. c.path \in Path /\ c.new \in Path /\ c.path # <<>>
  BY DEF WellFormed, Call
<1>2. CASE c.op \in {"create", "mkdir"}
  <2>1. /\ Lookup(Front(c.path), <<"invoke">>) \in TrueStep
        /\ Lookup(c.path, <<"opened">>) \in TrueStep
    BY <1>1, <1>2, LongPathParts, TrueLookup, ContinuationTypes DEF WellFormed
  <2> QED BY <1>2, <2>1 DEF Handler
<1>4. CASE c.op = "rename"
  <2>1. Lookup(c.path, <<"source", c.new>>) \in TrueStep
    BY <1>1, <1>4, TrueLookup, ContinuationTypes DEF WellFormed
  <2> QED BY <1>4, <2>1 DEF Handler
<1>6. CASE c.op = "unmount"
  BY <1>6, TrueSteps DEF Handler
<1>5. CASE c.op \notin {"create", "mkdir", "rename", "unmount"}
  <2>1. Lookup(c.path, <<"invoke">>) \in TrueStep
    BY <1>1, TrueLookup, ContinuationTypes
  <2> QED BY <1>5, <2>1 DEF Handler
<1> QED BY <1>2, <1>4, <1>5, <1>6

LEMMA TrueThen ==
  ASSUME WellFormed(call), NEW k \in Continuation, NEW node \in Node, Kind(node.id, node.file),
         k[1] = "newParent" => Kind(k[2].id, k[2].file)
  PROVE  Then(k, node) \in Seq(TrueStep)
<1>1. /\ node.id \in NodeIds /\ node.file \in BOOLEAN /\ "EIO" \in Codes /\ "EROFS" \in Codes
      /\ call.off \in 0 .. MaxLen /\ call.byte \in Bytes /\ call.path \in Path
  BY DEF Node, Codes, WellFormed, Call
<1>2. CASE k[1] = "invoke"
  <2>3. call.op \in {"mkdir", "create"} => Last(call.path) \in Names
    BY LongPathParts DEF WellFormed
  <2>4. call.op = "write" => call.off \in 0 .. MaxLen - 1
    BY <1>1, DeviceAssumption DEF WellFormed
  <2>5. /\ <<"getattr", node.id>> \in TrueStep /\ <<"getItem", node.id>> \in TrueStep
        /\ <<"fsync", node.id>> \in TrueStep
        /\ node.file => /\ <<"open", node.id>> \in TrueStep /\ <<"read", node.id>> \in TrueStep
                        /\ <<"truncate", node.id, call.off>> \in TrueStep
                        /\ call.op = "write" =>
                             <<"write", node.id, call.off, call.byte>> \in TrueStep
        /\ <<"remove", node.id, node.file>> \in TrueStep
        /\ <<"throw", "EIO">> \in TrueStep /\ <<"throw", "EROFS">> \in TrueStep
        /\ call.op = "mkdir" => <<"mkdir", node.id, Last(call.path)>> \in TrueStep
        /\ call.op = "create" => <<"createFile", node.id, Last(call.path)>> \in TrueStep
    <3>1. node.file => Kind(node.id, TRUE)
      BY <1>1
    <3> QED BY <1>1, <2>3, <2>4, <3>1, TrueSteps
  <2> HIDE DEF TrueStep
  <2>6. Invoke(call, node) \in Seq(TrueStep)
    BY <2>5 DEF Invoke, NotImplemented
  <2> QED BY <1>2, <2>6 DEF Then
<1>3. CASE k[1] = "opened"
  <2>1. (node.file => <<"open", node.id>> \in TrueStep) /\ <<"throw", "EIO">> \in TrueStep
    <3>1. node.file => Kind(node.id, TRUE)
      BY <1>1
    <3> QED BY <1>1, <3>1, TrueSteps
  <2> QED BY <1>3, <2>1 DEF Then, NotImplemented
<1>4. CASE k[1] = "source"
  <2>1. k[2] \in LongPath
    BY <1>4, ContinuationArguments
  <2>2. Front(k[2]) \in Path /\ Front(k[2]) # <<>> /\ Last(k[2]) \in Names
    BY <2>1, LongPathParts
  <2>3. Lookup(Front(k[2]), <<"newParent", node, Last(k[2])>>) \in TrueStep
    BY <2>2, TrueLookup, ContinuationTypes
  <2> QED BY <1>4, <2>3 DEF Then
<1>5. CASE k[1] = "newParent"
  <2>1. <<"rename", k[2], node.id, k[3]>> \in TrueStep
    BY <1>1, <1>5, ContinuationArguments, TrueSteps
  <2> QED BY <1>5, <2>1 DEF Then
<1>6. CASE k[1] = "child"
  <2>1. <<"rename", node, k[2], k[3]>> \in TrueStep
    BY <1>6, ContinuationArguments, TrueSteps
  <2> QED BY <1>6, <2>1 DEF Then
<1>7. CASE k[1] = "destDir"
  <2>1. <<"moveContents", k[2], node.id>> \in TrueStep
    BY <1>1, <1>7, ContinuationArguments, TrueSteps
  <2> QED BY <1>7, <2>1 DEF Then
<1> QED BY <1>2, <1>3, <1>4, <1>5, <1>6, <1>7, ContinuationArguments

-----------------------------------------------------------------------------
(* Every step keeps the kinds.                                             *)
LEMMA TrueRest ==
  ASSUME Base, todo # <<>>, NEW steps \in Seq(TrueStep), NEW c, NEW files, Goto(steps, c, files)
  PROVE  todo' \in Seq(TrueStep)
<1>1. Tail(todo) \in Seq(TrueStep)
  BY HeadTailProperties DEF Base, KindsInv
<1> QED BY <1>1, ConcatProperties DEF Goto

LEMMA TrueNothing ==
  /\ <<>> \in Seq(TrueStep)
  /\ \A s \in TrueStep : <<s>> \in Seq(TrueStep)
  /\ \A s, t \in TrueStep : <<s, t>> \in Seq(TrueStep)
  /\ \A s, t, u, v \in TrueStep : <<s, t, u, v>> \in Seq(TrueStep)
<1> HIDE DEF TrueStep
<1> QED BY EmptySeq

LEMMA TrueNodes ==
  ASSUME Base
  PROVE  /\ TrueCache(cache) /\ TrueCopies(localFiles)
         /\ \A i \in DOMAIN objs \cup DOMAIN localFiles : i \in NodeIds
BY DEF Base, KindsInv, CopiesInv, TypeOK, DeviceTypeOK, IsMap, NodeIds

LEMMA LookingSteps ==
  ASSUME Base, GetNode
  PROVE  TrueCache(cache') /\ TrueCopies(localFiles') /\ todo' \in Seq(TrueStep)
<1> DEFINE dir == Arg(2)
           rest == Arg(3)
           k == Arg(4)
<1>0. TypeOK /\ WellFormed(call)
  BY BaseFacts, TrueArguments, InCall DEF GetNode
<1>1. /\ todo # <<>> /\ dir \in NodeIds /\ rest \in Seq(Names) /\ k \in Continuation
      /\ rest = <<>> => dir \in Storages
      /\ k[1] = "newParent" => Kind(k[2].id, k[2].file)
  <2>1. Head(todo) \in TrueStep /\ Head(todo)[1] = "getNode" /\ todo # <<>>
    BY TrueArguments DEF GetNode
  <2> QED BY <2>1, StepArguments DEF Arg, TrueStep
<1>2. TrueCache(cache) /\ TrueCopies(localFiles)
  BY TrueNodes
<1>3. CASE rest = <<>> /\ Goto(Then(k, [id |-> dir, file |-> FALSE]), cache, localFiles)
  <2> DEFINE node == [id |-> dir, file |-> FALSE]
  <2>1. node \in Node /\ Kind(node.id, node.file)
    BY <1>1, <1>3 DEF Node, Kind
  <2>2. Then(k, node) \in Seq(TrueStep)
    BY <1>0, <1>1, <2>1, TrueThen
  <2> QED BY <1>1, <1>2, <1>3, <2>2, TrueRest DEF Goto
<1>4. CASE \E r \in getItem(dir) : Throw("ENOENT", r.cache, localFiles)
  BY <1>1, <1>2, <1>4, TrueItem, TrueNothing DEF Throw
<1>5. ASSUME rest # <<>>, NEW r \in getItem(dir), NEW e \in r.md.children,
             Goto(IF e.file \/ Len(rest) = 1
                  THEN Then(k, [id |-> e.id, file |-> e.file])
                  ELSE << <<"getNode", e.id, Tail(rest), k>> >>, r.cache, localFiles)
      PROVE  TrueCache(cache') /\ TrueCopies(localFiles') /\ todo' \in Seq(TrueStep)
  <2>1. r.md \in Metadata /\ TrueEntries(r.md) /\ TrueCache(r.cache)
    BY <1>0, <1>1, GetItemType, TrueItem
  <2>2. e \in Entry /\ Kind(e.id, e.file)
    BY <2>1 DEF Metadata, TrueEntries
  <2> DEFINE node == [id |-> e.id, file |-> e.file]
  <2>3. e.id \in NodeIds /\ node \in Node /\ Kind(node.id, node.file)
    BY <2>2 DEF Entry, Node, NodeIds
  <2>4. Then(k, node) \in Seq(TrueStep)
    BY <1>0, <1>1, <2>3, TrueThen
  <2>5. Tail(rest) \in Seq(Names) /\ (Len(rest) # 1 => Tail(rest) # <<>>)
    BY <1>1, <1>5, HeadTailProperties, EmptySeq
  <2>6. Len(rest) # 1 => <<"getNode", e.id, Tail(rest), k>> \in TrueStep
    BY <1>1, <2>3, <2>5, TrueSteps
  <2>7. (IF e.file \/ Len(rest) = 1 THEN Then(k, node)
         ELSE << <<"getNode", e.id, Tail(rest), k>> >>) \in Seq(TrueStep)
    BY <2>4, <2>6, TrueNothing
  <2> QED BY <1>1, <1>2, <1>5, <2>1, <2>7, TrueRest DEF Goto
<1> QED BY <1>3, <1>4, <1>5 DEF GetNode

LEMMA FileSteps ==
  ASSUME Base, GetAttr \/ Open \/ Read \/ Write \/ Truncate \/ Fsync \/ CloseFile \/ Unmount
  PROVE  TrueCache(cache') /\ TrueCopies(localFiles') /\ todo' \in Seq(TrueStep)
<1>0. TypeOK /\ TrueCache(cache) /\ TrueCopies(localFiles)
      /\ \A i \in DOMAIN objs \cup DOMAIN localFiles : i \in NodeIds
  BY BaseFacts, TrueNodes
<1>1. CASE GetAttr
  <2>1. todo # <<>> /\ Arg(2) \in NodeIds
    BY <1>0, <1>1, NextStep, StepArguments DEF GetAttr, Arg
  <2> QED BY <1>0, <1>1, <2>1, TrueItem, TrueRest, TrueNothing DEF GetAttr, Goto
<1>2. CASE Open \/ Read \/ Write
  <2>1. Kind(Arg(2), TRUE) /\ Tail(todo) \in Seq(TrueStep)
    BY <1>2, TrueArguments DEF Open, Read, Write, Arg, TrueStep
  <2>2. TrueCache(cache') /\ (todo' = Tail(todo) \/ todo' = <<>> \o Tail(todo))
    BY <1>0, <1>2 DEF Open, Read, Write, Goto
  <2>3. todo' \in Seq(TrueStep)
    BY <2>1, <2>2, TrueNothing, ConcatProperties, ConcatEmptySeq
  <2>4. \E files \in openFile(Arg(2)) : DOMAIN localFiles' = DOMAIN files
    BY <1>2 DEF Open, Read, Write, Goto
  <2> QED BY <2>1, <2>2, <2>3, <2>4, TrueOpen DEF TrueCopies
<1>3. CASE Truncate
  <2> DEFINE n == Arg(2)
  <2>1. todo # <<>> /\ n \in NodeIds /\ Kind(n, TRUE)
    <3>1. Head(todo) \in TrueStep /\ Head(todo)[1] = "truncate" /\ todo # <<>>
      BY <1>3, TrueArguments DEF Truncate
    <3> QED BY <3>1, StepArguments DEF Arg, TrueStep
  <2>2. PICK r \in getItem(n) :
          \/ Goto(<<>>, r.cache, localFiles)
          \/ \E files \in openFile(n) : \E f :
               /\ DOMAIN f = DOMAIN files
               /\ Goto(<< <<"closeFile", n, {n, GetParentNodeId(r.md)}>> >>, r.cache, f)
    BY <1>3 DEF Truncate
  <2>3. TrueCache(r.cache) /\ GetParentNodeId(r.md) \in NodeIds
    BY <1>0, <2>1, TrueItem, GetItemType, ParentType
  <2>4. {n, GetParentNodeId(r.md)} \in SUBSET NodeIds
    BY <2>1, <2>3
  <2>5. << <<"closeFile", n, {n, GetParentNodeId(r.md)}>> >> \in Seq(TrueStep)
    BY <2>1, <2>4, TrueSteps, TrueNothing
  <2>6. todo' \in Seq(TrueStep)
    BY <2>1, <2>2, <2>5, TrueRest, TrueNothing
  <2>7. TrueCache(cache') /\ (localFiles' = localFiles
                               \/ \E files \in openFile(n) : DOMAIN localFiles' = DOMAIN files)
    BY <2>2, <2>3 DEF Goto
  <2> QED BY <1>0, <2>1, <2>6, <2>7, TrueOpen DEF TrueCopies
<1>4. CASE Fsync
  <2> DEFINE n == Arg(2)
  <2>1. todo # <<>> /\ n \in NodeIds
    BY <1>0, <1>4, NextStep, StepArguments DEF Fsync, Arg
  <2>2. PICK r \in getItem(n) :
          Goto(<< <<"closeFile", n, {GetParentNodeId(r.md)}>> >>, Drop(r.cache, {n}), localFiles)
    BY <1>4 DEF Fsync
  <2>3. TrueCache(Drop(r.cache, {n})) /\ {GetParentNodeId(r.md)} \in SUBSET NodeIds
    BY <1>0, <2>1, TrueItem, GetItemType, ParentType, TrueDrop
  <2>4. << <<"closeFile", n, {GetParentNodeId(r.md)}>> >> \in Seq(TrueStep)
    BY <2>1, <2>3, TrueSteps, TrueNothing
  <2> QED BY <1>0, <2>1, <2>2, <2>3, <2>4, TrueRest DEF Goto
<1>5. CASE CloseFile
  <2>1. todo # <<>> /\ Goto(<<>>, Drop(cache, Arg(3)), Drop(localFiles, {Arg(2)}))
    BY <1>5 DEF CloseFile, At
  <2> QED BY <1>0, <2>1, TrueRest, TrueNothing, TrueDrop DEF Goto
<1>6. CASE Unmount
  <2>1. todo # <<>>
    BY <1>6 DEF Unmount, At
  <2>2. \A n \in DOMAIN localFiles : << <<"closeFile", n, {}>>, <<"unmount">> >> \in Seq(TrueStep)
    <3> TAKE n \in DOMAIN localFiles
    <3>1. n \in NodeIds /\ {} \in SUBSET NodeIds
      BY <1>0
    <3>2. <<"closeFile", n, {}>> \in TrueStep /\ <<"unmount">> \in TrueStep
      BY <3>1, TrueSteps
    <3> QED BY <3>2, TrueNothing
  <2>3. \/ Goto(<<>>, cache, localFiles)
        \/ \E n \in DOMAIN localFiles :
             Goto(<< <<"closeFile", n, {}>>, <<"unmount">> >>, cache, localFiles)
    BY <1>6 DEF Unmount
  <2> QED BY <1>0, <2>1, <2>2, <2>3, TrueRest, TrueNothing DEF Goto
<1> QED BY <1>1, <1>2, <1>3, <1>4, <1>5, <1>6

LEMMA CopiedIsFile ==
  ASSUME Base, NEW n \in DOMAIN objs \cap DOMAIN localFiles
  PROVE  objs[n].file = TRUE /\ objs[n] \in Object /\ localFiles[n] \in Copy
<1>1. TypeOK /\ Kind(n, TRUE)
  BY BaseFacts, TrueNodes DEF TrueCopies
<1>2. n \in ObjIds /\ objs[n] \in Object /\ localFiles[n] \in Copy
  BY <1>1 DEF TypeOK, DeviceTypeOK, IsMap
<1> QED BY <1>1, <1>2, DeviceAssumption DEF Kind

LEMMA SendingSteps ==
  ASSUME Base, DeleteOld \/ SendFile
  PROVE  /\ TrueCache(cache') /\ TrueCopies(localFiles')
         /\ todo' \in Seq(TrueStep) \/ todo' \in Seq(TrueStep')
<1>0. TypeOK /\ TrueCache(cache) /\ TrueCopies(localFiles) /\ DeviceTypeOK
  BY BaseFacts, TrueNodes
<1>1. \A n : TrueCopies(Broken(n))
  BY <1>0 DEF TrueCopies, Broken
<1>2. CASE DeleteOld
  <2> DEFINE n == Arg(2)
             o == [objs[n] EXCEPT !.data = localFiles[n].data]
             s == <<"sendFile", n, Arg(3), o>>
  <2>1. todo # <<>> /\ Arg(3) \in SUBSET NodeIds /\ n \in DOMAIN localFiles
    BY <1>0, <1>2, NextStep, StepArguments DEF DeleteOld, Arg
  <2>2. \/ /\ n \in DOMAIN objs
           /\ Goto(<<s>>, cache, [localFiles EXCEPT ![n].dirty = FALSE])
        \/ Throw("EIO", cache, Broken(n))
    BY <1>2 DEF DeleteOld, DeviceCall
  <2>3. n \in DOMAIN objs => s \in TrueStep
    <3> HAVE n \in DOMAIN objs
    <3>1. o \in Object /\ o.file = TRUE /\ n \in ObjIds
      BY <1>0, <2>1, CopiedIsFile, ObjectFields DEF Object, Copy
    <3> HIDE DEF o
    <3> QED BY <2>1, <3>1, TrueSteps
  <2>4. TrueCopies([localFiles EXCEPT ![n].dirty = FALSE])
    BY <1>0 DEF TrueCopies
  <2> HIDE DEF s
  <2> QED BY <1>0, <1>1, <2>1, <2>2, <2>3, <2>4, TrueRest, TrueNothing DEF Goto, Throw
<1>3. CASE SendFile
  <2> DEFINE n == Arg(2)
             rest == Tail(todo)
             after == {IF x = n THEN nextId ELSE x : x \in Arg(3)}
  <2>1. rest \in Seq(TrueStep)
    BY <1>3, TrueArguments DEF SendFile
  <2>2. \/ /\ MayAdd(Arg(4)) /\ nextId' = nextId + 1 /\ objs' = WithObject(Arg(4))
           /\ todo' = Renumber(rest, n, nextId)
           /\ cache' = Drop(cache, after) /\ localFiles' = Drop(localFiles, {n})
        \/ Throw("EIO", cache, Broken(n))
    BY <1>3 DEF SendFile, DeviceCall
  <2>3. ASSUME MayAdd(Arg(4)), nextId' = nextId + 1, objs' = WithObject(Arg(4))
        PROVE  Renumber(rest, n, nextId) \in Seq(TrueStep')
    <3>0. Arg(4) \in Object /\ Arg(4).file
      BY <1>3, TrueArguments, StepArguments DEF SendFile, TrueStep, Arg
    <3>1. DeviceStep
      BY <2>3, <3>0 DEF DeviceStep, Adds
    <3>2. nextId \in Nat /\ nextId \notin DOMAIN objs /\ nextId \in ObjIds
      BY <2>3, BaseFacts DEF MayAdd
    <3>9. PICK id : id = nextId
      OBVIOUS
    <3>3. Kind(id, TRUE)'
      <4>1. id \in 1 .. nextId' - 1 /\ objs'[id] = Arg(4)
        BY <2>3, <3>2, <3>9, DeviceAssumption DEF WithObject, Put, ObjIds
      <4> QED BY <3>0, <4>1 DEF Kind
    <3>4. TrueStep \subseteq TrueStep'
      BY <3>1, KindKept
    <3>5. ASSUME NEW k \in DOMAIN rest, rest[k][1] = "copyTo"
          PROVE  [rest[k] EXCEPT ![2] = nextId] \in TrueStep'
      <4>1. rest[k] \in TrueStep
        BY <2>1, <3>5, LenProperties, ElementOfSeq
      <4>2. rest[k] \in {"copyTo"} \X NodeIds \X NodeIds \X Names
        <5>1. rest[k] \in HandlerStep
          BY <4>1 DEF TrueStep
        <5> QED BY <3>5, <5>1 DEF HandlerStep
      <4>3. PICK m \in NodeIds, dst \in NodeIds, name \in Names :
              rest[k] = <<"copyTo", m, dst, name>>
        BY <4>2
      <4>4. [rest[k] EXCEPT ![2] = nextId] = <<"copyTo", nextId, dst, name>>
        BY <4>3
      <4>5. <<"copyTo", id, dst, name>> \in HandlerStep
        BY <3>2, <3>9, <4>3, StepTypes DEF NodeIds
      <4>6. <<"copyTo", id, dst, name>> \in TrueStep'
        <5> DEFINE s == <<"copyTo", id, dst, name>>
        <5>1. s[1] = "copyTo" /\ s[2] = id
          OBVIOUS
        <5> HIDE DEF s
        <5> QED BY <3>3, <4>5, <5>1 DEF TrueStep, s
      <4> QED BY <3>9, <4>4, <4>6
    <3>6. \A k \in 1 .. Len(rest) : rest[k] \in TrueStep' /\ k \in DOMAIN rest
      BY <2>1, <3>4, LenProperties, ElementOfSeq
    <3>7. Renumber(rest, n, nextId) \in [1 .. Len(rest) -> TrueStep']
      <4> HIDE DEF rest, TrueStep
      <4> QED BY <2>1, <3>5, <3>6, LenProperties DEF Renumber
    <3> QED BY <2>1, <3>7, LenProperties, SeqDef
  <2>4. CASE /\ MayAdd(Arg(4)) /\ nextId' = nextId + 1 /\ objs' = WithObject(Arg(4))
             /\ todo' = Renumber(rest, n, nextId)
             /\ cache' = Drop(cache, after) /\ localFiles' = Drop(localFiles, {n})
    BY <1>0, <2>3, <2>4, TrueDrop
  <2>5. CASE Throw("EIO", cache, Broken(n))
    BY <1>0, <1>1, <2>5, TrueNothing DEF Throw
  <2> QED BY <2>2, <2>4, <2>5
<1> QED BY <1>2, <1>3

LEMMA MakingSteps ==
  ASSUME Base, Mkdir \/ CreateFile \/ RemoveNode \/ CopyTo \/ DropOriginal
  PROVE  TrueCache(cache') /\ TrueCopies(localFiles') /\ todo' \in Seq(TrueStep)
<1>0. TypeOK /\ TrueCache(cache) /\ TrueCopies(localFiles)
  BY BaseFacts, TrueNodes
<1>1. CASE Mkdir \/ CreateFile \/ DropOriginal
  <2>1. todo # <<>>
    BY <1>1 DEF Mkdir, CreateFile, DropOriginal, At
  <2>2. \/ \E K : Goto(<<>>, Drop(cache, K), localFiles)
        \/ Throw("EIO", cache, localFiles)
    BY <1>1 DEF Mkdir, CreateFile, DropOriginal, DeviceCall
  <2> QED BY <1>0, <2>1, <2>2, TrueRest, TrueNothing, TrueDrop DEF Goto, Throw
<1>2. CASE RemoveNode
  <2>1. todo # <<>> /\ Arg(2) \in NodeIds
    BY <1>0, <1>2, NextStep, StepArguments DEF RemoveNode, Arg
  <2>2. PICK r \in getItem(Arg(2)) :
          \/ \E K : Goto(<<>>, Drop(r.cache, K), localFiles)
          \/ \E code : Throw(code, r.cache, localFiles)
    BY <1>2 DEF RemoveNode, DeviceCall
  <2>3. TrueCache(r.cache)
    BY <2>1, TrueItem
  <2> QED BY <1>0, <2>1, <2>2, <2>3, TrueRest, TrueNothing, TrueDrop DEF Goto, Throw
<1>3. CASE CopyTo
  <2> DEFINE n == Arg(2)
  <2>1. todo # <<>> /\ n \in NodeIds /\ Kind(n, TRUE)
    <3>1. Head(todo) \in TrueStep /\ Head(todo)[1] = "copyTo" /\ todo # <<>>
      BY <1>3, TrueArguments DEF CopyTo
    <3> QED BY <3>1, StepArguments DEF Arg, TrueStep
  <2>2. PICK r \in getItem(n), files \in openFile(n) :
          \/ \E K : Goto(<< <<"dropOriginal", n, GetParentNodeId(r.md)>> >>, Drop(r.cache, K), files)
          \/ Throw("EIO", r.cache, files)
    BY <1>3 DEF CopyTo, DeviceCall
  <2>3. TrueCache(r.cache) /\ GetParentNodeId(r.md) \in NodeIds /\ TrueCopies(files)
    BY <1>0, <2>1, TrueItem, GetItemType, ParentType, TrueOpen
  <2>4. << <<"dropOriginal", n, GetParentNodeId(r.md)>> >> \in Seq(TrueStep)
    BY <2>1, <2>3, TrueSteps, TrueNothing
  <2> QED BY <2>1, <2>2, <2>3, <2>4, TrueRest, TrueNothing, TrueDrop DEF Goto, Throw
<1> QED BY <1>1, <1>2, <1>3

LEMMA RenamingSteps ==
  ASSUME Base, RenameFile \/ RenameFolder \/ MoveContents \/ MoveRest \/ ClearItems \/ Refuse
  PROVE  TrueCache(cache') /\ TrueCopies(localFiles') /\ todo' \in Seq(TrueStep)
<1>0. TypeOK /\ TrueCache(cache) /\ TrueCopies(localFiles)
  BY BaseFacts, TrueNodes
<1>1. CASE RenameFile
  <2> DEFINE n == Arg(2).id
  <2>1. todo # <<>> /\ Arg(2) \in Node /\ Arg(3) \in NodeIds /\ Arg(4) \in Names
        /\ Kind(Arg(2).id, Arg(2).file) /\ Arg(2).file
    <3>1. Head(todo) \in TrueStep /\ Head(todo)[1] = "rename" /\ todo # <<>>
      BY <1>1, TrueArguments DEF RenameFile
    <3> QED BY <1>1, <3>1, StepArguments DEF Arg, TrueStep, RenameFile
  <2>2. n \in NodeIds /\ Kind(n, TRUE)
    BY <2>1 DEF Node
  <2>3. << <<"fsync", n>>, <<"copyTo", n, Arg(3), Arg(4)>> >> \in Seq(TrueStep)
    BY <2>1, <2>2, TrueSteps, TrueNothing
  <2> QED BY <1>0, <1>1, <2>1, <2>3, TrueRest DEF RenameFile, Goto
<1>2. CASE RenameFolder
  <2> DEFINE n == Arg(2).id
             dst == Arg(3)
             name == Arg(4)
  <2>1. todo # <<>> /\ n \in NodeIds /\ dst \in NodeIds /\ name \in Names
    BY <1>0, <1>2, NextStep, StepArguments DEF RenameFolder, Arg, Node
  <2>2. PICK r \in getItem(n) :
          \/ Goto(<<>>, Drop(r.cache, {dst, GetParentNodeId(r.md)}), localFiles)
          \/ Throw("EIO", r.cache, localFiles)
          \/ Goto(<< <<"mkdir", dst, name>>, <<"getNode", dst, <<name>>, <<"destDir", n>> >>,
                     <<"remove", n, FALSE>>,
                     <<"clearItems", {dst, GetParentNodeId(r.md)}>> >>, r.cache, localFiles)
    BY <1>2 DEF RenameFolder, DeviceCall
  <2>3. TrueCache(r.cache) /\ {dst, GetParentNodeId(r.md)} \in SUBSET NodeIds
    BY <1>0, <2>1, TrueItem, GetItemType, ParentType
  <2>4. /\ <<"mkdir", dst, name>> \in TrueStep /\ <<"remove", n, FALSE>> \in TrueStep
        /\ <<"clearItems", {dst, GetParentNodeId(r.md)}>> \in TrueStep
    BY <2>1, <2>3, TrueSteps
  <2>5. <<"getNode", dst, <<name>>, <<"destDir", n>> >> \in TrueStep
    <3>1. <<name>> \in Seq(Names) /\ <<name>> # <<>> /\ <<"destDir", n>> \in Continuation
      BY <2>1, ContinuationTypes
    <3> QED BY <2>1, <3>1, TrueSteps
  <2>6. << <<"mkdir", dst, name>>, <<"getNode", dst, <<name>>, <<"destDir", n>> >>,
           <<"remove", n, FALSE>>, <<"clearItems", {dst, GetParentNodeId(r.md)}>> >> \in Seq(TrueStep)
    BY <2>4, <2>5, TrueNothing
  <2> QED BY <1>0, <2>1, <2>2, <2>3, <2>6, TrueRest, TrueNothing, TrueDrop DEF Goto, Throw
<1>3. CASE MoveContents
  <2>1. todo # <<>> /\ Arg(2) \in NodeIds /\ Arg(3) \in NodeIds
    BY <1>0, <1>3, NextStep, StepArguments DEF MoveContents, Arg
  <2>2. PICK r \in getItem(Arg(2)) :
          Goto(<< <<"moveRest", Arg(2), Arg(3), r.md.children>> >>, r.cache, localFiles)
    BY <1>3 DEF MoveContents
  <2>3. r.md.children \in SUBSET Entry /\ TrueCache(r.cache)
    BY <1>0, <2>1, GetItemType, TrueItem DEF Metadata
  <2>4. << <<"moveRest", Arg(2), Arg(3), r.md.children>> >> \in Seq(TrueStep)
    BY <2>1, <2>3, TrueSteps, TrueNothing
  <2> QED BY <1>0, <2>1, <2>2, <2>3, <2>4, TrueRest DEF Goto
<1>4. CASE MoveRest
  <2>1. todo # <<>> /\ Arg(2) \in NodeIds /\ Arg(3) \in NodeIds /\ Arg(4) \in SUBSET Entry
    BY <1>0, <1>4, NextStep, StepArguments DEF MoveRest, Arg
  <2>2. ASSUME NEW e \in Arg(4)
        PROVE  << <<"getNode", Arg(2), <<e.name>>, <<"child", Arg(3), e.name>> >>,
                  <<"moveRest", Arg(2), Arg(3), Arg(4) \ {e}>> >> \in Seq(TrueStep)
    <3>1. e.name \in Names
      BY <2>1, <2>2 DEF Entry
    <3>2. <<e.name>> \in Seq(Names) /\ <<e.name>> # <<>>
          /\ <<"child", Arg(3), e.name>> \in Continuation
      BY <2>1, <3>1, ContinuationTypes
    <3>3. <<"getNode", Arg(2), <<e.name>>, <<"child", Arg(3), e.name>> >> \in TrueStep
      BY <2>1, <3>2, TrueSteps
    <3>4. <<"moveRest", Arg(2), Arg(3), Arg(4) \ {e}>> \in TrueStep
      BY <2>1, TrueSteps
    <3> QED BY <3>3, <3>4, TrueNothing
  <2>3. \/ Goto(<<>>, cache, localFiles)
        \/ \E e \in Arg(4) :
             Goto(<< <<"getNode", Arg(2), <<e.name>>, <<"child", Arg(3), e.name>> >>,
                     <<"moveRest", Arg(2), Arg(3), Arg(4) \ {e}>> >>, cache, localFiles)
    BY <1>4 DEF MoveRest
  <2> QED BY <1>0, <2>1, <2>2, <2>3, TrueRest, TrueNothing DEF Goto
<1>5. CASE ClearItems
  <2>1. todo # <<>> /\ Goto(<<>>, Drop(cache, Arg(2)), localFiles)
    BY <1>5 DEF ClearItems, At
  <2> QED BY <1>0, <2>1, TrueRest, TrueNothing, TrueDrop DEF Goto
<1>6. CASE Refuse
  BY <1>0, <1>6, TrueNothing DEF Refuse, Throw
<1> QED BY <1>1, <1>2, <1>3, <1>4, <1>5, <1>6

LEMMA EndSteps ==
  ASSUME Base, \/ ReadFails \/ Crash \/ Unmounted \/ Disconnect \/ Mount \/ Return \/ Kernel
               \/ UNCHANGED vars
  PROVE  TrueCache(cache') /\ TrueCopies(localFiles') /\ todo' \in Seq(TrueStep)
<1>0. TypeOK /\ TrueCache(cache) /\ TrueCopies(localFiles) /\ todo \in Seq(TrueStep)
  BY BaseFacts, TrueNodes DEF Base, KindsInv
<1>1. CASE ReadFails
  <2>1. \A n \in NodeIds : \A r \in getItem(n) : TrueCache(r.cache)
    BY TrueItem
  <2>2. At("truncate") \/ At("copyTo") => Arg(2) \in NodeIds
    BY <1>0, NextStep, StepArguments DEF Arg
  <2> QED BY <1>0, <1>1, <2>1, <2>2, TrueNothing DEF ReadFails, Throw
<1>2. CASE Crash \/ Unmounted \/ Disconnect
  <2>1. todo' = <<>> /\ cache' = EmptyMap /\ localFiles' = EmptyMap
    BY <1>2 DEF Crash, Unmounted, Disconnect, ProcessEnds
  <2>2. DOMAIN EmptyMap = {}
    BY DEF EmptyMap
  <2> QED BY <2>1, <2>2, TrueNothing DEF TrueCache, TrueCopies
<1>3. CASE Mount \/ Return \/ UNCHANGED vars
  BY <1>0, <1>3 DEF Mount, Return, vars, process
<1>4. CASE Kernel
  <2>1. \E c : todo' = Handler(c) /\ call' = c /\ c.op \in Ops
               /\ cache' = cache /\ localFiles' = localFiles
    <3>1. \E op, path, new, off, byte, h : Begin(op, path, new, off, byte, h)
      BY <1>4 DEF Kernel
    <3> QED BY <3>1 DEF Begin
  <2>2. todo' = Handler(call') /\ cache' = cache /\ localFiles' = localFiles
    BY <2>1
  <2>3. CASE call'.op = "none"
    BY <1>0, <1>4, <2>2, <2>3, KernelType, TrueNothing DEF TypeOK
  <2>4. CASE call'.op # "none"
    <3>1. WellFormed(call')
      BY <1>0, <1>4, <2>4, KernelType DEF TypeOK, WellFormed, Call, Path, LongPath
    <3> QED BY <1>0, <2>2, <3>1, TrueHandler
  <2> QED BY <2>3, <2>4
<1> QED BY <1>1, <1>2, <1>3, <1>4

LEMMA NextBase == ASSUME Base, [Next]_vars PROVE Base'
<1>1. CopiesInv'
  BY NextCopies DEF Base
<1>2. DeviceStep /\ StoreInv'
  BY IsDeviceStep, StoreKept
<1>3. /\ TrueCache(cache') /\ TrueCopies(localFiles')
      /\ todo' \in Seq(TrueStep) \/ todo' \in Seq(TrueStep')
  BY LookingSteps, FileSteps, SendingSteps, MakingSteps, RenamingSteps, EndSteps DEF Next, Step
<1> QED BY <1>1, <1>2, <1>3, KindsKept DEF Base

LEMMA InitBase == ASSUME Init PROVE Base
<1>1. CopiesInv
  BY InitCopies
<1>2. StoreInv
  BY StoresAssumption DEF Init, DeviceInit, StoreInv
<1>3. cache = EmptyMap /\ localFiles = EmptyMap /\ todo = <<>> /\ DOMAIN EmptyMap = {}
  BY DEF Init, EmptyMap
<1> QED BY <1>1, <1>2, <1>3, TrueNothing DEF Base, KindsInv, TrueCache, TrueCopies

(* The store stays a tree and every id keeps its kind, whatever fails and  *)
(* in whatever order handlers, failures and deaths of the process come.    *)
THEOREM BaseHolds == Spec => []Base
<1>1. Init => Base
  BY InitBase
<1>2. Base /\ [Next]_vars => Base'
  BY NextBase
<1> QED BY <1>1, <1>2, PTL DEF Spec

-----------------------------------------------------------------------------
(* One step of a call.                                                     *)
ReplyInv == /\ call.op = "none" => reply = Okay
            /\ todo # <<>> => reply.code = "ok"

LEMMA StepFrame ==
  ASSUME Base, Step, ~Crash
  PROVE  todo # <<>> /\ call.op # "none" /\ Others /\ call' = call /\ pre' = pre
<1>1. todo # <<>> /\ Others
  BY DEF Step, GetNode, GetAttr, Open, Read, Write, Truncate, Fsync, CloseFile, DeleteOld,
     SendFile, Unmount, Mkdir, CreateFile, RemoveNode, RenameFile, CopyTo, DropOriginal,
     RenameFolder, MoveContents, MoveRest, ClearItems, Refuse, ReadFails, At
<1> QED BY <1>1, BaseFacts DEF TypeOK, Others

LEMMA CallFrame ==
  ASSUME Base, [Next]_vars
  PROVE  \/ UNCHANGED vars
         \/ call'.op = "none"
         \/ proc = "up" /\ call.op = "none" /\ todo = <<>> /\ Kernel
         \/ /\ todo # <<>> /\ call.op # "none" /\ Step /\ ~Crash /\ Others
            /\ call' = call /\ pre' = pre
<1>0. TypeOK
  BY BaseFacts
<1>1. CASE Kernel
  BY <1>0, <1>1 DEF Kernel, TypeOK
<1>2. CASE Return \/ Unmounted \/ Disconnect \/ Crash
  <2>1. call' = NoCall(call.h)
    BY <1>2 DEF Return, Unmounted, Disconnect, Crash, ProcessEnds
  <2> QED BY <2>1 DEF NoCall
<1>3. CASE Mount
  BY <1>0, <1>3 DEF Mount, TypeOK
<1>4. CASE Step /\ ~Crash
  BY <1>4, StepFrame
<1> QED BY <1>1, <1>2, <1>3, <1>4 DEF Next

(* The actions a step of a handler is carried out by.                      *)
LEMMA WhichStep ==
  ASSUME Step, ~Crash, NEW a, At(a)
  PROVE  /\ a = "getNode"    => GetNode \/ ReadFails
         /\ a \in {"getattr", "getItem"} => GetAttr \/ ReadFails
         /\ a = "open"       => Open \/ ReadFails
         /\ a = "read"       => Read \/ ReadFails
         /\ a = "write"      => Write \/ ReadFails
         /\ a = "truncate"   => Truncate \/ ReadFails
         /\ a = "fsync"      => Fsync \/ ReadFails
         /\ a = "closeFile"  => CloseFile \/ DeleteOld
         /\ a = "sendFile"   => SendFile
         /\ a = "unmount"    => Unmount
         /\ a = "mkdir"      => Mkdir
         /\ a = "createFile" => CreateFile
         /\ a = "remove"     => RemoveNode \/ ReadFails
         /\ a = "rename"     => RenameFile \/ RenameFolder \/ Refuse \/ ReadFails
         /\ a = "copyTo"     => CopyTo \/ ReadFails
         /\ a = "dropOriginal" => DropOriginal
         /\ a = "moveContents" => MoveContents \/ ReadFails
         /\ a = "moveRest"   => MoveRest
         /\ a = "clearItems" => ClearItems
         /\ a = "throw"      => Refuse
<1>1. /\ GetNode => a = "getNode"
      /\ GetAttr => a \in {"getattr", "getItem"}
      /\ Open => a = "open"
      /\ Read => a = "read"
      /\ Write => a = "write"
      /\ Truncate => a = "truncate"
      /\ Fsync => a = "fsync"
      /\ CloseFile \/ DeleteOld => a = "closeFile"
      /\ SendFile => a = "sendFile"
      /\ Unmount => a = "unmount"
  BY DEF GetNode, GetAttr, Open, Read, Write, Truncate, Fsync, CloseFile, DeleteOld, SendFile, Unmount, At
<1>2. /\ Mkdir => a = "mkdir"
      /\ CreateFile => a = "createFile"
      /\ RemoveNode => a = "remove"
      /\ RenameFile \/ RenameFolder => a = "rename"
      /\ CopyTo => a = "copyTo"
      /\ DropOriginal => a = "dropOriginal"
      /\ MoveContents => a = "moveContents"
      /\ MoveRest => a = "moveRest"
      /\ ClearItems => a = "clearItems"
      /\ Refuse => a \in {"throw", "rename"}
  BY DEF Mkdir, CreateFile, RemoveNode, RenameFile, RenameFolder, CopyTo, DropOriginal, MoveContents, MoveRest,
     ClearItems, Refuse, At
<1>3. ReadFails => a \in AsksForItem \cup AsksForFile \cup {"rename"}
  BY DEF ReadFails, At
<1> QED BY <1>1, <1>2, <1>3 DEF Step, AsksForItem, AsksForFile

LEMMA NextReply == ASSUME Base, ReplyInv, [Next]_vars PROVE ReplyInv'
<1>0. TypeOK
  BY BaseFacts
<1>1. CASE UNCHANGED vars
  BY <1>1 DEF ReplyInv, vars, process
<1>2. CASE Kernel
  <2>1. reply' = Okay
    BY <1>2 DEF Kernel, Begin, ReplyInv
  <2> QED BY <2>1 DEF ReplyInv, Okay
<1>3. CASE Return \/ Unmounted \/ Disconnect \/ Crash \/ Mount
  BY <1>0, <1>3 DEF Return, Unmounted, Disconnect, Crash, Mount, ProcessEnds, ReplyInv, process, TypeOK, Done
<1>4. CASE Step /\ ~Crash
  <2>1. call'.op # "none" /\ reply.code = "ok"
    BY <1>4, StepFrame DEF ReplyInv
  <2> DEFINE Kept == UNCHANGED reply \/ todo' = <<>> \/ reply'.code = "ok"
  <2>2. GetNode \/ GetAttr \/ Open \/ Write \/ Truncate \/ Fsync \/ CloseFile \/ Unmount => Kept
    BY DEF GetNode, GetAttr, Open, Write, Truncate, Fsync, CloseFile, Unmount, Goto, Throw
  <2>6. Read => Kept
    <3> HAVE Read
    <3>1. PICK files \in openFile(Arg(2)) : reply' = [code |-> "ok", data |-> files[Arg(2)].data]
      BY DEF Read
    <3> QED BY <3>1
  <2>3. DeleteOld \/ SendFile \/ Mkdir \/ CreateFile \/ CopyTo \/ DropOriginal => Kept
    BY DEF DeleteOld, SendFile, Mkdir, CreateFile, CopyTo, DropOriginal, DeviceCall, Goto, Throw
  <2>4. RemoveNode \/ RenameFile \/ RenameFolder \/ MoveContents \/ MoveRest \/ ClearItems => Kept
    BY DEF RemoveNode, RenameFile, RenameFolder, MoveContents, MoveRest, ClearItems, DeviceCall, Goto, Throw
  <2>5. Refuse \/ ReadFails => Kept
    BY DEF Refuse, ReadFails, Throw
  <2> QED BY <1>4, <2>1, <2>2, <2>3, <2>4, <2>5, <2>6 DEF ReplyInv, Step
<1> QED BY <1>1, <1>2, <1>3, <1>4 DEF Next

-----------------------------------------------------------------------------
(* The tree of files, object by object.                                    *)
Item(i)    == [path |-> PathOf(i), file |-> objs[i].file, data |-> Content(i)]
PathFor(x) == IF x.parent = 0 THEN <<x.storage, x.name>> ELSE Append(PathOf(x.parent), x.name)
ItemFor(x) == [path |-> PathFor(x), file |-> x.file, data |-> x.data]

LEMMA ViewItems == View = {Item(i) : i \in DOMAIN objs}
BY DEF View, Item

LEMMA ViewSame ==
  ASSUME objs' = objs, \A i \in DOMAIN objs : Content(i)' = Content(i)
  PROVE  View' = View /\ \A i \in DOMAIN objs : Item(i)' = Item(i)
BY DEF View, Item, PathOf

LEMMA ViewAdds ==
  ASSUME Base, NEW x, Adds(x), \A i \in DOMAIN objs : Content(i)' = Content(i),
         nextId \notin DOMAIN localFiles'
  PROVE  /\ \A i \in DOMAIN objs : Item(i)' = Item(i)
         /\ View' = View \cup {ItemFor(x)}
         /\ DOMAIN objs' = DOMAIN objs \cup {nextId} /\ objs'[nextId] = x
         /\ \A i \in DOMAIN objs : objs'[i] = objs[i]
<1>1. PICK k : k = nextId
  OBVIOUS
<1>2. k \notin DOMAIN objs /\ IsStore(objs) /\ x \in Object
  BY <1>1, BaseFacts DEF Adds
<1>3. Fits(objs, k, x) /\ objs' = Put(objs, k, x)
  BY <1>1, AddFits DEF Adds, WithObject
<1>4. DOMAIN objs' = DOMAIN objs \cup {k} /\ objs'[k] = x /\ \A i \in DOMAIN objs : objs'[i] = objs[i]
  BY <1>2, <1>3 DEF Put
<1>5. /\ \A i \in DOMAIN objs : PathOf(i)' = PathOf(i)
      /\ PathOf(k)' = PathFor(x)
  BY <1>2, <1>3, StoreWithObject DEF PathOf, PathFor
<1>6. \A i \in DOMAIN objs : Item(i)' = Item(i)
  BY <1>4, <1>5 DEF Item
<1>7. Item(k)' = ItemFor(x)
  BY <1>1, <1>4, <1>5 DEF Item, ItemFor, Content
<1>8. View' = {Item(i)' : i \in DOMAIN objs'}
  BY DEF View, Item
<1>9. View' = View \cup {ItemFor(x)}
  BY <1>4, <1>6, <1>7, <1>8, ViewItems
<1> QED BY <1>1, <1>4, <1>6, <1>9

LEMMA ViewRemoves ==
  ASSUME Base, NEW n, Removes(n), Subtree(objs, n) = {n},
         \A i \in DOMAIN objs \ {n} : Content(i)' = Content(i)
  PROVE  /\ \A i \in DOMAIN objs \ {n} : Item(i)' = Item(i)
         /\ View' = {Item(i) : i \in DOMAIN objs \ {n}}
         /\ View = View' \cup {Item(n)}
         /\ DOMAIN objs' = DOMAIN objs \ {n}
         /\ \A i \in DOMAIN objs \ {n} : objs'[i] = objs[i]
<1>1. n \in DOMAIN objs /\ IsStore(objs) /\ objs' = Drop(objs, Subtree(objs, n))
  BY BaseFacts DEF Removes, WithoutObject
<1>2. DOMAIN objs' = DOMAIN objs \ {n}
  BY <1>1 DEF Drop
<1>3. \A i \in DOMAIN objs' : objs'[i] = objs[i] /\ PathOf(i)' = PathOf(i)
  <2> DEFINE u == Drop(objs, Subtree(objs, n))
  <2>1. \A i \in DOMAIN u : u[i] = objs[i] /\ PathIn(u, i) = PathIn(objs, i)
    BY <1>1, StoreWithoutObject
  <2>2. objs' = u
    BY <1>1
  <2> HIDE DEF u
  <2> QED BY <2>1, <2>2 DEF PathOf
<1>4. \A i \in DOMAIN objs \ {n} : Item(i)' = Item(i)
  BY <1>2, <1>3 DEF Item
<1>5. View' = {Item(i)' : i \in DOMAIN objs'}
  BY DEF View, Item
<1>6. View' = {Item(i) : i \in DOMAIN objs \ {n}}
  BY <1>2, <1>4, <1>5
<1>7. View = View' \cup {Item(n)}
  BY <1>1, <1>6, ViewItems
<1> QED BY <1>2, <1>3, <1>4, <1>6, <1>7

-----------------------------------------------------------------------------
(* Unmounting: what is missing on the device while a copy is sent is the   *)
(* file that is sent.                                                      *)
Closing(n) == << <<"closeFile", n, {}>>, <<"unmount">> >>
Sending(n, x) == << <<"sendFile", n, {}, x>>, <<"unmount">> >>

UnmountInv ==
  call.op = "unmount" /\ pre.coherent =>
    \/ reply.code # "ok" /\ todo = <<>> /\ ~pre.saved
    \/ /\ reply.code = "ok"
       /\ \A i \in DOMAIN localFiles : ~localFiles[i].broken /\ (pre.saved => ~localFiles[i].dirty)
       /\ \/ View = pre.view /\ todo = <<>> /\ DOMAIN localFiles = {}
          \/ View = pre.view /\ todo = << <<"unmount">> >>
          \/ View = pre.view /\ \E n \in DOMAIN localFiles : todo = Closing(n)
          \/ ~pre.saved /\ \E n \in DOMAIN localFiles, x \in Object :
                n \notin DOMAIN objs /\ todo = Sending(n, x) /\ View \cup {ItemFor(x)} = pre.view

LEMMA ShortConcat ==
  ASSUME NEW a, NEW b
  PROVE  /\ <<>> \o <<>> = <<>> /\ <<>> \o <<a>> = <<a>> /\ <<>> \o <<a, b>> = <<a, b>>
         /\ <<a>> \o <<>> = <<a>> /\ <<a, b>> \o <<>> = <<a, b>>
         /\ <<a>> \o <<b>> = <<a, b>>
         /\ Head(<<a>>) = a /\ Head(<<a, b>>) = a
         /\ Tail(<<a>>) = <<>> /\ Tail(<<a, b>>) = <<b>>
<1>1. /\ <<>> \o <<>> = <<>> /\ <<>> \o <<a>> = <<a>> /\ <<>> \o <<a, b>> = <<a, b>>
  OBVIOUS
<1>2. <<a>> \o <<>> = <<a>> /\ <<a, b>> \o <<>> = <<a, b>>
  OBVIOUS
<1>3. <<a>> \o <<b>> = <<a, b>>
  <2>1. a \in {a} /\ b \in {b}
    OBVIOUS
  <2> QED BY <2>1, PairIsConcat
<1>7. Head(<<a>>) = a /\ Head(<<a, b>>) = a
  OBVIOUS
<1>8. Tail(<<a>>) = <<>> /\ Tail(<<a, b>>) = <<b>>
  OBVIOUS
<1> QED BY <1>1, <1>2, <1>3, <1>7, <1>8

LEMMA UnmountKernel ==
  ASSUME Base, ReplyInv, call.op = "none", Kernel
  PROVE  UnmountInv'
<1> SUFFICES ASSUME call'.op = "unmount", pre'.coherent PROVE UnmountInv'
  BY DEF UnmountInv
<1>1. PICK c : /\ call' = c /\ todo' = Handler(c)
              /\ pre' = [view |-> View, coherent |-> Coherent, faults |-> faults,
                         saved |-> \A i \in DOMAIN localFiles : ~localFiles[i].dirty, owned |-> Owned]
              /\ UNCHANGED <<device, cache, localFiles, reply>>
  <2>1. \E op, path, new, off, byte, h : Begin(op, path, new, off, byte, h)
    BY DEF Kernel
  <2> QED BY <2>1 DEF Begin
<1>2. c.op = "unmount"
  BY <1>1
<1>3. todo' = << <<"unmount">> >>
  BY <1>1, <1>2 DEF Handler
<1>4. View' = View
  BY <1>1 DEF View, Content, PathOf, device
<1>5. pre'.view = View /\ pre'.coherent = Coherent
      /\ pre'.saved = (\A i \in DOMAIN localFiles : ~localFiles[i].dirty)
  BY <1>1
<1>6. Coherent
  BY <1>5
<1>7. reply'.code = "ok"
  BY <1>1 DEF ReplyInv, Okay
<1>8. \A i \in DOMAIN localFiles' : ~localFiles'[i].broken /\ (pre'.saved => ~localFiles'[i].dirty)
  BY <1>1, <1>5, <1>6 DEF Coherent
<1> QED BY <1>3, <1>4, <1>5, <1>7, <1>8 DEF UnmountInv

LEMMA UnmountStep ==
  ASSUME Base, UnmountInv, Step, ~Crash, call.op = "unmount", pre.coherent
  PROVE  UnmountInv'
<1>0. /\ todo # <<>> /\ Others /\ call' = call /\ pre' = pre /\ DeviceStep
      /\ TypeOK /\ Issued /\ CleanCopiesCurrent
  BY StepFrame, IsDeviceStep, BaseFacts DEF Next, Base, CopiesInv
<1> DEFINE Good == /\ reply.code = "ok"
                   /\ \A i \in DOMAIN localFiles : ~localFiles[i].broken /\ (pre.saved => ~localFiles[i].dirty)
<1>1. Good
  BY <1>0 DEF UnmountInv
<1>2. CASE View = pre.view /\ todo = << <<"unmount">> >>
  <2>1. At("unmount") /\ Tail(todo) = <<>>
    BY <1>2 DEF At
  <2>2. Unmount
    BY <2>1, WhichStep
  <2>3. View' = View
    BY <2>2 DEF Unmount, NoDeviceChange, Goto, View, Content, PathOf, device
  <2>4. Good'
    BY <1>0, <1>1, <2>2 DEF Unmount, Goto
  <2>5. \A s : s \o Tail(todo) = s \o <<>>
    BY <2>1
  <2>6. CASE DOMAIN localFiles = {} /\ Goto(<<>>, cache, localFiles)
    <3>1. todo' = <<>> /\ localFiles' = localFiles
      BY <2>5, <2>6 DEF Goto
    <3> QED BY <1>0, <1>2, <2>3, <2>4, <2>6, <3>1 DEF UnmountInv
  <2>7. ASSUME NEW n \in DOMAIN localFiles, Goto(Closing(n), cache, localFiles)
        PROVE  UnmountInv'
    <3>1. todo' = Closing(n) \o <<>> /\ localFiles' = localFiles
      BY <2>5, <2>7 DEF Goto
    <3>2. Closing(n) \o <<>> = Closing(n)
      BY ShortConcat DEF Closing
    <3>3. todo' = Closing(n)
      BY <3>1, <3>2
    <3> QED BY <1>0, <1>2, <2>3, <2>4, <3>1, <3>3 DEF UnmountInv
  <2> QED BY <2>2, <2>6, <2>7 DEF Unmount, Closing
<1>3. ASSUME View = pre.view, NEW n \in DOMAIN localFiles, todo = Closing(n)
      PROVE  UnmountInv'
  <2>1. /\ At("closeFile") /\ Tail(todo) = << <<"unmount">> >>
        /\ Arg(2) = n /\ Arg(3) = {}
    BY <1>3 DEF At, Arg, Closing
  <2>2. CASE CloseFile
    <3>1. ~localFiles[n].dirty /\ UNCHANGED device /\ localFiles' = Drop(localFiles, {n})
          /\ reply' = reply /\ todo' = <<>> \o Tail(todo)
      BY <2>1, <2>2 DEF CloseFile, NoDeviceChange, Goto
    <3>2. todo' = << <<"unmount">> >>
      BY <2>1, <3>1
    <3>3. DOMAIN localFiles' = DOMAIN localFiles \ {n} /\ \A i \in DOMAIN localFiles' : localFiles'[i] = localFiles[i]
      BY <3>1 DEF Drop
    <3>4. objs' = objs /\ \A i \in DOMAIN objs : Content(i)' = Content(i)
      <4>1. n \in DOMAIN objs => localFiles[n].data = objs[n].data
        BY <1>0, <1>1, <3>1 DEF CleanCopiesCurrent
      <4> QED BY <3>1, <3>3, <4>1 DEF Content, device
    <3>5. View' = View
      BY <3>4, ViewSame
    <3> QED BY <1>0, <1>1, <1>3, <3>1, <3>2, <3>3, <3>5 DEF UnmountInv
  <2>3. CASE DeleteOld
    <3>1. localFiles[n].dirty /\ ~pre.saved
      BY <1>1, <2>1, <2>3 DEF DeleteOld
    <3>2. CASE Throw("EIO", cache, Broken(n))
      BY <1>0, <3>1, <3>2 DEF Throw, UnmountInv
    <3>9. PICK x : x = [objs[n] EXCEPT !.data = localFiles[n].data]
      OBVIOUS
    <3> DEFINE files == [localFiles EXCEPT ![n].dirty = FALSE]
    <3>3. CASE /\ n \in DOMAIN objs /\ objs' = WithoutObject(n) /\ nextId' = nextId
               /\ Goto(<< <<"sendFile", n, {}, x>> >>, cache, files)
      <4>1. objs[n].file = TRUE /\ objs[n] \in Object /\ localFiles[n] \in Copy /\ IsStore(objs)
        BY <3>3, CopiedIsFile, BaseFacts
      <4>2. /\ x \in Object /\ x.file = TRUE /\ x.data = localFiles[n].data /\ x.parent = objs[n].parent
            /\ x.storage = objs[n].storage /\ x.name = objs[n].name
        BY <3>9, <4>1 DEF Object, Copy
      <4>3. Removes(n) /\ Subtree(objs, n) = {n}
        BY <3>3, <4>1, NothingInAFile DEF Removes
      <4>4. /\ DOMAIN files = DOMAIN localFiles /\ \A i \in DOMAIN files : i # n => files[i] = localFiles[i]
            /\ \A i \in DOMAIN files : files[i].broken = localFiles[i].broken /\ files[i].data = localFiles[i].data
        BY <1>0, <4>1 DEF Copy, TypeOK, IsMap
      <4> HIDE DEF files
      <4>5. localFiles' = files /\ reply' = reply /\ todo' = << <<"sendFile", n, {}, x>> >> \o Tail(todo)
        BY <3>3 DEF Goto
      <4>6. todo' = Sending(n, x)
        <5>1. PICK a : a = <<"sendFile", n, {}, x>>
          OBVIOUS
        <5>2. todo' = <<a>> \o << <<"unmount">> >>
          BY <2>1, <4>5, <5>1
        <5> QED BY <5>1, <5>2, ShortConcat DEF Sending
      <4>7. n \notin DOMAIN objs' /\ \A i \in DOMAIN objs \ {n} : Content(i)' = Content(i)
        <5>1. DOMAIN objs' = DOMAIN objs \ {n} /\ \A i \in DOMAIN objs \ {n} : objs'[i] = objs[i]
          BY <4>3, <3>3 DEF WithoutObject, Drop
        <5> QED BY <4>4, <4>5, <5>1 DEF Content
      <4>8. View = View' \cup {Item(n)} /\ \A i \in DOMAIN objs \ {n} : Item(i)' = Item(i)
        BY <4>3, <4>7, ViewRemoves
      <4>9. ItemFor(x)' = Item(n)
        <5>1. PathFor(x)' = PathOf(n)
          <6>1. x.parent = 0 => PathOf(n) = <<x.storage, x.name>>
            <7>1. objs[n].parent = 0 => PathIn(objs, n) = <<objs[n].storage, objs[n].name>>
              BY <3>3, <4>1, PathStep
            <7> QED BY <4>2, <7>1 DEF PathOf
          <6>2. x.parent # 0 => /\ PathOf(n) = Append(PathOf(x.parent), x.name)
                                /\ x.parent \in DOMAIN objs /\ x.parent # n
            <7>1. x.parent # 0 => x.parent \in DOMAIN objs /\ ~objs[x.parent].file
              BY <3>3, <4>1, <4>2, StoreFields
            <7> QED BY <3>3, <4>1, <4>2, <7>1, PathStep DEF PathOf
          <6>3. x.parent # 0 => PathOf(x.parent)' = PathOf(x.parent)
            <7> SUFFICES ASSUME x.parent # 0 PROVE PathOf(x.parent)' = PathOf(x.parent)
              OBVIOUS
            <7>1. PICK p : p = x.parent
              OBVIOUS
            <7>2. Item(p)' = Item(p)
              BY <4>8, <6>2, <7>1
            <7>3. PathOf(p)' = PathOf(p)
              BY <7>2 DEF Item
            <7> QED BY <7>1, <7>3
          <6> QED BY <6>1, <6>2, <6>3 DEF PathFor
        <5>2. Content(n) = x.data
          BY <1>1, <4>2 DEF Content
        <5> QED BY <4>1, <4>2, <5>1, <5>2 DEF ItemFor, Item
      <4> QED BY <1>0, <1>1, <1>3, <3>1, <4>2, <4>4, <4>5, <4>6, <4>7, <4>8, <4>9 DEF UnmountInv
    <3> QED BY <2>1, <2>3, <3>2, <3>3, <3>9 DEF DeleteOld, DeviceCall
  <2> QED BY <2>1, <2>2, <2>3, WhichStep
<1>4. ASSUME ~pre.saved, NEW n \in DOMAIN localFiles, NEW x \in Object, n \notin DOMAIN objs,
             todo = Sending(n, x), View \cup {ItemFor(x)} = pre.view
      PROVE  UnmountInv'
  <2>1. /\ At("sendFile") /\ Tail(todo) = << <<"unmount">> >>
        /\ Arg(2) = n /\ Arg(3) = {} /\ Arg(4) = x
    BY <1>4 DEF At, Arg, Sending
  <2>2. SendFile
    BY <2>1, WhichStep
  <2>3. CASE Throw("EIO", cache, Broken(n))
    BY <1>0, <1>4, <2>3 DEF Throw, UnmountInv
  <2>4. CASE /\ MayAdd(x) /\ objs' = WithObject(x) /\ nextId' = nextId + 1
             /\ todo' = Renumber(Tail(todo), n, nextId)
             /\ localFiles' = Drop(localFiles, {n}) /\ reply' = reply
    <3>1. Adds(x)
      <4>1. x.file
        BY <2>1, <2>2, TrueArguments DEF SendFile, TrueStep, Arg
      <4> QED BY <2>4, <4>1 DEF Adds
    <3>2. DOMAIN localFiles' = DOMAIN localFiles \ {n} /\ \A i \in DOMAIN localFiles' : localFiles'[i] = localFiles[i]
      BY <2>4 DEF Drop
    <3>3. DOMAIN objs \subseteq DOMAIN objs' /\ \A i \in DOMAIN objs : objs'[i] = objs[i]
      BY <2>4, BaseFacts DEF WithObject, Put
    <3>4. \A i \in DOMAIN objs : Content(i)' = Content(i)
      BY <1>4, <3>2, <3>3 DEF Content
    <3>5. View' = View \cup {ItemFor(x)}
      BY <3>1, <3>2, <3>4, ViewAdds, BaseFacts
    <3>6. todo' = << <<"unmount">> >>
      <4>1. DOMAIN << <<"unmount">> >> = {1} /\ << <<"unmount">> >>[1][1] # "copyTo"
        OBVIOUS
      <4>2. todo' = [k \in {1} |-> << <<"unmount">> >>[k]]
        BY <2>1, <2>4, <4>1 DEF Renumber
      <4>3. [k \in {1} |-> << <<"unmount">> >>[k]] = << <<"unmount">> >>
        BY <4>1
      <4> QED BY <4>2, <4>3
    <3> QED BY <1>0, <1>1, <1>4, <2>4, <3>2, <3>5, <3>6 DEF UnmountInv
  <2> QED BY <2>1, <2>2, <2>3, <2>4 DEF SendFile, DeviceCall
<1> QED BY <1>0, <1>2, <1>3, <1>4 DEF UnmountInv

LEMMA NextUnmount ==
  ASSUME Base, ReplyInv, UnmountInv, [Next]_vars
  PROVE  UnmountInv'
<1>1. CASE UNCHANGED vars
  <2>1. objs' = objs /\ localFiles' = localFiles /\ todo' = todo /\ reply' = reply /\ pre' = pre /\ call' = call
    BY <1>1 DEF vars, device, process
  <2>2. View' = View /\ \A x : ItemFor(x)' = ItemFor(x)
    BY <2>1 DEF View, Content, PathOf, ItemFor, PathFor
  <2> QED BY <2>1, <2>2 DEF UnmountInv
<1>2. CASE call'.op = "none"
  BY <1>2 DEF UnmountInv
<1>3. CASE call.op = "none" /\ Kernel
  BY <1>3, UnmountKernel
<1>4. CASE Step /\ ~Crash /\ call' = call /\ pre' = pre
  BY <1>4, UnmountStep DEF UnmountInv
<1> QED BY <1>1, <1>2, <1>3, <1>4, CallFrame

LEMMA InitCall == ASSUME Init PROVE ReplyInv /\ UnmountInv
<1>1. call.op = "none" /\ todo = <<>> /\ reply = Okay
  BY DEF Init, NoCall
<1> QED BY <1>1 DEF ReplyInv, UnmountInv

LEMMA UnmountedIsSaved == ASSUME UnmountInv PROVE UnmountSaves
<1> SUFFICES ASSUME Done, call.op = "unmount", pre.coherent, reply.code = "ok" \/ pre.saved
             PROVE  Saved = pre.view
  BY DEF UnmountSaves
<1>1. todo = <<>> /\ ((View = pre.view /\ DOMAIN localFiles = {}) \/ todo # <<>>)
  BY DEF UnmountInv, Done, Closing, Sending
<1> QED BY <1>1 DEF View, Saved, Content

(* Unmounting sends every change that waits in a local copy, in whatever   *)
(* order the copies are destroyed, and changes nothing when none waits.    *)
THEOREM UnmountKeepsAll == Spec => []UnmountSaves
<1> DEFINE IInv == Base /\ ReplyInv /\ UnmountInv
<1>1. Init => IInv
  BY InitBase, InitCall
<1>2. IInv /\ [Next]_vars => IInv'
  BY NextBase, NextReply, NextUnmount
<1>3. IInv => UnmountSaves
  BY UnmountedIsSaved
<1> QED BY <1>1, <1>2, <1>3, PTL DEF Spec

-----------------------------------------------------------------------------
(* Paths and nodes.                                                        *)
NodePath(n)     == IF n \in Storages THEN <<n>> ELSE PathOf(n)
ParentNode(i)   == IF objs[i].parent = 0 THEN objs[i].storage ELSE objs[i].parent
IsFolderNode(n) == n \in Storages \/ (n \in DOMAIN objs /\ ~objs[n].file)

LEMMA AncestorAt ==
  ASSUME NEW o, IsStore(o), NEW i \in DOMAIN o, NEW q \in Seq(PathElem), Len(q) > 1,
         IsPrefix(q, PathIn(o, i))
  PROVE  \E j \in DOMAIN o : PathIn(o, j) = q /\ i \in Subtree(o, j)
<1> DEFINE Has(x) == \E j \in DOMAIN o : PathIn(o, j) = q /\ x \in Subtree(o, j)
           S == {x \in DOMAIN o : IsPrefix(q, PathIn(o, x)) /\ ~Has(x)}
<1> SUFFICES ASSUME S # {} PROVE FALSE
  OBVIOUS
<1>1. PICK x \in S : o[x].parent \notin S
  <2>1. S \in SUBSET DOMAIN o
    OBVIOUS
  <2> HIDE DEF S
  <2> QED BY <2>1 DEF IsStore, IsTree
<1>2. x \in DOMAIN o /\ IsPrefix(q, PathIn(o, x)) /\ ~Has(x)
  BY <1>1
<1>3. PathIn(o, x) # q
  BY <1>2, BelowStep
<1>4. PathIn(o, x) \in Seq(PathElem) /\ Len(PathIn(o, x)) > 1
  BY <1>2, PathLen
<1>5. o[x].parent # 0
  <2> SUFFICES ASSUME o[x].parent = 0 PROVE FALSE
    OBVIOUS
  <2>1. PathIn(o, x) = <<o[x].storage, o[x].name>>
    BY <1>2, PathStep
  <2>2. Len(PathIn(o, x)) = 2 /\ Len(q) \in Nat
    BY <2>1, LenProperties
  <2>3. Len(q) <= Len(PathIn(o, x)) /\ \A k \in 1 .. Len(q) : q[k] = PathIn(o, x)[k]
    BY <1>2, <1>4, PrefixPointwise
  <2>4. Len(q) = Len(PathIn(o, x))
    <3>1. PICK l \in Nat : l = Len(q) /\ l <= 2
      BY <2>2, <2>3
    <3>2. l > 1
      BY <3>1
    <3>3. l = 2
      BY <3>1, <3>2
    <3> QED BY <2>2, <3>1, <3>3
  <2>5. q = PathIn(o, x)
    BY <1>4, <2>3, <2>4, SeqEqual
  <2> QED BY <1>3, <2>5
<1>6. /\ o[x].parent \in DOMAIN o /\ PathIn(o, x) = Append(PathIn(o, o[x].parent), o[x].name)
      /\ o[x].name \in PathElem
  BY <1>2, <1>5, StoreFields, PathStep DEF IsStore, IsMap, Object, PathElem
<1>7. IsPrefix(q, PathIn(o, o[x].parent))
  BY <1>2, <1>3, <1>6, PathLen, PrefixAppend
<1>8. PICK j \in DOMAIN o : PathIn(o, j) = q /\ o[x].parent \in Subtree(o, j)
  BY <1>1, <1>6, <1>7
<1>9. x \in Subtree(o, j)
  BY <1>2, <1>5, <1>8, BelowStep
<1> QED BY <1>2, <1>8, <1>9

LEMMA NodePathType ==
  ASSUME Base, NEW n, Live(n)
  PROVE  /\ NodePath(n) \in Seq(PathElem) /\ NodePath(n) # <<>> /\ Len(NodePath(n)) \in Nat
         /\ n \in Storages => n \notin DOMAIN objs /\ NodePath(n) = <<n>> /\ Len(NodePath(n)) = 1
         /\ n \in DOMAIN objs => n \notin Storages /\ NodePath(n) = PathOf(n) /\ Len(NodePath(n)) > 1
<1>1. IsStore(objs) /\ \A i \in DOMAIN objs : i \in ObjIds
  BY BaseFacts DEF IsStore, IsMap
<1>2. \A i \in DOMAIN objs : i \notin Storages
  BY <1>1, DeviceAssumption
<1>3. CASE n \in Storages
  BY <1>2, <1>3 DEF NodePath, PathElem
<1>4. CASE n \in DOMAIN objs
  <2>1. NodePath(n) = PathIn(objs, n)
    BY <1>2, <1>4 DEF NodePath, PathOf
  <2>2. PathIn(objs, n) \in Seq(PathElem) /\ Len(PathIn(objs, n)) \in Nat /\ Len(PathIn(objs, n)) > 1
    BY <1>1, <1>4, PathLen
  <2> HIDE DEF PathIn
  <2>3. PathIn(objs, n) # <<>>
    BY <2>2, EmptySeq
  <2> QED BY <1>2, <1>4, <2>1, <2>2, <2>3 DEF PathOf
<1> QED BY <1>3, <1>4 DEF Live

LEMMA ChildPath ==
  ASSUME Base, NEW i \in DOMAIN objs
  PROVE  /\ IsFolderNode(ParentNode(i)) /\ Live(ParentNode(i))
         /\ NodePath(i) = Append(NodePath(ParentNode(i)), objs[i].name)
         /\ objs[i].name \in Names /\ objs[i].name \in PathElem
<1>1. IsStore(objs) /\ objs[i].storage \in Storages /\ objs[i].name \in Names
  BY BaseFacts, ObjectFields
<1>2. i \notin Storages /\ NodePath(i) = PathIn(objs, i)
  BY NodePathType DEF Live, PathOf
<1>3. CASE objs[i].parent = 0
  <2>1. PathIn(objs, i) = <<objs[i].storage, objs[i].name>> /\ ParentNode(i) = objs[i].storage
    BY <1>1, <1>3, PathStep DEF ParentNode
  <2>2. NodePath(ParentNode(i)) = <<objs[i].storage>>
    BY <1>1, <2>1 DEF NodePath
  <2>3. Append(<<objs[i].storage>>, objs[i].name) = <<objs[i].storage, objs[i].name>>
    <3>1. PICK a, b : a = objs[i].storage /\ b = objs[i].name
      OBVIOUS
    <3>2. a \in {a, b} /\ b \in {a, b} /\ <<a>> \in Seq({a, b})
      OBVIOUS
    <3>3. Append(<<a>>, b) = <<a>> \o <<b>> /\ <<a>> \o <<b>> = <<a, b>>
      BY <3>2, AppendIsConcat, PairIsConcat
    <3> QED BY <3>1, <3>3
  <2> QED BY <1>1, <1>2, <2>1, <2>2, <2>3 DEF IsFolderNode, Live, PathElem
<1>4. CASE objs[i].parent # 0
  <2>1. /\ objs[i].parent \in DOMAIN objs /\ ~objs[objs[i].parent].file
        /\ PathIn(objs, i) = Append(PathIn(objs, objs[i].parent), objs[i].name)
        /\ ParentNode(i) = objs[i].parent
    BY <1>1, <1>4, StoreFields, PathStep DEF ParentNode
  <2>2. NodePath(ParentNode(i)) = PathIn(objs, objs[i].parent)
    BY <2>1, NodePathType DEF PathOf, Live
  <2> QED BY <1>1, <1>2, <2>1, <2>2 DEF IsFolderNode, Live, PathElem
<1> QED BY <1>3, <1>4

LEMMA FolderHolds ==
  ASSUME Base, NEW dir, IsFolderNode(dir)
  PROVE  getMetadata(dir).children =
           {[id |-> i, name |-> objs[i].name, file |-> objs[i].file] : i \in {k \in DOMAIN objs : ParentNode(k) = dir}}
<1>1. IsStore(objs) /\ \A i \in DOMAIN objs : objs[i].storage \in Storages
  BY BaseFacts, ObjectFields
<1>2. CASE dir \in Storages
  <2>1. dir \notin DOMAIN objs
    BY <1>2, NodePathType DEF Live
  <2>2. {k \in DOMAIN objs : ParentNode(k) = dir} = Inside(0, dir)
    BY <1>1, <2>1, StoreFields DEF ParentNode, Inside
  <2>3. getMetadata(dir).children = GetFolderContents(dir, 0)
    BY <1>2 DEF getMetadata
  <2> QED BY <2>2, <2>3 DEF GetFolderContents
<1>3. CASE dir \in DOMAIN objs /\ ~objs[dir].file
  <2>1. dir \notin Storages /\ dir # 0
    BY <1>1, <1>3, NodePathType, StoreFields DEF Live
  <2>2. {k \in DOMAIN objs : ParentNode(k) = dir} = Inside(dir, objs[dir].storage)
    BY <1>1, <2>1, StoreFields DEF ParentNode, Inside
  <2>3. getMetadata(dir).children = GetFolderContents(objs[dir].storage, dir)
    BY <1>3, <2>1 DEF getMetadata
  <2> QED BY <2>2, <2>3 DEF GetFolderContents
<1> QED BY <1>2, <1>3 DEF IsFolderNode

LEMMA NodesUnique ==
  ASSUME Base, NoTwins(objs), NEW m, Live(m), NEW n, Live(n), NodePath(m) = NodePath(n)
  PROVE  m = n
<1>1. CASE m \in Storages /\ n \in Storages
  BY <1>1, NodePathType
<1>2. CASE m \in DOMAIN objs /\ n \in DOMAIN objs
  BY <1>2, NodePathType, PathsUnique, BaseFacts DEF PathOf
<1>3. ASSUME NEW a, NEW b, Live(a), Live(b), a \in Storages, b \in DOMAIN objs, NodePath(a) = NodePath(b)
      PROVE  FALSE
  <2>1. Len(NodePath(a)) = 1 /\ Len(NodePath(b)) > 1
    BY <1>3, NodePathType
  <2>2. PICK k : k = Len(NodePath(a))
    OBVIOUS
  <2>3. k = 1 /\ k > 1
    BY <1>3, <2>1, <2>2
  <2> QED BY <2>3
<1> QED BY <1>1, <1>2, <1>3 DEF Live


LEMMA HeadToFront ==
  ASSUME NEW U, NEW s \in Seq(U), NEW t \in Seq(U), t # <<>>
  PROVE  /\ Append(s, Head(t)) \o Tail(t) = s \o t
         /\ Tail(t) = <<>> => Append(s, Head(t)) = s \o t
         /\ Head(t) \in U /\ Tail(t) \in Seq(U)
         /\ Len(t) = 1 <=> Tail(t) = <<>>
<1>1. /\ Head(t) \in U /\ Tail(t) \in Seq(U) /\ Len(Tail(t)) = Len(t) - 1 /\ Len(t) \in Nat /\ Len(t) # 0
      /\ \A i \in 1 .. Len(Tail(t)) : Tail(t)[i] = t[i + 1]
  BY HeadTailProperties, LenProperties, EmptySeq
<1>2. Len(s) \in Nat /\ Head(t) = t[1]
  BY LenProperties
<1> DEFINE a == Append(s, Head(t))
           u == a \o Tail(t)
           v == s \o t
<1>3. /\ a \in Seq(U) /\ Len(a) = Len(s) + 1
      /\ \A i \in 1 .. Len(s) : a[i] = s[i]
      /\ a[Len(s) + 1] = Head(t)
  BY <1>1, AppendProperties
<1> HIDE DEF a
<1>4. /\ u \in Seq(U) /\ Len(u) = Len(a) + Len(Tail(t))
      /\ \A i \in 1 .. Len(a) + Len(Tail(t)) : u[i] = IF i <= Len(a) THEN a[i] ELSE Tail(t)[i - Len(a)]
  BY <1>1, <1>3, ConcatProperties
<1>5. /\ v \in Seq(U) /\ Len(v) = Len(s) + Len(t)
      /\ \A i \in 1 .. Len(s) + Len(t) : v[i] = IF i <= Len(s) THEN s[i] ELSE t[i - Len(s)]
  BY ConcatProperties
<1> HIDE DEF u, v
<1>6. PICK m \in Nat, n \in Nat : m = Len(s) /\ n = Len(t) /\ n # 0
  BY <1>1, <1>2
<1>7. Len(a) = m + 1 /\ Len(Tail(t)) = n - 1 /\ Len(u) = m + n /\ Len(v) = m + n
  BY <1>1, <1>3, <1>4, <1>5, <1>6
<1>8. ASSUME NEW i \in 1 .. m + n PROVE u[i] = v[i]
  <2>0. /\ i <= m => u[i] = a[i] /\ v[i] = s[i] /\ a[i] = s[i]
        /\ i > m => v[i] = t[i - m]
        /\ i = m + 1 => u[i] = a[m + 1]
        /\ i > m + 1 => u[i] = Tail(t)[i - (m + 1)]
    <3>1. \A j \in 1 .. m + n : u[j] = IF j <= m + 1 THEN a[j] ELSE Tail(t)[j - (m + 1)]
      <4>1. (m + 1) + (n - 1) = m + n
        BY <1>6
      <4> QED BY <1>4, <1>7, <4>1
    <3>2. \A j \in 1 .. m + n : v[j] = IF j <= m THEN s[j] ELSE t[j - m]
      BY <1>5, <1>6
    <3>3. \A j \in 1 .. m : a[j] = s[j]
      BY <1>3, <1>6
    <3>4. /\ i <= m => i <= m + 1 /\ i \in 1 .. m
          /\ i > m => ~(i <= m)
          /\ i = m + 1 => i <= m + 1
          /\ i > m + 1 => ~(i <= m + 1)
      BY <1>6
    <3> HIDE <1>6, <1>7
    <3> QED BY <3>1, <3>2, <3>3, <3>4
  <2>1. CASE i <= m
    BY <2>0, <2>1
  <2>2. CASE i = m + 1
    <3>0. i > m /\ i - m = 1
      BY <1>6, <2>2
    <3>1. u[i] = Head(t)
      BY <1>3, <1>6, <2>0, <2>2
    <3>2. v[i] = t[1]
      BY <2>0, <3>0
    <3> QED BY <1>2, <3>1, <3>2
  <2>3. CASE i > m + 1
    <3>1. i - (m + 1) \in 1 .. n - 1 /\ i - (m + 1) + 1 = i - m
      BY <1>6, <2>3
    <3>2. i > m
      BY <1>6, <2>3
    <3>3. Tail(t)[i - (m + 1)] = t[i - m]
      BY <1>1, <1>7, <3>1
    <3> QED BY <2>0, <2>3, <3>2, <3>3
  <2> QED BY <2>1, <2>2, <2>3
<1>9. u = v
  BY <1>4, <1>5, <1>7, <1>8, SeqEqual
<1>10. Tail(t) = <<>> => a = v
  BY <1>3, <1>9, ConcatEmptySeq DEF u
<1>11. Len(t) = 1 <=> Tail(t) = <<>>
  <2>1. Len(Tail(t)) = 0 <=> Tail(t) = <<>>
    BY <1>1, EmptySeq
  <2> QED BY <1>6, <1>7, <2>1
<1> QED BY <1>1, <1>9, <1>10, <1>11 DEF u, v, a

LEMMA PrefixConcat ==
  ASSUME NEW U, NEW s \in Seq(U), NEW t \in Seq(U)
  PROVE  /\ IsPrefix(s, s \o t) /\ s \o t \in Seq(U) /\ Len(s \o t) = Len(s) + Len(t)
         /\ Len(s) \in Nat /\ Len(t) \in Nat
<1>1. /\ s \o t \in Seq(U) /\ Len(s \o t) = Len(s) + Len(t)
      /\ \A i \in 1 .. Len(s) + Len(t) : (s \o t)[i] = IF i <= Len(s) THEN s[i] ELSE t[i - Len(s)]
      /\ Len(s) \in Nat /\ Len(t) \in Nat
  BY ConcatProperties, LenProperties
<1>2. Len(s) <= Len(s \o t) /\ \A k \in 1 .. Len(s) : s[k] = (s \o t)[k]
  BY <1>1
<1> QED BY <1>1, <1>2, PrefixPointwise

-----------------------------------------------------------------------------
(* What the cache tells of the nodes that are on the device is right, K    *)
(* apart.                                                                  *)
Tells(c, K)  == \A n \in DOMAIN c \ K : Live(n) => c[n] = getMetadata(n)
Whole(files) == \A i \in DOMAIN files : ~files[i].broken

LEMMA CoherentIs == ASSUME Base PROVE Coherent <=> Tells(cache, {}) /\ Whole(localFiles)
BY DEF Base, CopiesInv, CleanCopiesCurrent, Coherent, Tells, Whole

LEMMA ItemTells ==
  ASSUME NEW K, Tells(cache, K), NEW n, n \notin K, Live(n), NEW r \in getItem(n)
  PROVE  /\ r.md = getMetadata(n) /\ Tells(r.cache, K) /\ DOMAIN r.cache = DOMAIN cache \cup {n}
<1>1. CASE n \in DOMAIN cache /\ r = [md |-> cache[n], cache |-> cache]
  BY <1>1 DEF Tells
<1>2. CASE r = [md |-> getMetadata(n), cache |-> Put(cache, n, getMetadata(n))]
  <2>1. PICK md : md = getMetadata(n)
    OBVIOUS
  <2>2. r.md = md /\ r.cache = Put(cache, n, md)
    BY <1>2, <2>1
  <2> QED BY <2>1, <2>2 DEF Put, Tells
<1> QED BY <1>1, <1>2 DEF getItem

LEMMA TellsLess ==
  ASSUME NEW c, NEW K, Tells(c, K)
  PROVE  /\ \A L : Tells(Drop(c, L), K) /\ Tells(Drop(c, L), K \ L)
         /\ \A L : K \subseteq L => Tells(c, L)
BY DEF Tells, Drop

-----------------------------------------------------------------------------
(* Walking down a path.                                                    *)
Walking(dir, rest, p) == IsFolderNode(dir) /\ rest \in Seq(Names) /\ NodePath(dir) \o rest = p
FoundAt(node, p) ==
  /\ node \in Node /\ Live(node.id) /\ node.file = (node.id \in DOMAIN objs /\ objs[node.id].file)
  /\ IsPrefix(NodePath(node.id), p) /\ (~node.file => NodePath(node.id) = p)
Missing(p) == \A i \in DOMAIN objs : ~IsPrefix(p, PathOf(i))

LEMMA WalkStart ==
  ASSUME Base, NEW p \in Path, p # <<>>
  PROVE  Walking(Head(p), Tail(p), p)
<1>1. Head(p) \in Storages /\ Tail(p) \in Seq(Names) /\ p \in Seq(PathElem)
  BY PathParts DEF Path, PathElem
<1>2. NodePath(Head(p)) = <<Head(p)>>
  BY <1>1 DEF NodePath
<1>3. <<Head(p)>> \o Tail(p) = p
  <2>1. <<>> \in Seq(PathElem) /\ Append(<<>>, Head(p)) = <<Head(p)>>
    BY EmptySeq
  <2>2. <<>> \o p = p
    BY <1>1, ConcatEmptySeq
  <2> QED BY <1>1, <2>1, <2>2, HeadToFront
<1> QED BY <1>1, <1>2, <1>3 DEF Walking, IsFolderNode

LEMMA WalkEnds ==
  ASSUME Base, NEW dir, NEW p, Walking(dir, <<>>, p), dir \in Storages
  PROVE  FoundAt([id |-> dir, file |-> FALSE], p)
<1>1. NodePath(dir) \in Seq(PathElem) /\ Live(dir) /\ dir \notin DOMAIN objs
  BY NodePathType DEF Live
<1>2. NodePath(dir) = p
  BY <1>1, ConcatEmptySeq DEF Walking
<1>3. IsPrefix(p, p)
  BY <1>1, <1>2, PrefixSelf
<1> QED BY <1>1, <1>2, <1>3 DEF FoundAt, Node, NodeIds

LEMMA WalkOn ==
  ASSUME Base, NEW dir, NEW rest, NEW p, Walking(dir, rest, p), rest # <<>>,
         NEW e \in getMetadata(dir).children, e.name = Head(rest)
  PROVE  /\ e.id \in DOMAIN objs /\ e.file = objs[e.id].file
         /\ Walking(e.id, Tail(rest), p) \/ e.file
         /\ e.file \/ Len(rest) = 1 => FoundAt([id |-> e.id, file |-> e.file], p)
<1>1. PICK i \in DOMAIN objs : e = [id |-> i, name |-> objs[i].name, file |-> objs[i].file] /\ ParentNode(i) = dir
  BY FolderHolds DEF Walking
<1>2. rest \in Seq(PathElem) /\ Tail(rest) \in Seq(Names) /\ NodePath(dir) \in Seq(PathElem)
  <2>1. rest \in Seq(Names) /\ Names \subseteq PathElem
    BY DEF Walking, PathElem
  <2>2. rest \in Seq(PathElem) /\ Tail(rest) \in Seq(Names)
    BY <2>1, SeqMonotonic, HeadTailProperties
  <2>3. Live(dir)
    BY DEF Walking, IsFolderNode, Live
  <2> QED BY <2>2, <2>3, NodePathType
<1>3. NodePath(i) = Append(NodePath(dir), Head(rest))
  BY <1>1, ChildPath
<1>4. NodePath(i) \o Tail(rest) = p /\ (Len(rest) = 1 => NodePath(i) = p)
  BY <1>2, <1>3, HeadToFront DEF Walking
<1>5. i \in NodeIds /\ Live(i) /\ NodePath(i) \in Seq(PathElem) /\ Tail(rest) \in Seq(PathElem)
      /\ objs[i].file \in BOOLEAN
  BY <1>2, BaseFacts, ObjectFields, NodePathType, HeadToFront DEF Live, NodeIds
<1>6. IsPrefix(NodePath(i), p)
  BY <1>4, <1>5, PrefixConcat
<1>7. e.file \/ Len(rest) = 1 => FoundAt([id |-> i, file |-> objs[i].file], p)
  <2> HAVE e.file \/ Len(rest) = 1
  <2>1. ~objs[i].file => NodePath(i) = p
    BY <1>1, <1>4
  <2> QED BY <1>5, <1>6, <2>1 DEF FoundAt, Node
<1>8. ~objs[i].file => Walking(i, Tail(rest), p)
  BY <1>2, <1>4 DEF Walking, IsFolderNode
<1> QED BY <1>1, <1>7, <1>8

LEMMA WalkFails ==
  ASSUME Base, NoTwins(objs), NEW dir, NEW rest, NEW p, Walking(dir, rest, p), rest # <<>>,
         \A e \in getMetadata(dir).children : e.name # Head(rest)
  PROVE  Missing(p) /\ Len(p) > 1
<1>0. Live(dir) /\ IsStore(objs)
  BY BaseFacts DEF Walking, IsFolderNode, Live
<1>1. rest \in Seq(PathElem) /\ NodePath(dir) \in Seq(PathElem) /\ Len(NodePath(dir)) \in Nat \ {0}
  <2>1. rest \in Seq(Names) /\ Names \subseteq PathElem
    BY DEF Walking, PathElem
  <2>2. NodePath(dir) \in Seq(PathElem) /\ NodePath(dir) # <<>>
    BY <1>0, NodePathType
  <2> QED BY <2>1, <2>2, SeqMonotonic, EmptySeq
<1> DEFINE q == Append(NodePath(dir), Head(rest))
<1>2. q \o Tail(rest) = p /\ Head(rest) \in PathElem /\ Tail(rest) \in Seq(PathElem)
  <2>1. NodePath(dir) \o rest = p /\ rest # <<>>
    BY DEF Walking
  <2>2. PICK u : u = NodePath(dir)
    OBVIOUS
  <2>3. u \in Seq(PathElem) /\ u \o rest = p
    BY <1>1, <2>1, <2>2
  <2>4. Append(u, Head(rest)) \o Tail(rest) = u \o rest /\ Head(rest) \in PathElem /\ Tail(rest) \in Seq(PathElem)
    BY <1>1, <2>1, <2>3, HeadToFront
  <2> QED BY <2>2, <2>3, <2>4
<1>3. q \in Seq(PathElem) /\ Len(q) > 1
  BY <1>1, <1>2, AppendProperties
<1> HIDE DEF q
<1>4. IsPrefix(q, p) /\ p \in Seq(PathElem) /\ Len(p) > 1
  <2>1. IsPrefix(q, p) /\ p \in Seq(PathElem) /\ Len(p) = Len(q) + Len(Tail(rest)) /\ Len(Tail(rest)) \in Nat /\ Len(q) \in Nat
    BY <1>2, <1>3, PrefixConcat
  <2>2. PICK k \in Nat, l \in Nat : k = Len(q) /\ l = Len(Tail(rest))
    BY <2>1
  <2>3. k + l > 1
    BY <1>3, <2>2
  <2> QED BY <2>1, <2>2, <2>3
<1>5. ASSUME NEW i \in DOMAIN objs, IsPrefix(p, PathOf(i)) PROVE FALSE
  <2>1. PathOf(i) = PathIn(objs, i) /\ PathIn(objs, i) \in Seq(PathElem)
    BY <1>0, PathLen DEF PathOf
  <2>2. IsPrefix(q, PathIn(objs, i))
    BY <1>3, <1>4, <1>5, <2>1, PrefixTrans
  <2>3. PICK j \in DOMAIN objs : PathIn(objs, j) = q
    BY <1>0, <1>3, <2>2, AncestorAt
  <2>4. NodePath(j) = q /\ NodePath(j) = Append(NodePath(ParentNode(j)), objs[j].name)
        /\ Live(ParentNode(j)) /\ objs[j].name \in PathElem
    BY <2>3, NodePathType, ChildPath DEF Live, PathOf
  <2>5. NodePath(ParentNode(j)) = NodePath(dir) /\ objs[j].name = Head(rest)
    <3>1. NodePath(ParentNode(j)) \in Seq(PathElem)
      BY <2>4, NodePathType
    <3>2. Append(NodePath(ParentNode(j)), objs[j].name) = Append(NodePath(dir), Head(rest))
      BY <2>4 DEF q
    <3> QED BY <1>1, <1>2, <2>4, <3>1, <3>2, AppendInjective
  <2>6. ParentNode(j) = dir
    BY <1>0, <2>4, <2>5, NodesUnique
  <2>7. [id |-> j, name |-> objs[j].name, file |-> objs[j].file] \in getMetadata(dir).children
    BY <2>6, FolderHolds DEF Walking
  <2> QED BY <2>5, <2>7
<1> QED BY <1>4, <1>5 DEF Missing


-----------------------------------------------------------------------------
(* What a change of the device makes stale.                                *)
FolderFor(x) == IF x.parent = 0 THEN x.storage ELSE x.parent

LEMMA TellsSame ==
  ASSUME objs' = objs
  PROVE  /\ \A c, K : Tells(c, K) => Tells(c, K)'
         /\ \A n : Live(n)' = Live(n) /\ getMetadata(n)' = getMetadata(n)
<1>1. \A n : Live(n)' = Live(n) /\ getMetadata(n)' = getMetadata(n)
  BY DEF Live, getMetadata, GetFolderContents, Inside
<1> QED BY <1>1 DEF Tells

LEMMA TellsAdds ==
  ASSUME Base, NEW x, Adds(x)
  PROVE  \A c, K : Tells(c, K) /\ nextId \notin DOMAIN c => Tells(c, K \cup {FolderFor(x)})'
<1>1. PICK k : k = nextId
  OBVIOUS
<1>2. k \notin DOMAIN objs /\ DeviceTypeOK
  BY <1>1, BaseFacts
<1>3. DOMAIN objs' = DOMAIN objs \cup {k} /\ objs'[k] = x /\ \A i \in DOMAIN objs : objs'[i] = objs[i]
  BY <1>1, <1>2 DEF Adds, WithObject, Put
<1>4. \A s, p : x.parent # p \/ x.storage # s => GetFolderContents(s, p)' = GetFolderContents(s, p)
  BY <1>2, <1>3 DEF GetFolderContents, Inside
<1>5. ASSUME NEW n, Live(n), n # FolderFor(x) PROVE getMetadata(n)' = getMetadata(n)
  <2>1. CASE n \in Storages
    <3>1. GetFolderContents(n, 0)' = GetFolderContents(n, 0)
      BY <1>4, <1>5 DEF FolderFor
    <3> QED BY <2>1, <3>1 DEF getMetadata
  <2>2. CASE n \in DOMAIN objs /\ n \notin Storages
    <3>1. n # 0 /\ objs'[n] = objs[n]
      BY <1>2, <1>3, <2>2, ObjectFields DEF ObjIds
    <3>2. GetFolderContents(objs[n].storage, n)' = GetFolderContents(objs[n].storage, n)
      <4>1. PICK s : s = objs[n].storage
        OBVIOUS
      <4>2. GetFolderContents(s, n)' = GetFolderContents(s, n)
        BY <1>4, <1>5, <3>1 DEF FolderFor
      <4> QED BY <3>1, <4>1, <4>2
    <3> QED BY <2>2, <3>1, <3>2 DEF getMetadata
  <2> QED BY <1>5, <2>1, <2>2 DEF Live
<1>6. \A n : Live(n)' => Live(n) \/ n = k
  BY <1>3 DEF Live
<1> QED BY <1>1, <1>5, <1>6 DEF Tells

LEMMA TellsRemoves ==
  ASSUME Base, NEW n, Removes(n), Subtree(objs, n) = {n}
  PROVE  \A c, K, f : f = ParentNode(n) /\ Tells(c, K) => Tells(c, K \cup {f})'
<1>1. n \in DOMAIN objs /\ DOMAIN objs' = DOMAIN objs \ {n} /\ \A i \in DOMAIN objs \ {n} : objs'[i] = objs[i]
  BY DEF Removes, WithoutObject, Drop
<1>2. DeviceTypeOK
  BY BaseFacts
<1>4. \A s, p : objs[n].parent # p \/ objs[n].storage # s => GetFolderContents(s, p)' = GetFolderContents(s, p)
  BY <1>1 DEF GetFolderContents, Inside
<1>5. ASSUME NEW m, Live(m)', m # ParentNode(n) PROVE Live(m) /\ getMetadata(m)' = getMetadata(m)
  <2>1. CASE m \in Storages
    <3>1. GetFolderContents(m, 0)' = GetFolderContents(m, 0)
      BY <1>4, <1>5 DEF ParentNode
    <3> QED BY <2>1, <3>1 DEF getMetadata, Live
  <2>2. CASE m \in DOMAIN objs' /\ m \notin Storages
    <3>1. m # 0 /\ m \in DOMAIN objs /\ objs'[m] = objs[m]
      BY <1>1, <1>2, <2>2, ObjectFields DEF ObjIds
    <3>2. GetFolderContents(objs[m].storage, m)' = GetFolderContents(objs[m].storage, m)
      <4>1. PICK s : s = objs[m].storage
        OBVIOUS
      <4>2. GetFolderContents(s, m)' = GetFolderContents(s, m)
        BY <1>4, <1>5, <3>1 DEF ParentNode
      <4> QED BY <3>1, <4>1, <4>2
    <3> QED BY <2>2, <3>1, <3>2 DEF getMetadata, Live
  <2> QED BY <1>5, <2>1, <2>2 DEF Live
<1> QED BY <1>5 DEF Tells

-----------------------------------------------------------------------------
(* The node a walk ends at.                                                *)
LEMMA FoundIs ==
  ASSUME Base, NoTwins(objs), NEW node, NEW p \in Seq(PathElem), FoundAt(node, p)
  PROVE  /\ \A i \in DOMAIN objs : PathOf(i) = p => node.id = i
         /\ Len(p) = 1 => ~node.file /\ node.id \in Storages
         /\ node.file => node.id \in DOMAIN objs /\ objs[node.id].file
         /\ node.file \in BOOLEAN /\ node.id \in NodeIds /\ node = [id |-> node.id, file |-> node.file]
         /\ ~node.file => IsFolderNode(node.id) /\ NodePath(node.id) = p
<1>0. /\ node.file \in BOOLEAN /\ node.id \in NodeIds /\ node = [id |-> node.id, file |-> node.file]
      /\ node.file => node.id \in DOMAIN objs /\ objs[node.id].file
      /\ ~node.file => IsFolderNode(node.id) /\ NodePath(node.id) = p
  BY DEF FoundAt, Node, Live, IsFolderNode
<1>1. Live(node.id) /\ IsPrefix(NodePath(node.id), p) /\ IsStore(objs)
  BY BaseFacts DEF FoundAt
<1>2. ASSUME NEW i \in DOMAIN objs, PathOf(i) = p PROVE node.id = i
  <2>1. CASE ~node.file
    <3>1. Live(i) /\ NodePath(i) = NodePath(node.id)
      BY <1>0, <1>2, <2>1, NodePathType DEF Live
    <3> QED BY <1>1, <3>1, NodesUnique
  <2>2. CASE node.file
    <3>1. node.id \in DOMAIN objs /\ objs[node.id].file /\ NodePath(node.id) = PathOf(node.id)
      BY <1>0, <1>1, <2>2, NodePathType
    <3>2. IsPrefix(PathIn(objs, node.id), PathIn(objs, i))
      BY <1>1, <1>2, <3>1 DEF PathOf
    <3>3. i \in Subtree(objs, node.id) /\ Subtree(objs, node.id) = {node.id}
      BY <1>1, <3>1, <3>2, PrefixBelow, NothingInAFile
    <3> QED BY <3>3
  <2> QED BY <1>0, <2>1, <2>2
<1>3. ASSUME Len(p) = 1 PROVE ~node.file /\ node.id \in Storages
  <2>1. node.id \notin DOMAIN objs
    <3> SUFFICES ASSUME node.id \in DOMAIN objs PROVE FALSE
      OBVIOUS
    <3>1. Len(NodePath(node.id)) > 1 /\ Len(NodePath(node.id)) \in Nat /\ NodePath(node.id) \in Seq(PathElem)
      BY <1>1, NodePathType
    <3>2. Len(NodePath(node.id)) <= Len(p)
      BY <1>1, <3>1, PrefixPointwise
    <3> QED BY <1>3, <3>1, <3>2
  <2> QED BY <1>0, <1>1, <2>1 DEF Live
<1> QED BY <1>0, <1>2, <1>3

LEMMA OnlyThat ==
  ASSUME Base, NoTwins(objs), NEW n \in DOMAIN objs, Subtree(objs, n) = {n}, NEW p, p = PathOf(n)
  PROVE  /\ {v \in View : Below(v, p)} = {Item(n)}
         /\ {v \in View : ~Below(v, p)} = {Item(i) : i \in DOMAIN objs \ {n}}
<1>1. \A i \in DOMAIN objs : IsPrefix(p, PathOf(i)) <=> i = n
  <2>1. IsStore(objs)
    BY BaseFacts
  <2>2. \A i \in DOMAIN objs : IsPrefix(PathIn(objs, n), PathIn(objs, i)) => i \in Subtree(objs, n)
    BY <2>1, PrefixBelow
  <2>3. IsPrefix(PathIn(objs, n), PathIn(objs, n))
    BY <2>1, PathLen, PrefixSelf
  <2> QED BY <2>2, <2>3 DEF PathOf
<1>2. \A i \in DOMAIN objs : Below(Item(i), p) <=> i = n
  BY <1>1 DEF Below, Item
<1> QED BY <1>2, ViewItems


-----------------------------------------------------------------------------
(* The nodes the kernel sees on a path, when the cache is right, are those *)
(* that are there.                                                         *)
IsNode(node)     == /\ node \in Node /\ Live(node.id)
                    /\ node.file = (node.id \in DOMAIN objs /\ objs[node.id].file)
Matches(n, p, k) == Len(NodePath(n)) = k + 1 /\ \A j \in 1 .. k + 1 : NodePath(n)[j] = p[j]
NodesAt(p, k)    == {node \in Node : IsNode(node) /\ Matches(node.id, p, k)}
Kids(n)          == IF n \in DOMAIN cache THEN cache[n].children
                    ELSE IF Live(n) THEN getMetadata(n).children ELSE {}
OneDown(nodes, name) ==
  {[id |-> e.id, file |-> e.file] :
     e \in UNION {{c \in Kids(n.id) : c.name = name} : n \in {x \in nodes : ~x.file}}}

LEMMA MatchStorage ==
  ASSUME Base, NEW n, Live(n), NEW p
  PROVE  /\ Matches(n, p, 0) <=> n \in Storages /\ n = p[1]
         /\ \A k \in Nat : k # 0 /\ Matches(n, p, k) => n \in DOMAIN objs
<1>1. CASE n \in Storages
  <2>1. NodePath(n) = <<n>> /\ Len(NodePath(n)) = 1
    BY <1>1, NodePathType
  <2>2. NodePath(n)[1] = n
    BY <2>1
  <2> QED BY <1>1, <2>1, <2>2 DEF Matches
<1>2. CASE n \in DOMAIN objs
  <2>1. n \notin Storages /\ Len(NodePath(n)) > 1
    BY <1>2, NodePathType
  <2> QED BY <1>2, <2>1 DEF Matches
<1> QED BY <1>1, <1>2 DEF Live

LEMMA MatchDown ==
  ASSUME Base, NEW i \in DOMAIN objs, NEW p, NEW k \in Nat, k # 0
  PROVE  Matches(i, p, k) <=> Matches(ParentNode(i), p, k - 1) /\ objs[i].name = p[k + 1]
<1> DEFINE s == NodePath(ParentNode(i))
           e == objs[i].name
<1>1. s \in Seq(PathElem) /\ e \in PathElem /\ NodePath(i) = Append(s, e)
  BY ChildPath, NodePathType
<1> HIDE DEF s, e
<1>2. PICK l \in Nat : l = Len(s)
  BY <1>1, LenProperties
<1>3. /\ Len(Append(s, e)) = l + 1
      /\ \A j \in 1 .. l : Append(s, e)[j] = s[j]
      /\ Append(s, e)[l + 1] = e
  BY <1>1, <1>2, AppendProperties
<1>4. Matches(i, p, k) <=> l + 1 = k + 1 /\ \A j \in 1 .. k + 1 : Append(s, e)[j] = p[j]
  BY <1>1, <1>3 DEF Matches
<1>5. Matches(ParentNode(i), p, k - 1) <=> l = (k - 1) + 1 /\ \A j \in 1 .. (k - 1) + 1 : s[j] = p[j]
  BY <1>2 DEF Matches, s
<1>6. (k - 1) + 1 = k /\ (l + 1 = k + 1 <=> l = k)
  BY <1>2
<1>7. CASE l # k
  BY <1>4, <1>5, <1>6, <1>7
<1>8. CASE l = k
  <2>1. \A j \in 1 .. k + 1 : j = k + 1 \/ j \in 1 .. k
    OBVIOUS
  <2>2. k + 1 \in 1 .. k + 1 /\ \A j \in 1 .. k : j \in 1 .. k + 1
    OBVIOUS
  <2>3. (\A j \in 1 .. k + 1 : Append(s, e)[j] = p[j]) <=> (\A j \in 1 .. k : s[j] = p[j]) /\ e = p[k + 1]
    BY <1>3, <1>8, <2>1, <2>2
  <2> QED BY <1>4, <1>5, <1>6, <1>8, <2>3 DEF e
<1> QED BY <1>7, <1>8

LEMMA NodesOneDown ==
  ASSUME Base, Tells(cache, {}), NEW p, NEW k \in Nat, k # 0
  PROVE  NodesAt(p, k) = OneDown(NodesAt(p, k - 1), p[k + 1])
<1>1. \A i \in DOMAIN objs : /\ i \in NodeIds /\ Live(i) /\ objs[i].file \in BOOLEAN
  BY BaseFacts, ObjectFields DEF Live, NodeIds
<1>2. ASSUME NEW n, IsFolderNode(n)
      PROVE  Kids(n) = {[id |-> i, name |-> objs[i].name, file |-> objs[i].file] :
                           i \in {j \in DOMAIN objs : ParentNode(j) = n}}
  <2>1. Live(n)
    BY <1>2 DEF IsFolderNode, Live
  <2>2. Kids(n) = getMetadata(n).children
    BY <2>1 DEF Kids, Tells
  <2> QED BY <1>2, <2>2, FolderHolds
<1>3. ASSUME NEW x \in NodesAt(p, k) PROVE x \in OneDown(NodesAt(p, k - 1), p[k + 1])
  <2>1. x \in Node /\ Live(x.id) /\ x.file = (x.id \in DOMAIN objs /\ objs[x.id].file) /\ Matches(x.id, p, k)
    BY DEF NodesAt, IsNode
  <2>2. x.id \in DOMAIN objs /\ x.file = objs[x.id].file /\ x = [id |-> x.id, file |-> x.file]
    BY <1>1, <2>1, MatchStorage DEF Node
  <2>3. Matches(ParentNode(x.id), p, k - 1) /\ objs[x.id].name = p[k + 1]
    BY <2>1, <2>2, MatchDown
  <2>4. PICK n : n = ParentNode(x.id)
    OBVIOUS
  <2>5. IsFolderNode(n) /\ Live(n)
    BY <2>2, <2>4, ChildPath
  <2>6. [id |-> n, file |-> FALSE] \in NodesAt(p, k - 1)
    <3>1. PICK y : y = [id |-> n, file |-> FALSE]
      OBVIOUS
    <3>2. y.id = n /\ y.file = FALSE /\ n \in NodeIds
      BY <1>1, <2>5, <3>1 DEF Live, NodeIds
    <3>3. ~(n \in DOMAIN objs /\ objs[n].file)
      <4>1. n \in Storages => n \notin DOMAIN objs
        BY <2>5, NodePathType
      <4> QED BY <2>5, <4>1 DEF IsFolderNode
    <3> QED BY <2>3, <2>4, <2>5, <3>1, <3>2, <3>3 DEF NodesAt, IsNode, Node
  <2>7. [id |-> x.id, name |-> objs[x.id].name, file |-> objs[x.id].file] \in Kids(n)
    BY <1>2, <2>2, <2>4, <2>5
  <2>8. PICK e : e = [id |-> x.id, name |-> objs[x.id].name, file |-> objs[x.id].file]
    OBVIOUS
  <2>9. e \in {c \in Kids(n) : c.name = p[k + 1]} /\ x = [id |-> e.id, file |-> e.file]
    BY <2>2, <2>3, <2>7, <2>8
  <2>10. \E y \in {z \in NodesAt(p, k - 1) : ~z.file} : y.id = n
    BY <2>6
  <2> QED BY <2>9, <2>10 DEF OneDown
<1>4. ASSUME NEW x \in OneDown(NodesAt(p, k - 1), p[k + 1]) PROVE x \in NodesAt(p, k)
  <2>1. PICK y \in NodesAt(p, k - 1) : ~y.file /\ \E e \in Kids(y.id) : e.name = p[k + 1] /\ x = [id |-> e.id, file |-> e.file]
    BY DEF OneDown
  <2>2. PICK e \in Kids(y.id) : e.name = p[k + 1] /\ x = [id |-> e.id, file |-> e.file]
    BY <2>1
  <2>3. IsFolderNode(y.id) /\ Matches(y.id, p, k - 1)
    BY <2>1 DEF NodesAt, IsNode, IsFolderNode, Live
  <2>4. PICK i \in DOMAIN objs : e = [id |-> i, name |-> objs[i].name, file |-> objs[i].file] /\ ParentNode(i) = y.id
    BY <1>2, <2>2, <2>3
  <2>5. e.id = i /\ e.file = objs[i].file /\ objs[i].name = p[k + 1]
    BY <2>2, <2>4
  <2>6. x = [id |-> i, file |-> objs[i].file]
    BY <2>2, <2>5
  <2>7. Matches(i, p, k)
    BY <2>3, <2>4, <2>5, MatchDown
  <2> QED BY <1>1, <2>6, <2>7 DEF NodesAt, IsNode, Node
<1> QED BY <1>3, <1>4

LEMMA SeenNodes ==
  ASSUME Base, Tells(cache, {}), NEW path \in Seq(PathElem), path # <<>>, Head(path) \in Storages
  PROVE  Seen(path) = {node \in Node : IsNode(node) /\ NodePath(node.id) = path}
<1> DEFINE f == [k \in Nat |-> NodesAt(path, k)]
           G(g) == [k \in Nat |-> IF k = 0 THEN {[id |-> Head(path), file |-> FALSE]}
                                  ELSE OneDown(g[k - 1], path[k + 1])]
           A == CHOOSE g : g = G(g)
           m == Len(path) - 1
<1>0. Len(path) \in Nat \ {0} /\ Head(path) = path[1]
  BY LenProperties, EmptySeq
<1>1. NodesAt(path, 0) = {[id |-> Head(path), file |-> FALSE]}
  <2>0. Head(path) \in NodeIds /\ Live(Head(path)) /\ Head(path) \notin DOMAIN objs
    BY NodePathType DEF NodeIds, Live
  <2>1. ASSUME NEW x \in NodesAt(path, 0) PROVE x = [id |-> Head(path), file |-> FALSE]
    <3>1. x \in Node /\ Live(x.id) /\ x.file = (x.id \in DOMAIN objs /\ objs[x.id].file) /\ Matches(x.id, path, 0)
      BY DEF NodesAt, IsNode
    <3>2. x.id = Head(path)
      BY <1>0, <3>1, MatchStorage
    <3> QED BY <2>0, <3>1, <3>2 DEF Node
  <2>2. [id |-> Head(path), file |-> FALSE] \in NodesAt(path, 0)
    <3>1. PICK s : s = Head(path)
      OBVIOUS
    <3>2. PICK x : x = [id |-> s, file |-> FALSE]
      OBVIOUS
    <3>3. x.id = s /\ x.file = FALSE /\ x \in Node
      BY <2>0, <3>1, <3>2 DEF Node
    <3>4. Matches(s, path, 0)
      BY <1>0, <2>0, <3>1, MatchStorage
    <3>5. x \in NodesAt(path, 0)
      BY <2>0, <3>1, <3>3, <3>4 DEF NodesAt, IsNode
    <3> QED BY <3>1, <3>2, <3>5
  <2> QED BY <2>1, <2>2
<1>2. f = G(f)
  <2>1. ASSUME NEW k \in Nat PROVE f[k] = G(f)[k]
    <3>1. CASE k = 0
      BY <1>1, <3>1
    <3>2. CASE k # 0
      <4>1. k - 1 \in Nat
        BY <3>2
      <4>2. f[k - 1] = NodesAt(path, k - 1)
        BY <4>1
      <4> QED BY <3>2, <4>2, NodesOneDown
    <3> QED BY <3>1, <3>2
  <2> QED BY <2>1
<1>3. A = G(A)
  <2> HIDE DEF f, G
  <2> QED BY <1>2
<1>4. ASSUME NEW k \in Nat PROVE A[k] = G(A)[k] /\ f[k] = G(f)[k]
  <2> HIDE DEF A, f, G
  <2> QED BY <1>2, <1>3
<1>5. Seen(path) = {n \in A[m] : n.id \in DOMAIN cache \/ Live(n.id)}
  BY DEF Seen, OneDown, Kids
<1> HIDE DEF A
<1>6. \A k \in Nat : A[k] = f[k]
  <2> DEFINE S == {k \in Nat : A[k] # f[k]}
  <2> SUFFICES ASSUME S # {} PROVE FALSE
    OBVIOUS
  <2>1. PICK k \in S : \A j \in S : k <= j
    <3>1. S \in SUBSET Nat
      OBVIOUS
    <3> HIDE DEF S
    <3> QED BY <3>1, LeastNat
  <2>2. CASE k = 0
    BY <1>4, <2>1, <2>2
  <2>3. CASE k # 0
    <3>1. k - 1 \in Nat /\ ~(k <= k - 1)
      BY <2>1, <2>3
    <3>2. A[k - 1] = f[k - 1]
      BY <2>1, <3>1
    <3>3. G(A)[k] = G(f)[k]
      <4> HIDE DEF f
      <4> QED BY <2>1, <2>3, <3>2
    <3> HIDE DEF f, G
    <3> QED BY <1>4, <2>1, <3>3
  <2> QED BY <2>2, <2>3
<1>7. m \in Nat /\ m + 1 = Len(path)
  BY <1>0
<1>8. A[m] = NodesAt(path, m)
  BY <1>6, <1>7
<1>9. ASSUME NEW n, Live(n) PROVE Matches(n, path, m) <=> NodePath(n) = path
  <2>1. NodePath(n) \in Seq(PathElem)
    BY <1>9, NodePathType
  <2>2. Len(NodePath(n)) = m + 1 /\ (\A j \in 1 .. m + 1 : NodePath(n)[j] = path[j]) => NodePath(n) = path
    BY <1>7, <2>1, SeqEqual
  <2> QED BY <1>7, <2>2 DEF Matches
<1> HIDE DEF m
<1> QED BY <1>5, <1>8, <1>9 DEF NodesAt, IsNode


-----------------------------------------------------------------------------
(* The calls other than rename and unmount, from a cache that is right.    *)
(* What the kernel knew of the paths when it made the call, and where the  *)
(* handler is: on its way to the node, at it, writing a file back (before  *)
(* and after the old object is deleted), opening the file it made, or at   *)
(* its end.                                                                *)
FileAt(p)   == \E v \in pre.view : v.path = p /\ v.file
FolderAt(p) == Len(p) = 1 \/ \E v \in pre.view : v.path = p /\ ~v.file
Strays      == \A v \in pre.view : v.path # call.path

Asked == /\ call.op \in {"unlink", "truncate", "open"} => FileAt(call.path)
         /\ call.op \in {"readdir", "rmdir"} => FolderAt(call.path)
         /\ call.op \in {"mkdir", "create"} => FolderAt(Front(call.path)) /\ Strays /\ Len(call.path) > 1
         /\ call.new = call.path

Target == IF call.op \in {"mkdir", "create"} THEN Front(call.path) ELSE call.path
Rest   == IF call.op = "create" THEN << Lookup(call.path, <<"opened">>) >> ELSE <<>>
Agree  == Tells(cache, {}) /\ Whole(localFiles)
Room   == call.op \in {"create", "mkdir", "truncate", "flush", "release"} => nextId \in ObjIds

Searching == \E dir, rest : /\ Walking(dir, rest, Target)
                            /\ todo = << <<"getNode", dir, rest, <<"invoke">> >> >> \o Rest
Reached   == \E node : FoundAt(node, Target) /\ todo = Invoke(call, node) \o Rest
Before    == View = pre.view /\ Agree /\ Room /\ (Searching \/ Reached)

Elsewhere(view) == {v \in view : ~Below(v, call.path) /\ ~Below(v, call.new)}
Untouched == ~Orphaned => Elsewhere(View) = Elsewhere(pre.view)
Storing == \E n, K :
  /\ todo = << <<"closeFile", n, K>> >> /\ n \in DOMAIN objs /\ objs[n].file /\ ParentNode(n) \in K
  /\ Strays \/ PathOf(n) = call.path
  /\ call.op \in {"truncate", "flush", "release"} /\ Agree /\ Room /\ View = Effect(pre.view, call) /\ Untouched

Resending == \E n, K, x :
  /\ todo = << <<"sendFile", n, K, x>> >> /\ n \in DOMAIN localFiles /\ n \notin DOMAIN objs
  /\ x \in Object /\ x.file /\ MayAdd(x) /\ FolderFor(x) \in K
  /\ Strays \/ PathFor(x) = call.path
  /\ call.op \in {"truncate", "flush", "release"} /\ Tells(cache, K) /\ Whole(localFiles)
  /\ View \cup {ItemFor(x)} = Effect(pre.view, call) /\ Untouched

Opening ==
  /\ call.op = "create" /\ Agree /\ View = Effect(pre.view, call)
  /\ \E i \in DOMAIN objs : objs[i].file /\ PathOf(i) = call.path
  /\ \/ \E dir, rest : /\ Walking(dir, rest, call.path)
                       /\ todo = << <<"getNode", dir, rest, <<"opened">> >> >>
     \/ \E n \in DOMAIN objs : objs[n].file /\ todo = << <<"open", n>> >>

OnDevice ==
  \A v \in Effect(pre.view, call) : v.path = call.path =>
    \E i \in DOMAIN objs : PathOf(i) = v.path /\ objs[i].file /\ objs[i].data = v.data

Did == /\ todo = <<>> /\ Agree
       /\ ~Orphaned => View = Effect(pre.view, call)
       /\ call.op = "read" /\ ~Orphaned =>
            [path |-> call.path, file |-> TRUE, data |-> reply.data] \in pre.view
       /\ call.op \in {"flush", "release"} => OnDevice

Stopped == /\ todo = <<>>
           /\ Untouched
           /\ faults < pre.faults \/ (Agree /\ Excused)

CallInv ==
  call.op \notin {"none", "unmount", "rename"} /\ pre.coherent =>
    /\ Asked
    /\ \/ reply.code = "ok" /\ (Before \/ Storing \/ Resending \/ Opening \/ Did)
       \/ reply.code # "ok" /\ Stopped

LEMMA SeenThere ==
  ASSUME Base, Agree, NEW p \in Path, p # <<>>
  PROVE  /\ IsFile(p) => \E v \in View : v.path = p /\ v.file
         /\ IsFolder(p) => Len(p) = 1 \/ \E v \in View : v.path = p /\ ~v.file
         /\ Absent(p) => \A v \in View : v.path # p
<1>1. p \in Seq(PathElem) /\ Head(p) \in Storages
  BY PathParts DEF Path, PathElem
<1>2. Seen(p) = {node \in Node : IsNode(node) /\ NodePath(node.id) = p}
  BY <1>1, SeenNodes DEF Agree
<1>3. ASSUME NEW node \in Seen(p)
      PROVE  \/ node.id \in DOMAIN objs /\ PathOf(node.id) = p /\ objs[node.id].file = node.file
             \/ node.file = FALSE /\ Len(p) = 1
  <2>1. node \in Node /\ Live(node.id) /\ node.file = (node.id \in DOMAIN objs /\ objs[node.id].file)
        /\ NodePath(node.id) = p
    BY <1>2 DEF IsNode
  <2>2. CASE node.id \in DOMAIN objs
    <3>1. objs[node.id].file \in BOOLEAN
      BY <2>2, BaseFacts, ObjectFields
    <3> QED BY <2>1, <2>2, <3>1, NodePathType
  <2>3. CASE node.id \in Storages
    BY <2>1, <2>3, NodePathType
  <2> QED BY <2>1, <2>2, <2>3 DEF Live
<1>4. ASSUME NEW i \in DOMAIN objs PROVE Item(i) \in View /\ Item(i).path = PathOf(i) /\ Item(i).file = objs[i].file
  BY ViewItems DEF Item
<1>5. ASSUME IsFile(p) PROVE \E v \in View : v.path = p /\ v.file
  BY <1>3, <1>4, <1>5 DEF IsFile
<1>6. ASSUME IsFolder(p) PROVE Len(p) = 1 \/ \E v \in View : v.path = p /\ ~v.file
  BY <1>3, <1>4, <1>6 DEF IsFolder
<1>7. ASSUME Absent(p), NEW v \in View, v.path = p PROVE FALSE
  <2>1. PICK i \in DOMAIN objs : v = Item(i)
    BY ViewItems
  <2>2. PathOf(i) = p /\ Live(i) /\ i \in NodeIds /\ objs[i].file \in BOOLEAN
    BY <1>4, <1>7, <2>1, BaseFacts, ObjectFields DEF Live, NodeIds
  <2>3. NodePath(i) = p
    BY <2>2, NodePathType
  <2>4. PICK node : node = [id |-> i, file |-> objs[i].file]
    OBVIOUS
  <2>5. node \in Node /\ node.id = i /\ node.file = objs[i].file
    BY <2>2, <2>4 DEF Node
  <2>6. node \in Seen(p)
    BY <1>2, <2>2, <2>3, <2>5 DEF IsNode
  <2> QED BY <1>7, <2>6 DEF Absent
<1> QED BY <1>5, <1>6, <1>7

LEMMA Begun ==
  ASSUME Base, ReplyInv, call.op = "none", NEW op, op \notin {"none", "unmount", "rename"}, NEW path \in Path, path # <<>>,
         NEW off, NEW byte, NEW h, Begin(op, path, path, off, byte, h),
         op \in {"unlink", "truncate", "open"} => IsFile(path),
         op \in {"readdir", "rmdir"} => IsFolder(path),
         op \in {"mkdir", "create"} => Len(path) > 1 /\ Absent(path) /\ IsFolder(Front(path))
  PROVE  CallInv'
<1> DEFINE c == [op |-> op, path |-> path, new |-> path, off |-> off, byte |-> byte, h |-> h]
<1>1. /\ call' = c /\ todo' = Handler(c)
      /\ pre' = [view |-> View, coherent |-> Coherent, faults |-> faults,
                 saved |-> \A i \in DOMAIN localFiles : ~localFiles[i].dirty, owned |-> Owned]
      /\ objs' = objs /\ nextId' = nextId /\ cache' = cache /\ localFiles' = localFiles /\ reply' = reply
      /\ nextId + NewIds(c) <= MaxId + 1
  BY DEF Begin, device
<1>2. c.op = op /\ c.path = path /\ c.new = path
  OBVIOUS
<1> HIDE DEF c
<1>3. call'.op = op /\ call'.path = path /\ call'.new = path /\ pre'.view = View /\ pre'.coherent = Coherent
  BY <1>1, <1>2
<1> SUFFICES ASSUME Coherent PROVE CallInv'
  BY <1>3 DEF CallInv
<1>4. Agree
  BY CoherentIs DEF Agree
<1>5. Agree' /\ View' = View
  <2>1. View' = View
    BY <1>1 DEF View, Content, PathOf
  <2>2. Tells(cache, {})'
    <3>1. PICK d : d = cache
      OBVIOUS
    <3>2. Tells(d, {})'
      BY <1>1, <1>4, <3>1, TellsSame DEF Agree
    <3> QED BY <1>1, <3>1, <3>2 DEF Tells
  <2> QED BY <1>1, <1>4, <2>1, <2>2 DEF Agree, Whole
<1>6. Asked'
  <2>1. /\ op \in {"unlink", "truncate", "open"} => \E v \in View : v.path = path /\ v.file
        /\ op \in {"readdir", "rmdir"} => Len(path) = 1 \/ \E v \in View : v.path = path /\ ~v.file
        /\ op \in {"mkdir", "create"} => \A v \in View : v.path # path
    BY <1>4, SeenThere
  <2>2. ASSUME op \in {"mkdir", "create"}
        PROVE  Len(Front(path)) = 1 \/ \E v \in View : v.path = Front(path) /\ ~v.file
    <3>1. Front(path) \in Path /\ Front(path) # <<>>
      BY <2>2, LongPathParts DEF LongPath
    <3> QED BY <1>4, <2>2, <3>1, SeenThere
  <2>3. /\ call'.op \in {"unlink", "truncate", "open"} => FileAt(call.path)'
        /\ call'.op \in {"readdir", "rmdir"} => FolderAt(call.path)'
    BY <1>3, <2>1 DEF FileAt, FolderAt
  <2>4. call'.op \in {"mkdir", "create"} => FolderAt(Front(call.path))' /\ Strays' /\ Len(call.path)' > 1
    BY <1>3, <2>1, <2>2 DEF FolderAt, Strays
  <2> QED BY <1>3, <2>3, <2>4 DEF Asked
<1>7. Room'
  <2>1. CASE op \in {"create", "mkdir", "truncate", "flush", "release"}
    <3>1. NewIds(c) = 1
      BY <1>2, <2>1 DEF NewIds
    <3>2. nextId \in 1 .. MaxId + 1 /\ nextId + 1 <= MaxId + 1 /\ MaxId \in Nat
      BY <1>1, <3>1, DeviceAssumption, BaseFacts DEF DeviceTypeOK
    <3>3. nextId \in ObjIds
      BY <3>2 DEF ObjIds
    <3> QED BY <1>1, <3>3 DEF Room
  <2> QED BY <1>3, <2>1 DEF Room
<1>8. Searching'
  <2> DEFINE t == IF op \in {"mkdir", "create"} THEN Front(path) ELSE path
  <2>1. t \in Path /\ t # <<>>
    BY LongPathParts DEF LongPath
  <2>2. Target' = t
    BY <1>3 DEF Target
  <2> HIDE DEF t
  <2>3. PICK d, r : d = Head(t) /\ r = Tail(t)
    OBVIOUS
  <2>4. Walking(d, r, t)
    BY <2>1, <2>3, WalkStart
  <2>5. Walking(d, r, t)'
    BY <1>1, <2>4 DEF Walking, IsFolderNode, NodePath, PathOf
  <2>6. Lookup(t, <<"invoke">>) = <<"getNode", d, r, <<"invoke">> >>
    BY <2>3 DEF Lookup
  <2>7. todo' = << <<"getNode", d, r, <<"invoke">> >> >> \o Rest'
    <3>1. PICK s : s = <<"getNode", d, r, <<"invoke">> >>
      OBVIOUS
    <3>2. CASE op = "create"
      <4>1. todo' = << s, Lookup(path, <<"opened">>) >>
        BY <1>1, <1>2, <2>6, <3>1, <3>2 DEF Handler, t
      <4>2. Rest' = << Lookup(path, <<"opened">>) >>
        BY <1>3, <3>2 DEF Rest, Lookup
      <4> QED BY <3>1, <4>1, <4>2, ShortConcat
    <3>3. CASE op # "create"
      <4>1. todo' = << s >>
        BY <1>1, <1>2, <2>6, <3>1, <3>3 DEF Handler, t
      <4>2. Rest' = <<>>
        BY <1>3, <3>3 DEF Rest
      <4> QED BY <3>1, <4>1, <4>2, ShortConcat
    <3> QED BY <3>2, <3>3
  <2> QED BY <2>2, <2>5, <2>7 DEF Searching
<1>9. reply'.code = "ok"
  BY <1>1 DEF ReplyInv, Okay
<1> QED BY <1>3, <1>5, <1>6, <1>7, <1>8, <1>9 DEF CallInv, Before


LEMMA KernelCall ==
  ASSUME Base, ReplyInv, call.op = "none", Kernel
  PROVE  CallInv'
<1>0. \A p \in Paths : p \in Path /\ p # <<>>
  BY PathsType
<1>1. \A h \in Handles : handles[h] \in Path
  BY BaseFacts DEF TypeOK
<1>2. CASE \E op \in {"getattr", "statfs", "chmod", "utime"}, p \in Paths : Begin(op, p, p, 0, 0, call.h)
  BY <1>0, <1>2, Begun
<1>3. CASE \E p \in Paths : /\ IsFolder(p)
                            /\ \/ Begin("readdir", p, p, 0, 0, call.h)
                               \/ Begin("rmdir", p, p, 0, 0, call.h)
  BY <1>0, <1>3, Begun
<1>4. CASE \E p \in Paths : IsFile(p) /\ Begin("unlink", p, p, 0, 0, call.h)
  BY <1>0, <1>4, Begun
<1>5. CASE \E p \in Paths : IsFile(p) /\ \E n \in 0 .. MaxLen : Begin("truncate", p, p, n, 0, call.h)
  BY <1>0, <1>5, Begun
<1>6. CASE \E p \in Paths : IsFile(p) /\ \E h \in Handles : Begin("open", p, p, 0, 0, h)
  BY <1>0, <1>6, Begun
<1>7. CASE \E p \in Paths : Len(p) > 1 /\ Absent(p) /\ IsFolder(Front(p)) /\ Begin("mkdir", p, p, 0, 0, call.h)
  BY <1>0, <1>7, Begun
<1>8. CASE \E p \in Paths : /\ Len(p) > 1 /\ Absent(p) /\ IsFolder(Front(p))
                            /\ \E h \in Handles : Begin("create", p, p, 0, 0, h)
  BY <1>0, <1>8, Begun
<1>9. CASE \E h \in Handles : handles[h] # <<>> /\ \E op \in {"read", "flush", "release"} :
               Begin(op, handles[h], handles[h], 0, 0, h)
  BY <1>1, <1>9, Begun
<1>10. CASE \E h \in Handles : handles[h] # <<>> /\ \E n \in 0 .. MaxLen - 1, b \in Bytes :
               Begin("write", handles[h], handles[h], n, b, h)
  BY <1>1, <1>10, Begun
<1>11. CASE \E p, q \in Paths : Begin("rename", p, q, 0, 0, call.h) \/ Begin("unmount", p, p, 0, 0, call.h)
  <2>1. call'.op \in {"rename", "unmount"}
    BY <1>11 DEF Begin
  <2> QED BY <2>1 DEF CallInv
<1> QED BY <1>2, <1>3, <1>4, <1>5, <1>6, <1>7, <1>8, <1>9, <1>10, <1>11 DEF Kernel

-----------------------------------------------------------------------------
(* Failures are used up by the call that meets them.                       *)
FaultsInv == /\ faults \in Nat
             /\ call.op # "none" => pre.faults \in Nat /\ faults <= pre.faults /\ pre.faults <= MaxFaults

LEMMA NextFaults == ASSUME Base, FaultsInv, [Next]_vars PROVE FaultsInv'
<1>1. faults \in 0 .. MaxFaults /\ MaxFaults \in Nat
  BY BaseFacts, JmtpfsAssumption DEF TypeOK
<1>2. faults' = faults \/ (faults > 0 /\ faults' = faults - 1)
  <2>1. CASE GetNode \/ GetAttr \/ Open \/ Read \/ Write \/ Truncate \/ Fsync \/ CloseFile \/ Unmount
    BY <2>1 DEF NoDeviceChange, GetNode, GetAttr, Open, Read, Write, Truncate, Fsync, CloseFile, Unmount
  <2>2. CASE DeleteOld \/ SendFile \/ Mkdir \/ CreateFile \/ RemoveNode \/ CopyTo \/ DropOriginal
    <3>1. CASE DeleteOld \/ SendFile \/ DropOriginal
      BY <3>1 DEF DeviceCall, DeleteOld, SendFile, DropOriginal
    <3>2. CASE Mkdir \/ CreateFile
      BY <3>2 DEF DeviceCall, Mkdir, CreateFile
    <3>3. CASE CopyTo
      BY <3>3 DEF DeviceCall, CopyTo
    <3>4. CASE RemoveNode
      BY <3>4 DEF DeviceCall, NoDeviceChange, RemoveNode
    <3> QED BY <2>2, <3>1, <3>2, <3>3, <3>4
  <2>3. CASE RenameFile \/ RenameFolder \/ MoveContents \/ MoveRest \/ ClearItems \/ Refuse \/ ReadFails
    BY <2>3 DEF NoDeviceChange, DeviceCall, RenameFile, RenameFolder, MoveContents, MoveRest, ClearItems,
                Refuse, ReadFails
  <2>4. CASE Kernel
    <3>1. \E op, path, new, off, byte, h : Begin(op, path, new, off, byte, h)
      BY <2>4 DEF Kernel
    <3> QED BY <3>1 DEF Begin
  <2>5. CASE Crash \/ Return \/ Unmounted \/ Disconnect \/ Mount \/ UNCHANGED vars
    BY <2>5 DEF Crash, Return, Unmounted, Disconnect, Mount, vars
  <2> QED BY <2>1, <2>2, <2>3, <2>4, <2>5 DEF Next, Step
<1>3. faults' \in Nat /\ faults' <= faults
  BY <1>1, <1>2
<1>4. CASE call'.op = "none"
  BY <1>3, <1>4 DEF FaultsInv
<1>5. CASE UNCHANGED vars
  BY <1>5 DEF vars, FaultsInv
<1>6. CASE Kernel
  <2>1. PICK v, c, s, o : pre' = [view |-> v, coherent |-> c, faults |-> faults, saved |-> s, owned |-> o]
    BY <1>6 DEF Kernel, Begin
  <2> QED BY <1>1, <1>3, <2>1 DEF FaultsInv
<1>7. CASE call.op # "none" /\ call' = call /\ pre' = pre
  BY <1>3, <1>7 DEF FaultsInv
<1> QED BY <1>4, <1>5, <1>6, <1>7, CallFrame


-----------------------------------------------------------------------------
(* A step of a call that was made while the cache was right.               *)
Underway == /\ Base /\ NoTwins(objs) /\ FaultsInv /\ Step /\ ~Crash
            /\ call.op \notin {"none", "unmount", "rename"} /\ pre.coherent
            /\ Asked /\ reply.code = "ok"

LEMMA SameCall ==
  ASSUME call' = call, pre' = pre
  PROVE  /\ Asked' = Asked /\ Target' = Target /\ Rest' = Rest /\ Orphaned' = Orphaned
         /\ Excused' = Excused /\ Strays' = Strays
         /\ Effect(pre.view, call)' = Effect(pre.view, call)
         /\ \A p : FileAt(p)' = FileAt(p) /\ FolderAt(p)' = FolderAt(p)
         /\ \A V : Elsewhere(V)' = Elsewhere(V)
BY DEF Asked, Target, Rest, Lookup, Orphaned, Excused, Strays, Effect, FileAt, FolderAt, Elsewhere

LEMMA UnderwayFacts ==
  ASSUME Underway
  PROVE  /\ Base /\ NoTwins(objs) /\ TypeOK /\ DeviceTypeOK /\ IsStore(objs) /\ WellFormed(call)
         /\ todo # <<>> /\ Others /\ call' = call /\ pre' = pre /\ Base' /\ DeviceStep
         /\ faults \in Nat /\ pre.faults \in Nat /\ faults <= pre.faults
<1>1. /\ Base /\ NoTwins(objs) /\ TypeOK /\ DeviceTypeOK /\ IsStore(objs) /\ FaultsInv
  BY BaseFacts DEF Underway
<1>2. todo # <<>> /\ Others /\ call' = call /\ pre' = pre
  BY StepFrame DEF Underway
<1>3. Base' /\ DeviceStep
  BY <1>1, NextBase, IsDeviceStep DEF Underway, Next
<1>4. WellFormed(call)
  BY <1>1, <1>2, InCall
<1> QED BY <1>1, <1>2, <1>3, <1>4 DEF Underway, FaultsInv

LEMMA UntouchedAfter ==
  ASSUME call' = call, pre' = pre, ~Orphaned => \E V : V = View' /\ Elsewhere(V) = Elsewhere(pre.view)
  PROVE  Untouched'
<1> SUFFICES ASSUME ~Orphaned PROVE (Elsewhere(View) = Elsewhere(pre.view))'
  BY SameCall DEF Untouched
<1>1. PICK V : V = View' /\ Elsewhere(V) = Elsewhere(pre.view)
  OBVIOUS
<1>2. PICK W : W = pre.view
  OBVIOUS
<1>3. Elsewhere(V)' = Elsewhere(W)'
  BY <1>1, <1>2, SameCall
<1> QED BY <1>1, <1>2, <1>3 DEF Elsewhere

LEMMA Stops ==
  ASSUME Underway, todo' = <<>>, reply'.code # "ok",
         ~Orphaned => \E V : V = View' /\ Elsewhere(V) = Elsewhere(pre.view),
         (faults > 0 /\ faults' = faults - 1) \/ (Agree' /\ Excused)
  PROVE  CallInv'
<1>1. call' = call /\ pre' = pre /\ faults \in Nat /\ pre.faults \in Nat /\ faults <= pre.faults
  BY UnderwayFacts
<1>2. Untouched'
  BY <1>1, UntouchedAfter
<1>3. faults' < pre'.faults \/ (Agree' /\ Excused')
  <2>1. CASE faults > 0 /\ faults' = faults - 1
    BY <1>1, <2>1
  <2>2. CASE Agree' /\ Excused
    BY <1>1, <2>2, SameCall
  <2> QED BY <2>1, <2>2
<1>4. Asked'
  BY <1>1, SameCall DEF Underway
<1> QED BY <1>2, <1>3, <1>4 DEF CallInv, Stopped

LEMMA AgreeAfter ==
  ASSUME objs' = objs, NEW c, NEW files, cache' = c, localFiles' = files, Tells(c, {}), Whole(files)
  PROVE  Agree'
<1>1. Tells(c, {})'
  BY TellsSame
<1> QED BY <1>1 DEF Agree, Tells, Whole

LEMMA SameView ==
  ASSUME objs' = objs, \A i \in DOMAIN objs : Content(i)' = Content(i)
  PROVE  View' = View
BY ViewSame

LEMMA Throws ==
  ASSUME Underway, NEW code, code # "ok", NEW c, Throw(code, c, localFiles), objs' = objs, View = pre.view,
         (faults > 0 /\ faults' = faults - 1) \/ (Tells(c, {}) /\ Whole(localFiles) /\ Excused)
  PROVE  CallInv'
<1>1. todo' = <<>> /\ reply'.code # "ok" /\ cache' = c /\ localFiles' = localFiles
  BY DEF Throw
<1>2. View' = pre.view
  BY <1>1 DEF View, Content, PathOf
<1>3. ~Orphaned => \E V : V = View' /\ Elsewhere(V) = Elsewhere(pre.view)
  BY <1>2
<1>4. CASE faults > 0 /\ faults' = faults - 1
  BY <1>1, <1>3, <1>4, Stops
<1>5. CASE Tells(c, {}) /\ Whole(localFiles) /\ Excused
  <2>1. Agree'
    <3>1. PICK files : files = localFiles
      OBVIOUS
    <3> QED BY <1>1, <1>5, <3>1, AgreeAfter
  <2> QED BY <1>1, <1>3, <1>5, <2>1, Stops
<1> QED BY <1>4, <1>5

LEMMA AskingFails ==
  ASSUME Underway, ReadFails, ~At("rename"), Live(Arg(2)), View = pre.view
  PROVE  CallInv'
<1>1. faults > 0 /\ faults' = faults - 1 /\ objs' = objs /\ \E c : Throw("EIO", c, localFiles)
  BY DEF ReadFails, device
<1>2. PICK c : Throw("EIO", c, localFiles)
  BY <1>1
<1> QED BY <1>1, <1>2, Throws

LEMMA Refuses ==
  ASSUME Underway, At("throw"), Arg(2) # "ok", Agree, Excused, View = pre.view
  PROVE  CallInv'
<1>1. Refuse
  BY WhichStep DEF Underway
<1>2. ~At("rename")
  BY DEF At
<1>3. PICK code, c : code = Arg(2) /\ c = cache
  OBVIOUS
<1>4. Throw(code, c, localFiles) /\ objs' = objs /\ code # "ok"
  BY <1>1, <1>2, <1>3 DEF Refuse, NoDeviceChange, device
<1> QED BY <1>3, <1>4, Throws DEF Agree

LEMMA Finishes ==
  ASSUME Underway, todo' = <<>>, reply' = reply, Agree',
         ~Orphaned => View' = Effect(pre.view, call),
         call.op \notin {"read", "flush", "release"}
  PROVE  CallInv'
<1>1. call' = call /\ pre' = pre
  BY UnderwayFacts
<1>2. Asked' /\ (~Orphaned' => (View = Effect(pre.view, call))') /\ reply'.code = "ok"
  BY <1>1, SameCall DEF Underway
<1> QED BY <1>1, <1>2 DEF CallInv, Did

LEMMA Looks ==
  ASSUME Underway, todo' = <<>>, reply' = reply, NEW c, cache' = c, Tells(c, {}), NEW files, localFiles' = files, Whole(files),
         objs' = objs, \A i \in DOMAIN objs : Content(i)' = Content(i), View = pre.view,
         Effect(pre.view, call) = pre.view, call.op \notin {"read", "flush", "release"}
  PROVE  CallInv'
<1>1. View' = View
  BY SameView
<1>2. Agree'
  BY AgreeAfter
<1> QED BY <1>1, <1>2, Finishes


LEMMA RestParts ==
  ASSUME NEW s, todo = <<s>> \o Rest
  PROVE  Head(todo) = s /\ Tail(todo) = Rest
<1>1. CASE call.op = "create"
  <2>1. PICK t : t = Lookup(call.path, <<"opened">>)
    OBVIOUS
  <2>2. Rest = <<t>>
    BY <1>1, <2>1 DEF Rest
  <2>3. <<s>> \o <<t>> = <<s, t>> /\ Head(<<s, t>>) = s /\ Tail(<<s, t>>) = <<t>>
    BY ShortConcat
  <2>4. todo = <<s, t>>
    BY <2>2, <2>3
  <2> QED BY <2>2, <2>3, <2>4
<1>2. CASE call.op # "create"
  <2>1. Rest = <<>>
    BY <1>2 DEF Rest
  <2> QED BY <2>1, ShortConcat
<1> QED BY <1>1, <1>2

LEMMA TargetType ==
  ASSUME Underway
  PROVE  Target \in Path /\ Target # <<>> /\ Target \in Seq(PathElem)
<1>1. WellFormed(call)
  BY UnderwayFacts
<1>2. Target \in Path /\ Target # <<>>
  BY <1>1, LongPathParts DEF Target, WellFormed, Call
<1> QED BY <1>2 DEF Path, PathElem

(* A path that leads nowhere is an excuse.                                 *)
LEMMA MissingExcused ==
  ASSUME Underway, View = pre.view, Missing(Target), Len(Target) > 1
  PROVE  Excused
<1>0. Len(Target) # 1
  <2>1. PICK l \in Nat : l = Len(Target)
    BY TargetType, LenProperties
  <2>2. l > 1
    BY <2>1
  <2>3. l # 1
    BY <2>2
  <2> QED BY <2>1, <2>3
<1>1. \A v \in pre.view : v.path # Target
  <2> SUFFICES ASSUME NEW v \in pre.view, v.path = Target PROVE FALSE
    OBVIOUS
  <2>1. PICK i \in DOMAIN objs : v = Item(i)
    BY ViewItems
  <2>2. PathOf(i) = Target
    BY <2>1 DEF Item
  <2>3. IsPrefix(Target, Target)
    BY TargetType, PrefixSelf
  <2> QED BY <2>2, <2>3 DEF Missing
<1>2. CASE call.op \in {"mkdir", "create"}
  <2>1. FolderAt(Target)
    BY <1>2 DEF Underway, Asked, Target
  <2>2. Len(Target) # 1
    BY <1>0
  <2> QED BY <1>1, <2>1, <2>2 DEF FolderAt
<1>3. CASE call.op \notin {"mkdir", "create"}
  <2>1. Target = call.path /\ Len(Target) # 1
    BY <1>0, <1>3 DEF Target
  <2> QED BY <1>1, <1>3, <2>1 DEF Excused
<1> QED BY <1>2, <1>3

LEMMA StillBefore ==
  ASSUME Underway, View = pre.view, Room, objs' = objs, nextId' = nextId, localFiles' = localFiles, reply' = reply,
         NEW c, cache' = c, Tells(c, {}), Whole(localFiles),
         \/ \E dir, rest : /\ Walking(dir, rest, Target)
                           /\ todo' = << <<"getNode", dir, rest, <<"invoke">> >> >> \o Rest
         \/ \E node : FoundAt(node, Target) /\ todo' = Invoke(call, node) \o Rest
  PROVE  CallInv'
<1>1. call' = call /\ pre' = pre
  BY UnderwayFacts
<1>2. Agree'
  <2>1. PICK files : files = localFiles
    OBVIOUS
  <2> QED BY <2>1, AgreeAfter
<1>3. View' = pre'.view
  BY <1>1 DEF View, Content, PathOf
<1>4. Room'
  BY <1>1 DEF Room
<1>5. PICK t, r : t = Target /\ r = Rest
  OBVIOUS
<1>6. Target' = t /\ Rest' = r
  BY <1>1, <1>5, SameCall
<1>7. Searching' \/ Reached'
  <2>1. CASE \E dir, rest : Walking(dir, rest, t) /\ todo' = << <<"getNode", dir, rest, <<"invoke">> >> >> \o r
    <3>1. PICK dir, rest : Walking(dir, rest, t) /\ todo' = << <<"getNode", dir, rest, <<"invoke">> >> >> \o r
      BY <2>1
    <3>2. Walking(dir, rest, t)'
      BY <3>1 DEF Walking, IsFolderNode, NodePath, PathOf
    <3> QED BY <1>6, <3>1, <3>2 DEF Searching
  <2>2. CASE \E node : FoundAt(node, t) /\ todo' = Invoke(call, node) \o r
    <3>1. PICK node : FoundAt(node, t) /\ todo' = Invoke(call, node) \o r
      BY <2>2
    <3>2. FoundAt(node, t)'
      BY <3>1 DEF FoundAt, NodePath, PathOf, Live
    <3>3. todo' = (Invoke(call, node) \o Rest)'
      BY <1>1, <1>6, <3>1 DEF Invoke
    <3> QED BY <1>6, <3>2, <3>3 DEF Reached
  <2> QED BY <1>5, <2>1, <2>2
<1>8. Asked' /\ reply'.code = "ok"
  BY <1>1, SameCall DEF Underway
<1> QED BY <1>2, <1>3, <1>4, <1>7, <1>8 DEF CallInv, Before

LEMMA SearchStep ==
  ASSUME Underway, View = pre.view, Agree, Room, Searching
  PROVE  CallInv'
<1>0. Base /\ NoTwins(objs) /\ todo # <<>>
  BY UnderwayFacts
<1>1. PICK dir, rest : Walking(dir, rest, Target) /\ todo = << <<"getNode", dir, rest, <<"invoke">> >> >> \o Rest
  BY DEF Searching
<1>2. PICK s : s = <<"getNode", dir, rest, <<"invoke">> >>
  OBVIOUS
<1>3. Head(todo) = s /\ Tail(todo) = Rest
  BY <1>1, <1>2, RestParts
<1>4. At("getNode") /\ ~At("rename") /\ Arg(2) = dir /\ Arg(3) = rest /\ Arg(4) = <<"invoke">>
  BY <1>0, <1>2, <1>3 DEF At, Arg
<1>5. Live(dir) /\ IsFolderNode(dir)
  BY <1>1 DEF Walking, IsFolderNode, Live
<1>6. CASE ReadFails
  BY <1>4, <1>5, <1>6, AskingFails
<1>7. ASSUME NEW node, NEW c, FoundAt(node, Target), Goto(Then(<<"invoke">>, node), c, localFiles),
             Tells(c, {}), NoDeviceChange
      PROVE  CallInv'
  <2>1. Then(<<"invoke">>, node) = Invoke(call, node)
    BY DEF Then
  <2>2. todo' = Invoke(call, node) \o Rest /\ cache' = c /\ localFiles' = localFiles /\ reply' = reply
    BY <1>3, <1>7, <2>1 DEF Goto
  <2> QED BY <1>7, <2>2, StillBefore DEF Agree, NoDeviceChange, device
<1>8. CASE GetNode
  <2>0. NoDeviceChange
    BY <1>8 DEF GetNode
  <2>1. CASE rest = <<>> /\ Goto(Then(<<"invoke">>, [id |-> dir, file |-> FALSE]), cache, localFiles)
    <3>1. dir \in Storages
      <4>1. Head(todo) \in TrueStep
        BY <1>0, <1>4, TrueArguments
      <4> QED BY <1>2, <1>3, <2>1, <4>1 DEF TrueStep
    <3>2. PICK node, c : node = [id |-> dir, file |-> FALSE] /\ c = cache
      OBVIOUS
    <3>3. FoundAt(node, Target)
      BY <1>0, <1>1, <2>1, <3>1, <3>2, WalkEnds
    <3> QED BY <1>7, <2>0, <2>1, <3>2, <3>3 DEF Agree
  <2>2. CASE rest # <<>> /\ \E r \in getItem(dir) :
                 LET found == {e \in r.md.children : e.name = Head(rest)}
                 IN  \/ found = {} /\ Throw("ENOENT", r.cache, localFiles)
                     \/ \E e \in found :
                          Goto(IF e.file \/ Len(rest) = 1
                               THEN Then(<<"invoke">>, [id |-> e.id, file |-> e.file])
                               ELSE << <<"getNode", e.id, Tail(rest), <<"invoke">> >> >>,
                               r.cache, localFiles)
    <3>1. PICK r \in getItem(dir) :
                 LET found == {e \in r.md.children : e.name = Head(rest)}
                 IN  \/ found = {} /\ Throw("ENOENT", r.cache, localFiles)
                     \/ \E e \in found :
                          Goto(IF e.file \/ Len(rest) = 1
                               THEN Then(<<"invoke">>, [id |-> e.id, file |-> e.file])
                               ELSE << <<"getNode", e.id, Tail(rest), <<"invoke">> >> >>,
                               r.cache, localFiles)
      BY <2>2
    <3>2. r.md = getMetadata(dir) /\ Tells(r.cache, {})
      BY <1>5, ItemTells DEF Agree
    <3>3. PICK c : c = r.cache
      OBVIOUS
    <3>4. CASE Throw("ENOENT", r.cache, localFiles) /\ \A e \in getMetadata(dir).children : e.name # Head(rest)
      <4>1. Missing(Target) /\ Len(Target) > 1
        BY <1>0, <1>1, <2>2, <3>4, WalkFails
      <4>2. Excused
        BY <4>1, MissingExcused
      <4>3. Throw("ENOENT", c, localFiles) /\ objs' = objs /\ Tells(c, {}) /\ Whole(localFiles)
        BY <2>0, <3>2, <3>3, <3>4 DEF NoDeviceChange, device, Agree
      <4> QED BY <4>2, <4>3, Throws
    <3>5. ASSUME NEW e \in getMetadata(dir).children, e.name = Head(rest),
                 Goto(IF e.file \/ Len(rest) = 1
                               THEN Then(<<"invoke">>, [id |-> e.id, file |-> e.file])
                               ELSE << <<"getNode", e.id, Tail(rest), <<"invoke">> >> >>,
                               c, localFiles)
          PROVE  CallInv'
      <4>1. /\ Walking(e.id, Tail(rest), Target) \/ e.file
            /\ e.file \/ Len(rest) = 1 => FoundAt([id |-> e.id, file |-> e.file], Target)
        BY <1>0, <1>1, <2>2, <3>5, WalkOn
      <4>2. CASE e.file \/ Len(rest) = 1
        <5>1. PICK node : node = [id |-> e.id, file |-> e.file]
          OBVIOUS
        <5> QED BY <1>7, <2>0, <3>2, <3>3, <3>5, <4>1, <4>2, <5>1
      <4>3. CASE ~(e.file \/ Len(rest) = 1)
        <5>1. PICK d, t : d = e.id /\ t = Tail(rest)
          OBVIOUS
        <5>2. Walking(d, t, Target)
          BY <4>1, <4>3, <5>1
        <5>3. /\ todo' = << <<"getNode", d, t, <<"invoke">> >> >> \o Rest /\ cache' = c
              /\ localFiles' = localFiles /\ reply' = reply
          BY <1>3, <3>5, <4>3, <5>1 DEF Goto
        <5>4. Tells(c, {}) /\ Whole(localFiles) /\ objs' = objs /\ nextId' = nextId
          BY <2>0, <3>2, <3>3 DEF Agree, NoDeviceChange, device
        <5> QED BY <5>2, <5>3, <5>4, StillBefore
      <4> QED BY <4>2, <4>3
    <3>6. \/ Throw("ENOENT", r.cache, localFiles) /\ \A e \in getMetadata(dir).children : e.name # Head(rest)
          \/ \E e \in getMetadata(dir).children : e.name = Head(rest) /\
                 Goto(IF e.file \/ Len(rest) = 1
                               THEN Then(<<"invoke">>, [id |-> e.id, file |-> e.file])
                               ELSE << <<"getNode", e.id, Tail(rest), <<"invoke">> >> >>,
                               c, localFiles)
      BY <3>1, <3>2, <3>3
    <3> QED BY <3>4, <3>5, <3>6
  <2> QED BY <1>4, <1>8, <2>1, <2>2 DEF GetNode
<1> QED BY <1>4, <1>6, <1>8, WhichStep DEF Underway


-----------------------------------------------------------------------------
(* The operation on the node the path led to.                              *)
LEMMA NodeKind ==
  ASSUME Underway, View = pre.view, NEW node, FoundAt(node, Target)
  PROVE  /\ FileAt(Target) => node.file /\ PathOf(node.id) = Target /\ Item(node.id) \in pre.view
         /\ FolderAt(Target) => ~node.file
         /\ node.file /\ ~FileAt(Target) => \A v \in pre.view : v.path # Target
         /\ node.file => node.id \in DOMAIN objs /\ objs[node.id].file = TRUE
         /\ ~node.file => IsFolderNode(node.id) /\ NodePath(node.id) = Target
         /\ node.file \in BOOLEAN /\ node.id \in NodeIds /\ Live(node.id)
         /\ Len(Target) = 1 => node.id \in Storages
         /\ \A i \in DOMAIN objs : PathOf(i) = Target => node.id = i
<1>0. Base /\ NoTwins(objs) /\ Target \in Seq(PathElem)
  BY UnderwayFacts, TargetType
<1>1. /\ \A i \in DOMAIN objs : PathOf(i) = Target => node.id = i
      /\ Len(Target) = 1 => ~node.file /\ node.id \in Storages
      /\ node.file => node.id \in DOMAIN objs /\ objs[node.id].file
      /\ node.file \in BOOLEAN /\ node.id \in NodeIds
      /\ ~node.file => IsFolderNode(node.id) /\ NodePath(node.id) = Target
  BY <1>0, FoundIs
<1>2. \A i \in DOMAIN objs : objs[i].file \in BOOLEAN
  BY UnderwayFacts, ObjectFields
<1>3. ASSUME NEW v \in pre.view, v.path = Target
      PROVE  PathOf(node.id) = Target /\ v = Item(node.id) /\ v.file = node.file /\ node.id \in DOMAIN objs
  <2>1. PICK i \in DOMAIN objs : v = Item(i)
    BY ViewItems
  <2>2. PathOf(i) = Target /\ v.file = objs[i].file
    BY <1>3, <2>1 DEF Item
  <2>3. node.id = i
    BY <1>1, <2>2
  <2>4. node.file = objs[i].file
    BY <1>1, <1>2, <2>3 DEF FoundAt
  <2> QED BY <2>1, <2>2, <2>3, <2>4
<1>4. Live(node.id)
  BY DEF FoundAt
<1> QED BY <1>1, <1>2, <1>3, <1>4 DEF FileAt, FolderAt

LEMMA InvokeIs ==
  ASSUME NEW node
  PROVE  /\ call.op = "getattr"  => Invoke(call, node) = << <<"getattr", node.id>> >>
         /\ call.op = "statfs"   => Invoke(call, node) = << <<"getItem", node.id>> >>
         /\ call.op = "readdir" /\ ~node.file => Invoke(call, node) = << <<"getItem", node.id>> >>
         /\ call.op = "mkdir" /\ ~node.file   => Invoke(call, node) = << <<"mkdir", node.id, Last(call.path)>> >>
         /\ call.op = "create" /\ ~node.file  => Invoke(call, node) = << <<"createFile", node.id, Last(call.path)>> >>
         /\ call.op = "open" /\ node.file     => Invoke(call, node) = << <<"open", node.id>> >>
         /\ call.op = "read" /\ node.file     => Invoke(call, node) = << <<"read", node.id>> >>
         /\ call.op = "write" /\ node.file    => Invoke(call, node) = << <<"write", node.id, call.off, call.byte>> >>
         /\ call.op = "truncate" /\ node.file => Invoke(call, node) = << <<"truncate", node.id, call.off>> >>
         /\ call.op \in {"flush", "release"} /\ node.file => Invoke(call, node) = << <<"fsync", node.id>> >>
         /\ call.op \in {"read", "write", "flush", "release"} /\ ~node.file
              => Invoke(call, node) = << <<"throw", "EIO">> >>
         /\ call.op \in {"unlink", "rmdir"} /\ node.id \in Storages => Invoke(call, node) = << <<"throw", "EROFS">> >>
         /\ call.op \in {"unlink", "rmdir"} /\ node.id \notin Storages
              => Invoke(call, node) = << <<"remove", node.id, node.file>> >>
         /\ call.op \notin {"getattr", "statfs", "readdir", "mkdir", "create", "open", "read", "write", "truncate",
                            "flush", "release", "unlink", "rmdir"} => Invoke(call, node) = <<>>
BY DEF Invoke, NotImplemented

LEMMA InvokeParts ==
  ASSUME Underway, call.op # "create", NEW node, NEW s, Invoke(call, node) = <<s>>,
         todo = Invoke(call, node) \o Rest
  PROVE  todo = <<s>> /\ Head(todo) = s /\ Tail(todo) = <<>>
<1>1. Rest = <<>>
  BY DEF Rest
<1>2. <<s>> \o <<>> = <<s>> /\ Head(<<s>>) = s /\ Tail(<<s>>) = <<>>
  BY ShortConcat
<1>3. todo = <<s>>
  BY <1>1, <1>2
<1> QED BY <1>2, <1>3

LEMMA SomethingToDo ==
  ASSUME Underway, NEW node, todo = Invoke(call, node) \o Rest
  PROVE  Invoke(call, node) # <<>>
<1> SUFFICES ASSUME Invoke(call, node) = <<>> PROVE FALSE
  OBVIOUS
<1>1. CASE call.op = "create"
  <2>1. CASE node.file
    BY <1>1, <2>1 DEF Invoke, NotImplemented
  <2>2. CASE ~node.file
    BY <1>1, <2>2 DEF Invoke, NotImplemented
  <2> QED BY <2>1, <2>2
<1>2. CASE call.op # "create"
  <2>1. Rest = <<>>
    BY <1>2 DEF Rest
  <2>2. todo = <<>>
    BY <2>1, ShortConcat
  <2> QED BY <2>2, UnderwayFacts
<1> QED BY <1>1, <1>2

LEMMA ItemStep ==
  ASSUME Underway, View = pre.view, Agree, NEW node, FoundAt(node, Target), todo = Invoke(call, node) \o Rest,
         call.op \in {"getattr", "statfs", "readdir"}
  PROVE  CallInv'
<1>1. Live(node.id) /\ (call.op = "readdir" => ~node.file)
  BY NodeKind DEF Underway, Asked, Target
<1>2. PICK s, a : s = <<a, node.id>> /\ a \in {"getattr", "getItem"} /\ Invoke(call, node) = <<s>>
  BY <1>1, InvokeIs
<1>3. todo = <<s>> /\ Head(todo) = s /\ Tail(todo) = <<>>
  BY <1>2, InvokeParts
<1>4. At(a) /\ ~At("rename") /\ Arg(2) = node.id
  <2>1. Head(todo)[1] = a /\ Head(todo)[2] = node.id /\ todo # <<>>
    BY <1>2, <1>3
  <2> QED BY <1>2, <2>1 DEF At, Arg
<1>5. GetAttr \/ ReadFails
  BY <1>2, <1>4, WhichStep DEF Underway
<1>6. CASE ReadFails
  BY <1>1, <1>4, <1>6, AskingFails
<1>7. CASE GetAttr
  <2>1. PICK r \in getItem(node.id) : Goto(<<>>, r.cache, localFiles)
    BY <1>4, <1>7 DEF GetAttr
  <2>2. PICK c, files : c = r.cache /\ files = localFiles
    OBVIOUS
  <2>3. Tells(c, {}) /\ Whole(files)
    BY <1>1, <2>1, <2>2, ItemTells DEF Agree
  <2>4. todo' = <<>> /\ reply' = reply /\ cache' = c /\ localFiles' = files /\ objs' = objs
    BY <1>3, <1>7, <2>1, <2>2, ShortConcat DEF Goto, GetAttr, NoDeviceChange, device
  <2>5. \A i \in DOMAIN objs : Content(i)' = Content(i)
    BY <2>2, <2>4 DEF Content
  <2>6. Effect(pre.view, call) = pre.view
    BY DEF Effect
  <2> QED BY <2>3, <2>4, <2>5, <2>6, Looks
<1> QED BY <1>5, <1>6, <1>7

LEMMA OpenContents ==
  ASSUME Base, NEW n, NEW files \in openFile(n)
  PROVE  /\ n \in DOMAIN files /\ DOMAIN files = DOMAIN localFiles \cup {n}
         /\ \A i \in DOMAIN localFiles : files[i] = localFiles[i]
         /\ n \notin DOMAIN localFiles =>
              /\ n \in DOMAIN objs
              /\ files[n] = [data |-> objs[n].data, dirty |-> FALSE, broken |-> FALSE]
              /\ files[n].data = objs[n].data /\ ~files[n].broken
         /\ Whole(localFiles) => Whole(files) /\ files[n].data = Content(n)
         /\ n \in ObjIds /\ files[n].data \in Data
<1>1. /\ n \in DOMAIN files /\ DOMAIN files = DOMAIN localFiles \cup {n}
      /\ \A i \in DOMAIN localFiles : files[i] = localFiles[i]
      /\ n \notin DOMAIN localFiles =>
              /\ n \in DOMAIN objs
              /\ files[n] = [data |-> objs[n].data, dirty |-> FALSE, broken |-> FALSE]
      /\ n \in ObjIds /\ files[n] \in Copy
  BY BaseFacts, OpenFileType
<1>2. n \notin DOMAIN localFiles => files[n].data = objs[n].data /\ ~files[n].broken
  BY <1>1
<1>3. Whole(localFiles) => Whole(files) /\ files[n].data = Content(n)
  BY <1>1, <1>2 DEF Whole, Content
<1>4. files[n].data \in Data
  BY <1>1 DEF Copy
<1> QED BY <1>1, <1>2, <1>3, <1>4

LEMMA OpenStep ==
  ASSUME Underway, View = pre.view, Agree, NEW node, FoundAt(node, Target), todo = Invoke(call, node) \o Rest,
         call.op \in {"open", "read"}
  PROVE  CallInv'
<1>0. Base /\ call' = call /\ pre' = pre
  BY UnderwayFacts
<1>1. CASE ~node.file
  <2>1. call.op = "read" /\ Orphaned
    BY <1>1, NodeKind DEF Underway, Asked, Target, FileAt, Orphaned
  <2>2. PICK s : s = <<"throw", "EIO">>
    OBVIOUS
  <2>3. Head(todo) = s /\ todo = <<s>>
    BY <1>1, <2>1, <2>2, InvokeIs, InvokeParts
  <2>4. At("throw") /\ Arg(2) = "EIO"
    BY <2>2, <2>3 DEF At, Arg
  <2>5. Excused
    BY <2>1 DEF Excused
  <2> QED BY <2>4, <2>5, Refuses
<1>2. CASE node.file
  <2>1. Live(node.id)
    BY NodeKind
  <2>2. PICK s, a : s = <<a, node.id>> /\ a = call.op /\ Invoke(call, node) = <<s>>
    BY <1>2, InvokeIs
  <2>3. todo = <<s>> /\ Head(todo) = s /\ Tail(todo) = <<>>
    BY <2>2, InvokeParts
  <2>4. At(a) /\ ~At("rename") /\ Arg(2) = node.id
    <3>1. Head(todo)[1] = a /\ Head(todo)[2] = node.id /\ todo # <<>>
      BY <2>2, <2>3
    <3> QED BY <2>2, <3>1 DEF At, Arg
  <2>5. CASE ReadFails
    BY <2>1, <2>4, <2>5, AskingFails
  <2>6. ASSUME NEW files \in openFile(node.id), todo' = <<>>, localFiles' = files, cache' = cache, objs' = objs
        PROVE  View' = View /\ Agree' /\ files[node.id].data = Content(node.id)
    <3>1. Whole(files) /\ files[node.id].data = Content(node.id)
      BY <1>0, <2>6, OpenContents DEF Agree
    <3>2. \A i \in DOMAIN objs : Content(i)' = Content(i)
      <4>1. /\ DOMAIN files = DOMAIN localFiles \cup {node.id}
            /\ \A i \in DOMAIN localFiles : files[i] = localFiles[i]
            /\ node.id \notin DOMAIN localFiles => files[node.id].data = objs[node.id].data
        BY <1>0, OpenContents
      <4>2. ASSUME NEW i \in DOMAIN objs PROVE Content(i)' = Content(i)
        <5>1. CASE i \in DOMAIN localFiles
          BY <2>6, <4>1, <5>1 DEF Content
        <5>2. CASE i \notin DOMAIN localFiles
          BY <2>6, <4>1, <5>2 DEF Content
        <5> QED BY <5>1, <5>2
      <4> QED BY <4>2
    <3>3. PICK c : c = cache
      OBVIOUS
    <3>4. Agree'
      BY <2>6, <3>1, <3>3, AgreeAfter DEF Agree
    <3> QED BY <2>6, <3>1, <3>2, <3>4, SameView
  <2>7. CASE Open
    <3>1. PICK files \in openFile(node.id) : Goto(<<>>, cache, files)
      BY <2>4, <2>7 DEF Open
    <3>2. todo' = <<>> /\ reply' = reply /\ cache' = cache /\ localFiles' = files /\ objs' = objs
      BY <2>3, <2>7, <3>1, ShortConcat DEF Goto, Open, NoDeviceChange, device
    <3>3. call.op = "open"
      BY <2>2, <2>3, <2>7 DEF Open, At
    <3>4. Effect(pre.view, call) = pre.view
      BY <3>3 DEF Effect
    <3> QED BY <2>6, <3>2, <3>3, <3>4, Finishes
  <2>8. CASE Read
    <3>1. PICK files \in openFile(node.id) :
            todo' = Tail(todo) /\ localFiles' = files /\ UNCHANGED cache
            /\ reply' = [code |-> "ok", data |-> files[node.id].data]
      BY <2>4, <2>8 DEF Read
    <3>2. todo' = <<>> /\ objs' = objs
      BY <2>3, <2>8, <3>1 DEF Read, NoDeviceChange, device
    <3>3. View' = View /\ Agree' /\ files[node.id].data = Content(node.id)
      BY <2>6, <3>1, <3>2
    <3>4. reply'.code = "ok" /\ reply'.data = Content(node.id)
      BY <3>1, <3>3
    <3>5. call.op = "read"
      BY <2>2, <2>3, <2>8 DEF Read, At
    <3>6. Effect(pre.view, call) = pre.view
      BY <3>5 DEF Effect
    <3>7. ASSUME ~Orphaned
          PROVE  [path |-> call.path, file |-> TRUE, data |-> reply'.data] \in pre.view
      <4>1. FileAt(Target) /\ Target = call.path
        BY <3>5, <3>7 DEF Orphaned, FileAt, Target
      <4>2. PathOf(node.id) = call.path /\ Item(node.id) \in pre.view /\ objs[node.id].file = TRUE
        BY <4>1, NodeKind
      <4> QED BY <3>4, <4>2 DEF Item
    <3>8. Asked' /\ Orphaned' = Orphaned /\ Effect(pre.view, call)' = Effect(pre.view, call)
      BY <1>0, SameCall DEF Underway
    <3> QED BY <1>0, <3>2, <3>3, <3>4, <3>5, <3>6, <3>7, <3>8 DEF CallInv, Did
  <2> QED BY <2>2, <2>4, <2>5, <2>7, <2>8, WhichStep DEF Underway
<1> QED BY <1>1, <1>2, NodeKind


LEMMA ParentIs ==
  ASSUME Base, NEW n \in DOMAIN objs
  PROVE  GetParentNodeId(getMetadata(n)) = ParentNode(n) /\ getMetadata(n).size = Len(objs[n].data)
BY NodePathType DEF getMetadata, GetParentNodeId, ParentNode, Live

LEMMA ViewChanges ==
  ASSUME objs' = objs, NEW n \in DOMAIN objs, \A i \in DOMAIN objs \ {n} : Content(i)' = Content(i), NEW d, Content(n)' = d
  PROVE  View' = {Item(i) : i \in DOMAIN objs \ {n}} \cup {[path |-> PathOf(n), file |-> objs[n].file, data |-> d]}
<1>1. \A i \in DOMAIN objs \ {n} : Item(i)' = Item(i)
  BY DEF Item, PathOf
<1>2. Item(n)' = [path |-> PathOf(n), file |-> objs[n].file, data |-> d]
  BY DEF Item, PathOf
<1>3. View' = {Item(i)' : i \in DOMAIN objs}
  BY DEF View, Item
<1> QED BY <1>1, <1>2, <1>3

(* Writing in a file, or cutting it, changes what it shows and no other.   *)
LEMMA EffectOnFile ==
  ASSUME Base, NoTwins(objs), View = pre.view, NEW n \in DOMAIN objs, objs[n].file, PathOf(n) = call.path, NEW d,
         \/ call.op = "write" /\ d = WriteAt(Content(n), call.off, call.byte)
         \/ call.op = "truncate" /\ d = Resize(Content(n), call.off)
  PROVE  Effect(pre.view, call) =
           {Item(i) : i \in DOMAIN objs \ {n}} \cup {[path |-> PathOf(n), file |-> objs[n].file, data |-> d]}
<1>1. Subtree(objs, n) = {n}
  BY BaseFacts, NothingInAFile
<1>2. PICK p : p = call.path
  OBVIOUS
<1>3. /\ {v \in View : Below(v, p)} = {Item(n)}
      /\ {v \in View : ~Below(v, p)} = {Item(i) : i \in DOMAIN objs \ {n}}
  BY <1>1, <1>2, OnlyThat
<1>4. PICK P, F, D, x, y : /\ P = PathOf(n) /\ F = objs[n].file /\ D = Content(n)
                           /\ x = WriteAt(D, call.off, call.byte) /\ y = Resize(D, call.off)
  OBVIOUS
<1>5. PICK w : w = [path |-> P, file |-> F, data |-> D]
  OBVIOUS
<1>6. /\ w.data = D /\ Item(n) = w
      /\ [w EXCEPT !.data = x] = [path |-> P, file |-> F, data |-> x]
      /\ [w EXCEPT !.data = y] = [path |-> P, file |-> F, data |-> y]
  <2>1. Item(n) = w
    BY <1>4, <1>5 DEF Item
  <2>2. \A z : w.data = D /\ [w EXCEPT !.data = z] = [path |-> P, file |-> F, data |-> z]
    BY <1>5
  <2> QED BY <2>1, <2>2
<1>7. PICK R, T : R = {v \in View : ~Below(v, p)} /\ T = {v \in View : Below(v, p)}
  OBVIOUS
<1>8. T = {w}
  BY <1>3, <1>6, <1>7
<1>9. CASE call.op = "write"
  <2>1. Effect(pre.view, call) = R \cup {[v EXCEPT !.data = WriteAt(v.data, call.off, call.byte)] : v \in T}
    BY <1>2, <1>7, <1>9 DEF Effect
  <2>2. Effect(pre.view, call) = R \cup {[w EXCEPT !.data = WriteAt(w.data, call.off, call.byte)]}
    BY <1>8, <2>1
  <2>3. d = x
    BY <1>4, <1>9
  <2> QED BY <1>3, <1>4, <1>6, <1>7, <2>2, <2>3
<1>10. CASE call.op = "truncate"
  <2>1. Effect(pre.view, call) = R \cup {[v EXCEPT !.data = Resize(v.data, call.off)] : v \in T}
    BY <1>2, <1>7, <1>10 DEF Effect
  <2>2. Effect(pre.view, call) = R \cup {[w EXCEPT !.data = Resize(w.data, call.off)]}
    BY <1>8, <2>1
  <2>3. d = y
    BY <1>4, <1>10
  <2> QED BY <1>3, <1>4, <1>6, <1>7, <2>2, <2>3
<1> QED BY <1>9, <1>10

LEMMA FileStepHead ==
  ASSUME Underway, View = pre.view, NEW node, FoundAt(node, Target), todo = Invoke(call, node) \o Rest, node.file,
         NEW s, Invoke(call, node) = <<s>>, s[2] = node.id, s[1] # "rename"
  PROVE  /\ todo = <<s>> /\ Head(todo) = s /\ Tail(todo) = <<>>
         /\ \A a : At(a) <=> a = s[1]
         /\ \A k : Arg(k) = s[k]
         /\ node.id \in DOMAIN objs /\ objs[node.id].file = TRUE /\ Live(Arg(2)) /\ Live(node.id)
<1>1. call.op # "create"
  BY InvokeIs, NodeKind DEF Underway, Asked, Target
<1>2. todo = <<s>> /\ Head(todo) = s /\ Tail(todo) = <<>>
  BY <1>1, InvokeParts
<1>3. node.id \in DOMAIN objs /\ objs[node.id].file = TRUE /\ Live(node.id)
  BY NodeKind
<1>4. todo # <<>>
  BY UnderwayFacts
<1> QED BY <1>2, <1>3, <1>4 DEF At, Arg

(* The file a handle is for: the one at the path, unless the handle is an  *)
(* orphan.                                                                 *)
LEMMA TheFile ==
  ASSUME Underway, View = pre.view, NEW node, FoundAt(node, Target), node.file,
         call.op \in {"write", "truncate", "flush", "release"}
  PROVE  /\ ~Orphaned => PathOf(node.id) = call.path
         /\ call.op = "truncate" => PathOf(node.id) = call.path
         /\ Strays \/ PathOf(node.id) = call.path
<1>1. Target = call.path
  BY DEF Target
<1>2. \/ FileAt(Target) /\ PathOf(node.id) = Target
      \/ ~FileAt(Target) /\ \A v \in pre.view : v.path # Target
  BY NodeKind
<1>3. call.op = "truncate" => FileAt(Target)
  BY <1>1 DEF Underway, Asked
<1>4. call.op # "truncate" => (Orphaned <=> ~FileAt(Target))
  BY <1>1 DEF Orphaned, FileAt
<1> QED BY <1>1, <1>2, <1>3, <1>4 DEF Strays

LEMMA NoFileIsOrphan ==
  ASSUME Underway, View = pre.view, Agree, NEW node, FoundAt(node, Target), todo = Invoke(call, node) \o Rest,
         call.op \in {"write", "truncate", "flush", "release"}, ~node.file
  PROVE  CallInv'
<1>1. call.op # "truncate" /\ Orphaned
  BY NodeKind DEF Underway, Asked, Target, FileAt, Orphaned
<1>2. PICK s : s = <<"throw", "EIO">>
  OBVIOUS
<1>3. Head(todo) = s /\ todo = <<s>>
  BY <1>1, <1>2, InvokeIs, InvokeParts
<1>4. At("throw") /\ Arg(2) = "EIO"
  BY <1>2, <1>3 DEF At, Arg
<1>5. Excused
  BY <1>1 DEF Excused
<1> QED BY <1>4, <1>5, Refuses

LEMMA OthersKeepContents ==
  ASSUME Base, NEW n, NEW files \in openFile(n), NEW d, objs' = objs,
         localFiles' = [files EXCEPT ![n].data = d, ![n].dirty = TRUE], ~files[n].broken, Whole(localFiles)
  PROVE  /\ Whole(localFiles')
         /\ \A i \in DOMAIN objs \ {n} : Content(i)' = Content(i)
         /\ Content(n)' = d
<1>1. /\ n \in DOMAIN files /\ DOMAIN files = DOMAIN localFiles \cup {n}
      /\ \A i \in DOMAIN localFiles : files[i] = localFiles[i]
      /\ Whole(files)
  BY OpenContents
<1>2. IsMap(files, ObjIds, Copy)
  BY BaseFacts, OpenFileType
<1>3. PICK gs : gs = [files EXCEPT ![n].data = d, ![n].dirty = TRUE]
  OBVIOUS
<1>4. /\ DOMAIN gs = DOMAIN files /\ gs[n].data = d /\ gs[n].broken = files[n].broken
      /\ \A i \in DOMAIN files \ {n} : gs[i] = files[i]
  <2>1. files[n] \in Copy
    BY <1>1, <1>2, MapElements
  <2> QED BY <1>1, <1>3, <2>1 DEF Copy
<1>5. localFiles' = gs
  BY <1>3
<1>6. Whole(gs)
  BY <1>1, <1>4 DEF Whole
<1>7. \A i \in DOMAIN objs \ {n} : Content(i)' = Content(i)
  BY <1>1, <1>4, <1>5 DEF Content
<1>8. Content(n)' = d
  BY <1>1, <1>4, <1>5 DEF Content
<1> QED BY <1>5, <1>6, <1>7, <1>8

LEMMA WriteStep ==
  ASSUME Underway, View = pre.view, Agree, NEW node, FoundAt(node, Target), todo = Invoke(call, node) \o Rest,
         call.op = "write"
  PROVE  CallInv'
<1>0. Base /\ NoTwins(objs) /\ node.file \in BOOLEAN
  BY UnderwayFacts, NodeKind
<1>1. CASE ~node.file
  BY <1>1, NoFileIsOrphan
<1>2. CASE node.file
  <2>1. PICK s, n : s = <<"write", n, call.off, call.byte>> /\ n = node.id
    OBVIOUS
  <2>2. s[1] = "write" /\ s[2] = n /\ s[3] = call.off /\ s[4] = call.byte /\ Invoke(call, node) = <<s>>
    BY <1>2, <2>1, InvokeIs
  <2>3. /\ Tail(todo) = <<>> /\ At("write") /\ ~At("rename")
        /\ Arg(2) = n /\ Arg(3) = call.off /\ Arg(4) = call.byte
        /\ n \in DOMAIN objs /\ objs[n].file = TRUE /\ Live(Arg(2))
    <3>1. s[2] = node.id /\ s[1] # "rename"
      BY <2>1, <2>2
    <3>0. Invoke(call, node) = <<s>>
      BY <2>2
    <3>2. /\ Tail(todo) = <<>> /\ (\A a : At(a) <=> a = s[1]) /\ (\A k : Arg(k) = s[k])
          /\ node.id \in DOMAIN objs /\ objs[node.id].file = TRUE /\ Live(Arg(2))
      BY <1>2, <3>0, <3>1, FileStepHead
    <3>3. At("write") /\ ~At("rename")
      BY <2>2, <3>2
    <3>4. Arg(2) = n /\ Arg(3) = call.off /\ Arg(4) = call.byte
      BY <2>2, <3>2
    <3> QED BY <2>1, <3>2, <3>3, <3>4
  <2>4. CASE ReadFails
    BY <2>3, <2>4, AskingFails
  <2>5. CASE Write
    <3>1. PICK files \in openFile(n) :
            ~files[n].broken /\
            Goto(<<>>, cache, [files EXCEPT ![n].data = WriteAt(@, call.off, call.byte), ![n].dirty = TRUE])
      BY <2>3, <2>5 DEF Write
    <3>2. PICK d, c : d = WriteAt(files[n].data, call.off, call.byte) /\ c = cache
      OBVIOUS
    <3>3. /\ todo' = <<>> /\ reply' = reply /\ cache' = c /\ objs' = objs
          /\ localFiles' = [files EXCEPT ![n].data = d, ![n].dirty = TRUE]
      BY <2>3, <2>5, <3>1, <3>2, ShortConcat DEF Goto, Write, NoDeviceChange, device
    <3>4. /\ Whole(localFiles') /\ Content(n)' = d
          /\ \A i \in DOMAIN objs \ {n} : Content(i)' = Content(i)
      BY <1>0, <3>1, <3>3, OthersKeepContents DEF Agree
    <3>5. files[n].data = Content(n)
      BY <1>0, OpenContents DEF Agree
    <3>6. Agree'
      <4>1. PICK gs : gs = localFiles'
        OBVIOUS
      <4> QED BY <3>2, <3>3, <3>4, <4>1, AgreeAfter DEF Agree
    <3>7. ~Orphaned => View' = Effect(pre.view, call)
      <4> HAVE ~Orphaned
      <4>1. PathOf(n) = call.path
        BY <1>2, <2>1, TheFile
      <4>2. View' = {Item(i) : i \in DOMAIN objs \ {n}} \cup {[path |-> PathOf(n), file |-> objs[n].file, data |-> d]}
        BY <2>3, <3>3, <3>4, ViewChanges
      <4> QED BY <1>0, <2>3, <3>2, <3>5, <4>1, <4>2, EffectOnFile
    <3> QED BY <3>3, <3>6, <3>7, Finishes
  <2> QED BY <2>3, <2>4, <2>5, WhichStep DEF Underway
<1> QED BY <1>0, <1>1, <1>2


LEMMA ElsewhereAdds ==
  ASSUME NEW V, NEW w, Below(w, call.path)
  PROVE  Elsewhere(V \cup {w}) = Elsewhere(V)
BY DEF Elsewhere

LEMMA ItemsBelow ==
  ASSUME Underway
  PROVE  \A w : w.path = call.path => Below(w, call.path)
<1>1. call.path \in Seq(Storages \cup Names)
  BY UnderwayFacts DEF WellFormed, Call, Path
<1>2. IsPrefix(call.path, call.path)
  BY <1>1, PrefixSelf
<1> QED BY <1>2 DEF Below

LEMMA Stores ==
  ASSUME Underway, Room, NEW n \in DOMAIN objs, NEW K, objs[n].file, ParentNode(n) \in K, Strays \/ PathOf(n) = call.path,
         call.op \in {"truncate", "flush", "release"}, objs' = objs, nextId' = nextId, reply' = reply,
         todo' = << <<"closeFile", n, K>> >>, NEW c, cache' = c, Tells(c, {}), NEW files, localFiles' = files, Whole(files),
         View' = Effect(pre.view, call), ~Orphaned => \E V : V = View' /\ Elsewhere(V) = Elsewhere(pre.view)
  PROVE  CallInv'
<1>1. call' = call /\ pre' = pre
  BY UnderwayFacts
<1>2. Agree' /\ Room'
  BY <1>1, AgreeAfter DEF Room
<1>3. Asked' /\ Strays' = Strays /\ Effect(pre.view, call)' = Effect(pre.view, call) /\ reply'.code = "ok"
  BY <1>1, SameCall DEF Underway
<1>4. ParentNode(n)' = ParentNode(n) /\ PathOf(n)' = PathOf(n)
  BY DEF ParentNode, PathOf
<1>5. Untouched'
  BY <1>1, UntouchedAfter
<1>6. Storing'
  BY <1>1, <1>2, <1>3, <1>4, <1>5 DEF Storing
<1> QED BY <1>3, <1>6 DEF CallInv

LEMMA FsyncStep ==
  ASSUME Underway, View = pre.view, Agree, Room, NEW node, FoundAt(node, Target), todo = Invoke(call, node) \o Rest,
         call.op \in {"flush", "release"}
  PROVE  CallInv'
<1>0. Base /\ NoTwins(objs) /\ node.file \in BOOLEAN
  BY UnderwayFacts, NodeKind
<1>1. CASE ~node.file
  BY <1>1, NoFileIsOrphan
<1>2. CASE node.file
  <2>1. PICK s, n : s = <<"fsync", n>> /\ n = node.id
    OBVIOUS
  <2>2. s[1] = "fsync" /\ s[2] = n /\ Invoke(call, node) = <<s>>
    BY <1>2, <2>1, InvokeIs
  <2>3. /\ Tail(todo) = <<>> /\ (\A a : At(a) <=> a = s[1]) /\ (\A k : Arg(k) = s[k])
        /\ n \in DOMAIN objs /\ objs[n].file = TRUE /\ Live(Arg(2)) /\ Live(n)
    <3>1. s[2] = node.id /\ s[1] # "rename"
      BY <2>1, <2>2
    <3>2. /\ Tail(todo) = <<>> /\ (\A a : At(a) <=> a = s[1]) /\ (\A k : Arg(k) = s[k])
          /\ node.id \in DOMAIN objs /\ objs[node.id].file = TRUE /\ Live(Arg(2)) /\ Live(node.id)
      BY <1>2, <2>2, <3>1, FileStepHead
    <3> QED BY <2>1, <3>2
  <2>4. At("fsync") /\ ~At("rename") /\ Arg(2) = n
    BY <2>2, <2>3
  <2>5. CASE ReadFails
    BY <2>3, <2>4, <2>5, AskingFails
  <2>6. CASE Fsync
    <3>1. PICK r \in getItem(n) :
            Goto(<< <<"closeFile", n, {GetParentNodeId(r.md)}>> >>, Drop(r.cache, {n}), localFiles)
      BY <2>4, <2>6 DEF Fsync
    <3>2. r.md = getMetadata(n) /\ Tells(r.cache, {})
      BY <2>3, ItemTells DEF Agree
    <3>3. PICK K, c, files : K = {GetParentNodeId(r.md)} /\ c = Drop(r.cache, {n}) /\ files = localFiles
      OBVIOUS
    <3>4. Tells(c, {}) /\ ParentNode(n) \in K
      BY <1>0, <2>3, <3>2, <3>3, TellsLess, ParentIs
    <3>5. /\ todo' = << <<"closeFile", n, K>> >> /\ reply' = reply /\ cache' = c /\ localFiles' = files
          /\ objs' = objs /\ nextId' = nextId
      <4>1. PICK t : t = <<"closeFile", n, K>>
        OBVIOUS
      <4>2. todo' = <<t>> \o <<>>
        BY <2>3, <3>1, <3>3, <4>1 DEF Goto
      <4> QED BY <2>6, <3>1, <3>3, <4>1, <4>2, ShortConcat DEF Goto, Fsync, NoDeviceChange, device
    <3>6. Strays \/ PathOf(n) = call.path
      BY <1>2, <2>1, TheFile
    <3>7. View' = Effect(pre.view, call)
      <4>1. Effect(pre.view, call) = pre.view
        BY DEF Effect
      <4>2. View' = View
        BY <3>3, <3>5 DEF View, Content, PathOf
      <4> QED BY <4>1, <4>2
    <3>8. \E V : V = View' /\ Elsewhere(V) = Elsewhere(pre.view)
      <4>1. View' = View
        BY <3>3, <3>5 DEF View, Content, PathOf
      <4> QED BY <4>1
    <3> QED BY <2>3, <3>3, <3>4, <3>5, <3>6, <3>7, <3>8, Stores DEF Agree
  <2> QED BY <2>4, <2>5, <2>6, WhichStep DEF Underway
<1> QED BY <1>0, <1>1, <1>2

LEMMA ContentType ==
  ASSUME Base, NEW n \in DOMAIN objs
  PROVE  Content(n) \in Data
<1>1. objs[n].data \in Data /\ (n \in DOMAIN localFiles => localFiles[n] \in Copy)
  BY BaseFacts, ObjectFields, MapElements DEF TypeOK
<1> QED BY <1>1 DEF Content, Copy

LEMMA SameLength ==
  ASSUME NEW d \in Data, NEW len, len = Len(d)
  PROVE  Resize(d, len) = d
<1>1. d \in [1 .. len -> Bytes] /\ len \in Nat
  BY DataIsShort, DeviceAssumption
<1>2. \A k \in 1 .. len : k <= len
  BY <1>1
<1> QED BY <1>1, <1>2 DEF Resize

LEMMA TruncateStep ==
  ASSUME Underway, View = pre.view, Agree, Room, NEW node, FoundAt(node, Target), todo = Invoke(call, node) \o Rest,
         call.op = "truncate"
  PROVE  CallInv'
<1>0. Base /\ NoTwins(objs) /\ node.file \in BOOLEAN
  BY UnderwayFacts, NodeKind
<1>1. CASE ~node.file
  BY <1>1, NoFileIsOrphan
<1>2. CASE node.file
  <2>1. PICK s, n, len : s = <<"truncate", n, len>> /\ n = node.id /\ len = call.off
    OBVIOUS
  <2>2. s[1] = "truncate" /\ s[2] = n /\ s[3] = len /\ Invoke(call, node) = <<s>>
    BY <1>2, <2>1, InvokeIs
  <2>3. /\ Tail(todo) = <<>> /\ (\A a : At(a) <=> a = s[1]) /\ (\A k : Arg(k) = s[k])
        /\ n \in DOMAIN objs /\ objs[n].file = TRUE /\ Live(Arg(2)) /\ Live(n)
    <3>1. s[2] = node.id /\ s[1] # "rename"
      BY <2>1, <2>2
    <3>2. /\ Tail(todo) = <<>> /\ (\A a : At(a) <=> a = s[1]) /\ (\A k : Arg(k) = s[k])
          /\ node.id \in DOMAIN objs /\ objs[node.id].file = TRUE /\ Live(Arg(2)) /\ Live(node.id)
      BY <1>2, <2>2, <3>1, FileStepHead
    <3> QED BY <2>1, <3>2
  <2>4. At("truncate") /\ ~At("rename") /\ Arg(2) = n /\ Arg(3) = len
    BY <2>2, <2>3
  <2>5. CASE ReadFails
    BY <2>3, <2>4, <2>5, AskingFails
  <2>6. CASE Truncate
    <3>1. PICK r \in getItem(n) :
            LET size == IF n \in DOMAIN localFiles THEN Len(localFiles[n].data) ELSE r.md.size
            IN  \/ size = len /\ Goto(<<>>, r.cache, localFiles)
                \/ /\ size # len
                   /\ \E files \in openFile(n) :
                        Goto(<< <<"closeFile", n, {n, GetParentNodeId(r.md)}>> >>, r.cache,
                             [files EXCEPT ![n].data = Resize(@, len), ![n].dirty = TRUE])
      BY <2>4, <2>6 DEF Truncate
    <3>2. r.md = getMetadata(n) /\ Tells(r.cache, {})
      BY <2>3, ItemTells DEF Agree
    <3>3. PICK K, c : K = {n, GetParentNodeId(r.md)} /\ c = r.cache
      OBVIOUS
    <3>4. PathOf(n) = call.path /\ ParentNode(n) \in K
      BY <1>0, <1>2, <2>1, <2>3, <3>2, <3>3, ParentIs, TheFile
    <3>5. (IF n \in DOMAIN localFiles THEN Len(localFiles[n].data) ELSE r.md.size) = Len(Content(n))
      <4>1. r.md.size = Len(objs[n].data)
        BY <1>0, <2>3, <3>2, ParentIs
      <4>2. n \in DOMAIN localFiles => Content(n) = localFiles[n].data
        BY DEF Content, Agree, Whole
      <4>3. n \notin DOMAIN localFiles => Content(n) = objs[n].data
        BY DEF Content
      <4> QED BY <4>1, <4>2, <4>3
    <3>6. objs' = objs /\ nextId' = nextId
      BY <2>6 DEF Truncate, NoDeviceChange, device
    <3>7. CASE Len(Content(n)) = len /\ Goto(<<>>, r.cache, localFiles)
      <4>1. PICK files : files = localFiles
        OBVIOUS
      <4>2. todo' = <<>> /\ reply' = reply /\ cache' = c /\ localFiles' = files
        BY <2>3, <3>3, <3>7, <4>1, ShortConcat DEF Goto
      <4>3. Agree'
        BY <3>2, <3>3, <3>6, <4>1, <4>2, AgreeAfter DEF Agree
      <4>4. View' = View
        BY <3>6, <4>1, <4>2 DEF View, Content, PathOf
      <4>5. Effect(pre.view, call) = View
        <5>1. PICK d : d = Content(n)
          OBVIOUS
        <5>2. Resize(d, len) = d
          BY <1>0, <2>3, <3>7, <5>1, ContentType, SameLength
        <5>3. Effect(pre.view, call) = {Item(i) : i \in DOMAIN objs \ {n}} \cup {[path |-> PathOf(n), file |-> objs[n].file, data |-> d]}
          BY <1>0, <2>1, <2>3, <3>4, <5>1, <5>2, EffectOnFile
        <5>4. Effect(pre.view, call) = {Item(i) : i \in DOMAIN objs \ {n}} \cup {Item(n)}
          BY <5>1, <5>3 DEF Item
        <5> QED BY <2>3, <5>4, ViewItems
      <4> QED BY <4>2, <4>3, <4>4, <4>5, Finishes
    <3>8. CASE \E files \in openFile(n) :
                 Goto(<< <<"closeFile", n, {n, GetParentNodeId(r.md)}>> >>, r.cache,
                             [files EXCEPT ![n].data = Resize(@, len), ![n].dirty = TRUE])
      <4>1. PICK files \in openFile(n) :
                 Goto(<< <<"closeFile", n, K>> >>, c, [files EXCEPT ![n].data = Resize(@, len), ![n].dirty = TRUE])
        BY <3>3, <3>8
      <4>2. PICK d, t : d = Resize(files[n].data, len) /\ t = <<"closeFile", n, K>>
        OBVIOUS
      <4>3. /\ todo' = <<t>> /\ reply' = reply /\ cache' = c
            /\ localFiles' = [files EXCEPT ![n].data = d, ![n].dirty = TRUE]
        BY <2>3, <4>1, <4>2, ShortConcat DEF Goto
      <4>4. files[n].data = Content(n) /\ ~files[n].broken
        BY <1>0, OpenContents DEF Agree, Whole
      <4>5. /\ Whole(localFiles') /\ Content(n)' = d
            /\ \A i \in DOMAIN objs \ {n} : Content(i)' = Content(i)
        BY <1>0, <3>6, <4>3, <4>4, OthersKeepContents DEF Agree
      <4>6. View' = {Item(i) : i \in DOMAIN objs \ {n}} \cup {[path |-> PathOf(n), file |-> objs[n].file, data |-> d]}
        BY <2>3, <3>6, <4>5, ViewChanges
      <4>7. View' = Effect(pre.view, call)
        BY <1>0, <2>1, <2>3, <3>4, <4>2, <4>4, <4>6, EffectOnFile
      <4>8. PICK gs : gs = localFiles'
        OBVIOUS
      <4>9. \E V : V = View' /\ Elsewhere(V) = Elsewhere(pre.view)
        <5>1. PICK W, v, w : /\ W = {Item(i) : i \in DOMAIN objs \ {n}} /\ v = Item(n)
                             /\ w = [path |-> PathOf(n), file |-> objs[n].file, data |-> d]
          OBVIOUS
        <5>2. Below(v, call.path) /\ Below(w, call.path)
          BY <3>4, <5>1, ItemsBelow DEF Item
        <5>3. pre.view = W \cup {v} /\ View' = W \cup {w}
          BY <2>3, <4>6, <5>1, ViewItems
        <5>4. Elsewhere(W \cup {v}) = Elsewhere(W) /\ Elsewhere(W \cup {w}) = Elsewhere(W)
          BY <5>2, ElsewhereAdds
        <5> QED BY <5>3, <5>4
      <4> QED BY <2>3, <3>2, <3>3, <3>4, <3>6, <4>2, <4>3, <4>5, <4>7, <4>8, <4>9, Stores
    <3>9. PICK sz : sz = IF n \in DOMAIN localFiles THEN Len(localFiles[n].data) ELSE r.md.size
      OBVIOUS
    <3>10. \/ sz = len /\ Goto(<<>>, r.cache, localFiles)
           \/ \E files \in openFile(n) :
                 Goto(<< <<"closeFile", n, {n, GetParentNodeId(r.md)}>> >>, r.cache,
                             [files EXCEPT ![n].data = Resize(@, len), ![n].dirty = TRUE])
      BY <3>1, <3>9
    <3>11. sz = Len(Content(n))
      BY <3>5, <3>9
    <3> QED BY <3>7, <3>8, <3>10, <3>11
  <2> QED BY <2>4, <2>5, <2>6, WhichStep DEF Underway
<1> QED BY <1>0, <1>1, <1>2


-----------------------------------------------------------------------------
(* What is made in a folder.                                               *)
LEMMA FrontLast ==
  ASSUME NEW U, NEW p \in Seq(U), Len(p) > 1
  PROVE  /\ Front(p) \in Seq(U) /\ Last(p) \in U /\ Append(Front(p), Last(p)) = p
         /\ Front(p)[1] = p[1] /\ Len(Front(p)) = Len(p) - 1 /\ Front(p) # <<>>
<1>1. PICK l \in Nat : l = Len(p) /\ l > 1
  BY LenProperties
<1> DEFINE f == SubSeq(p, 1, Len(p) - 1)
<1>2. \A i \in 1 .. l - 1 : p[i] \in U
  BY <1>1, ElementOfSeq
<1>3. f \in Seq(U) /\ Len(f) = l - 1 /\ \A i \in 1 .. l - 1 : f[i] = p[i]
  <2>1. l - 1 \in Int /\ 1 \in Int /\ l - 1 - 1 + 1 = l - 1 /\ 1 <= l - 1
    BY <1>1
  <2>2. /\ f \in Seq(U)
        /\ Len(f) = IF 1 <= l - 1 THEN l - 1 - 1 + 1 ELSE 0
        /\ \A i \in 1 .. l - 1 - 1 + 1 : f[i] = p[1 + i - 1]
    BY <1>1, <1>2, <2>1, SubSeqProperties
  <2>3. \A i \in 1 .. l - 1 : 1 + i - 1 = i
    BY <1>1
  <2> QED BY <2>1, <2>2, <2>3
<1>4. Front(p) = f /\ Last(p) = p[l]
  BY <1>1 DEF Front, Last
<1> HIDE DEF f
<1>5. p[l] \in U
  BY <1>1, ElementOfSeq
<1>6. /\ Append(f, p[l]) \in Seq(U) /\ Len(Append(f, p[l])) = (l - 1) + 1
      /\ \A i \in 1 .. l - 1 : Append(f, p[l])[i] = f[i]
      /\ Append(f, p[l])[(l - 1) + 1] = p[l]
  BY <1>3, <1>5, AppendProperties
<1>7. (l - 1) + 1 = l /\ 1 \in 1 .. l - 1 /\ \A i \in 1 .. l : i \in 1 .. l - 1 \/ i = l
  BY <1>1
<1>8. \A i \in 1 .. l : Append(f, p[l])[i] = p[i]
  BY <1>3, <1>6, <1>7
<1>9. Append(f, p[l]) = p
  BY <1>1, <1>6, <1>7, <1>8, SeqEqual
<1>10. f # <<>>
  BY <1>1, <1>3, EmptySeq
<1> QED BY <1>1, <1>3, <1>4, <1>5, <1>7, <1>9, <1>10

LEMMA NewAt ==
  ASSUME Base, NEW dir, IsFolderNode(dir), NEW p \in Seq(PathElem), Len(p) > 1, NodePath(dir) = Front(p),
         NEW x, x.storage = Head(p), x.parent = FolderId(dir), x.name = Last(p)
  PROVE  /\ FolderFor(x) = dir /\ PathFor(x) = p
         /\ nextId \in ObjIds /\ (\A i \in DOMAIN objs : PathOf(i) # p) => MayAdd(x)
<1>1. Append(Front(p), Last(p)) = p /\ Front(p)[1] = p[1]
  BY FrontLast
<1>2. Live(dir) /\ 0 \notin DOMAIN objs /\ IsStore(objs)
  BY BaseFacts, StoreFields DEF Live, IsFolderNode
<1>3. Head(p) = p[1]
  OBVIOUS
<1>4. /\ FolderFor(x) = dir /\ PathFor(x) = p
      /\ x.parent = 0 \/ (x.parent \in DOMAIN objs /\ ~objs[x.parent].file /\ objs[x.parent].storage = x.storage)
  <2>1. CASE dir \in Storages
    <3>1. NodePath(dir) = <<dir>> /\ dir \notin DOMAIN objs
      BY <1>2, <2>1, NodePathType
    <3>2. x.storage = dir /\ x.parent = 0
      BY <1>1, <1>3, <2>1, <3>1 DEF FolderId
    <3>3. PICK e : e = x.name
      OBVIOUS
    <3>4. Append(<<dir>>, e) = <<dir, e>>
      <4>1. <<dir>> \in Seq({dir, e}) /\ e \in {dir, e}
        OBVIOUS
      <4>2. Append(<<dir>>, e) = <<dir>> \o <<e>> /\ <<dir>> \o <<e>> = <<dir, e>>
        BY <4>1, AppendIsConcat, PairIsConcat
      <4> QED BY <4>2
    <3>5. <<dir, e>> = p
      BY <1>1, <3>1, <3>3, <3>4
    <3>6. PathFor(x) = <<x.storage, x.name>>
      BY <3>2 DEF PathFor
    <3> QED BY <3>2, <3>3, <3>5, <3>6 DEF FolderFor
  <2>2. CASE dir \in DOMAIN objs /\ dir \notin Storages
    <3>1. x.parent = dir /\ dir # 0 /\ NodePath(dir) = PathIn(objs, dir)
      BY <1>2, <2>2, NodePathType DEF FolderId, PathOf
    <3>2. PathFor(x) = p /\ FolderFor(x) = dir
      BY <1>1, <3>1 DEF PathFor, FolderFor, PathOf
    <3>3. PathIn(objs, dir)[1] = objs[dir].storage
      BY <1>2, <2>2, PathLen
    <3>4. objs[dir].storage = x.storage
      BY <1>1, <1>3, <3>1, <3>3
    <3> QED BY <2>2, <3>1, <3>2, <3>4 DEF IsFolderNode
  <2> QED BY <1>2, <2>1, <2>2 DEF Live
<1>5. ASSUME \A i \in DOMAIN objs : PathOf(i) # p, NEW i \in Inside(x.parent, x.storage)
      PROVE  objs[i].name # x.name
  <2> SUFFICES ASSUME objs[i].name = x.name PROVE FALSE
    OBVIOUS
  <2>1. i \in DOMAIN objs /\ objs[i].parent = x.parent /\ objs[i].storage = x.storage
    BY DEF Inside
  <2>2. ParentNode(i) = FolderFor(x)
    BY <2>1 DEF ParentNode, FolderFor
  <2>3. NodePath(i) = Append(NodePath(dir), x.name)
    BY <1>4, <2>1, <2>2, ChildPath
  <2>4. NodePath(i) = PathOf(i)
    BY <2>1, NodePathType DEF Live
  <2> QED BY <1>1, <1>5, <2>1, <2>3, <2>4
<1> QED BY <1>4, <1>5 DEF MayAdd


(* The cache after the entries of K have been dropped.                     *)
LEMMA AgreeDrops ==
  ASSUME NEW c, NEW K, Tells(c, K)', NEW L, K \subseteq L, cache' = Drop(c, L),
         NEW files, localFiles' = files, Whole(files)
  PROVE  Agree'
<1>1. PICK d : d = Drop(c, L)
  OBVIOUS
<1>2. DOMAIN d = DOMAIN c \ L /\ \A n \in DOMAIN d : d[n] = c[n]
  BY <1>1 DEF Drop
<1>3. cache' = d
  BY <1>1
<1>4. Tells(cache, {})'
  BY <1>2, <1>3 DEF Tells
<1> QED BY <1>4 DEF Agree, Whole

LEMMA AddsKeepContents ==
  ASSUME Base, NEW x, Adds(x), localFiles' = localFiles
  PROVE  (\A i \in DOMAIN objs : Content(i)' = Content(i)) /\ nextId \notin DOMAIN localFiles'
<1>1. PICK k : k = nextId
  OBVIOUS
<1>2. k \notin DOMAIN objs /\ k \notin DOMAIN localFiles
  BY <1>1, BaseFacts
<1>3. \A i \in DOMAIN objs : objs'[i] = objs[i]
  BY <1>1, <1>2 DEF Adds, WithObject, Put
<1> QED BY <1>1, <1>2, <1>3 DEF Content

(* A new object at the path of the call.                                   *)
LEMMA MadeThere ==
  ASSUME Underway, View = pre.view, NEW x, Adds(x), PathFor(x) = call.path, localFiles' = localFiles
  PROVE  /\ View' = pre.view \cup {ItemFor(x)} /\ Below(ItemFor(x), call.path)
         /\ \E V : V = View' /\ Elsewhere(V) = Elsewhere(pre.view)
         /\ call.op \in {"mkdir", "create"} /\ x.data = <<>> /\ x.file = (call.op = "create")
              => View' = Effect(pre.view, call)
         /\ \E i \in DOMAIN objs' : objs'[i].file = x.file /\ PathOf(i)' = call.path
<1>0. Base
  BY UnderwayFacts
<1>1. /\ View' = View \cup {ItemFor(x)}
      /\ DOMAIN objs' = DOMAIN objs \cup {nextId} /\ objs'[nextId] = x
  BY <1>0, AddsKeepContents, ViewAdds
<1>2. Below(ItemFor(x), call.path)
  BY ItemsBelow DEF ItemFor
<1>3. \E V : V = View' /\ Elsewhere(V) = Elsewhere(pre.view)
  <2>1. PICK w, W : w = ItemFor(x) /\ W = pre.view
    OBVIOUS
  <2>2. Elsewhere(W \cup {w}) = Elsewhere(W)
    BY <1>2, <2>1, ElsewhereAdds
  <2> QED BY <1>1, <2>1, <2>2
<1>4. call.op \in {"mkdir", "create"} /\ x.data = <<>> /\ x.file = (call.op = "create")
        => View' = Effect(pre.view, call)
  <2>1. CASE call.op = "mkdir" /\ x.data = <<>> /\ x.file = FALSE
    <3>1. ItemFor(x) = [path |-> call.path, file |-> FALSE, data |-> <<>>]
      BY <2>1 DEF ItemFor
    <3>2. Effect(pre.view, call) = pre.view \cup {[path |-> call.path, file |-> FALSE, data |-> <<>>]}
      BY <2>1 DEF Effect
    <3> QED BY <1>1, <3>1, <3>2
  <2>2. CASE call.op = "create" /\ x.data = <<>> /\ x.file = TRUE
    <3>1. ItemFor(x) = [path |-> call.path, file |-> TRUE, data |-> <<>>]
      BY <2>2 DEF ItemFor
    <3>2. Effect(pre.view, call) = pre.view \cup {[path |-> call.path, file |-> TRUE, data |-> <<>>]}
      BY <2>2 DEF Effect
    <3> QED BY <1>1, <3>1, <3>2
  <2> QED BY <2>1, <2>2
<1>5. \E i \in DOMAIN objs' : objs'[i].file = x.file /\ PathOf(i)' = call.path
  <2>1. PICK k : k = nextId
    OBVIOUS
  <2>2. k \notin DOMAIN objs /\ IsStore(objs) /\ x \in Object
    BY <1>0, <2>1, BaseFacts DEF Adds
  <2>3. Fits(objs, k, x) /\ objs' = Put(objs, k, x)
    BY <1>0, <2>1, AddFits DEF Adds, WithObject
  <2>4. PathOf(k)' = PathFor(x)
    BY <2>2, <2>3, StoreWithObject DEF PathOf, PathFor
  <2>5. k \in DOMAIN objs' /\ objs'[k] = x
    BY <1>1, <2>1
  <2> QED BY <2>4, <2>5
<1> QED BY <1>1, <1>2, <1>3, <1>4, <1>5

LEMMA AgreeAdds ==
  ASSUME Underway, Agree, NEW x, Adds(x), NEW L, FolderFor(x) \in L, cache' = Drop(cache, L), localFiles' = localFiles
  PROVE  Agree'
<1>1. PICK c, files, f : c = cache /\ files = localFiles /\ f = FolderFor(x)
  OBVIOUS
<1>2. Base /\ nextId \notin DOMAIN c
  BY <1>1, UnderwayFacts, BaseFacts DEF Adds, MayAdd
<1>3. Tells(c, {f})'
  <2>1. \A K : Tells(c, {} \cup K)' => Tells(c, K)'
    BY DEF Tells
  <2>2. (Tells(c, {} \cup {f}))'
    <3>1. \A C, K : Tells(C, K) /\ nextId \notin DOMAIN C => Tells(C, K \cup {f})'
      BY <1>1, <1>2, TellsAdds
    <3> QED BY <1>1, <1>2, <3>1 DEF Agree
  <2> QED BY <2>1, <2>2
<1> QED BY <1>1, <1>3, AgreeDrops DEF Agree


(* mkdir and create: the folder is found, and what is to be made fits.     *)
LEMMA NewStepHead ==
  ASSUME Underway, View = pre.view, Room, NEW node, FoundAt(node, Target), todo = Invoke(call, node) \o Rest,
         call.op \in {"mkdir", "create"}
  PROVE  \E n, name, file, x :
           /\ At(IF file THEN "createFile" ELSE "mkdir") /\ Arg(2) = n /\ Arg(3) = name /\ Tail(todo) = Rest
           /\ file = (call.op = "create") /\ x = NewObject(n, name, file, <<>>)
           /\ x \in Object /\ x.file = file /\ x.data = <<>>
           /\ FolderFor(x) = n /\ PathFor(x) = call.path /\ MayAdd(x) /\ nextId \in ObjIds
<1>0. Base /\ WellFormed(call) /\ todo # <<>> /\ nextId \in ObjIds
  BY UnderwayFacts DEF Room
<1>1. /\ Target = Front(call.path) /\ FolderAt(Target) /\ Strays /\ Len(call.path) > 1 /\ call.new = call.path
      /\ call.path \in Seq(PathElem) /\ call.path \in LongPath
  BY <1>0 DEF Underway, Asked, Target, WellFormed, Call, Path, PathElem
<1>2. PICK n, name : n = node.id /\ name = Last(call.path)
  OBVIOUS
<1>3. ~node.file /\ IsFolderNode(n) /\ NodePath(n) = Front(call.path) /\ n \in NodeIds
  BY <1>1, <1>2, NodeKind
<1>4. PICK file : file = (call.op = "create")
  OBVIOUS
<1>5. PICK s : s = IF file THEN <<"createFile", n, name>> ELSE <<"mkdir", n, name>>
  OBVIOUS
<1>6. Invoke(call, node) = <<s>>
  BY <1>2, <1>3, <1>4, <1>5, InvokeIs
<1>7. Head(todo) = s /\ Tail(todo) = Rest
  BY <1>6, RestParts
<1>8. s[1] = (IF file THEN "createFile" ELSE "mkdir") /\ s[2] = n /\ s[3] = name
  BY <1>5
<1>9. At(IF file THEN "createFile" ELSE "mkdir") /\ Arg(2) = n /\ Arg(3) = name
  BY <1>0, <1>7, <1>8 DEF At, Arg
<1>10. PICK x : x = NewObject(n, name, file, <<>>)
  OBVIOUS
<1>11. name \in Names /\ file \in BOOLEAN /\ <<>> \in Data
  BY <1>1, <1>2, <1>4, LongPathParts, EmptyIsData
<1>12. x \in Object
  BY <1>0, <1>3, <1>10, <1>11, NewObjectType
<1>13. x.file = file /\ x.data = <<>> /\ x.storage = Head(call.path) /\ x.parent = FolderId(n) /\ x.name = Last(call.path)
  BY <1>1, <1>2, <1>10 DEF NewObject
<1>14. \A i \in DOMAIN objs : PathOf(i) # call.path
  <2> TAKE i \in DOMAIN objs
  <2>1. Item(i) \in pre.view /\ Item(i).path = PathOf(i)
    BY ViewItems DEF Item
  <2> QED BY <1>1, <2>1 DEF Strays
<1>15. FolderFor(x) = n /\ PathFor(x) = call.path /\ MayAdd(x)
  BY <1>0, <1>1, <1>3, <1>13, <1>14, NewAt
<1> QED BY <1>0, <1>4, <1>7, <1>9, <1>10, <1>12, <1>13, <1>15

LEMMA AddFails ==
  ASSUME Underway, View = pre.view, NEW x, x \in Object, x.file \/ x.data = <<>>, MayAdd(x), PathFor(x) = call.path,
         faults > 0, faults' = faults - 1, Throw("EIO", cache, localFiles),
         UNCHANGED device \/ (objs' = WithObject(x) /\ nextId' = nextId + 1)
  PROVE  CallInv'
<1>1. CASE UNCHANGED device
  <2>1. PICK c : c = cache
    OBVIOUS
  <2> QED BY <1>1, <2>1, Throws DEF device
<1>2. CASE objs' = WithObject(x) /\ nextId' = nextId + 1
  <2>1. Adds(x) /\ localFiles' = localFiles /\ todo' = <<>> /\ reply'.code # "ok"
    BY <1>2 DEF Adds, Throw
  <2>2. \E V : V = View' /\ Elsewhere(V) = Elsewhere(pre.view)
    BY <2>1, MadeThere
  <2> QED BY <2>1, <2>2, Stops
<1> QED BY <1>1, <1>2

LEMMA Opens ==
  ASSUME Underway, call.op = "create", Agree', View' = Effect(pre.view, call), reply' = reply,
         \E i \in DOMAIN objs' : objs'[i].file /\ PathOf(i)' = call.path,
         \/ \E dir, rest, p : /\ p = call.path /\ Walking(dir, rest, p)'
                              /\ todo' = << <<"getNode", dir, rest, <<"opened">> >> >>
         \/ \E n \in DOMAIN objs' : objs'[n].file /\ todo' = << <<"open", n>> >>
  PROVE  CallInv'
<1>1. call' = call /\ pre' = pre
  BY UnderwayFacts
<1>2. Asked' /\ View' = Effect(pre.view, call)'
  BY <1>1, SameCall DEF Underway
<1>3. Opening'
  BY <1>1, <1>2 DEF Opening
<1>4. reply'.code = "ok"
  BY DEF Underway
<1> QED BY <1>2, <1>3, <1>4 DEF CallInv

LEMMA MkdirStep ==
  ASSUME Underway, View = pre.view, Agree, Room, NEW node, FoundAt(node, Target), todo = Invoke(call, node) \o Rest,
         call.op = "mkdir"
  PROVE  CallInv'
<1>1. PICK n, name, x :
        /\ At("mkdir") /\ Arg(2) = n /\ Arg(3) = name /\ Tail(todo) = Rest
        /\ x = NewObject(n, name, FALSE, <<>>) /\ x \in Object /\ x.file = FALSE /\ x.data = <<>>
        /\ FolderFor(x) = n /\ PathFor(x) = call.path /\ MayAdd(x)
  BY NewStepHead
<1>2. Mkdir
  BY <1>1, WhichStep DEF Underway
<1>3. DeviceCall(MayAdd(x), WithObject(x), nextId + 1, Goto(<<>>, Drop(cache, {n}), localFiles),
                 Throw("EIO", cache, localFiles))
  BY <1>1, <1>2 DEF Mkdir
<1>4. CASE objs' = WithObject(x) /\ nextId' = nextId + 1 /\ Goto(<<>>, Drop(cache, {n}), localFiles)
  <2>1. Adds(x) /\ localFiles' = localFiles /\ cache' = Drop(cache, {n}) /\ reply' = reply
    BY <1>1, <1>4 DEF Adds, Goto
  <2>2. todo' = <<>>
    BY <1>1, <1>4, ShortConcat DEF Goto, Rest
  <2>3. Agree'
    BY <1>1, <2>1, AgreeAdds
  <2>4. View' = Effect(pre.view, call)
    BY <1>1, <2>1, MadeThere
  <2> QED BY <2>1, <2>2, <2>3, <2>4, Finishes
<1>5. CASE faults > 0 /\ faults' = faults - 1 /\ Throw("EIO", cache, localFiles)
           /\ (UNCHANGED device \/ (objs' = WithObject(x) /\ nextId' = nextId + 1))
  BY <1>1, <1>5, AddFails
<1> QED BY <1>1, <1>3, <1>4, <1>5 DEF DeviceCall

LEMMA CreateStep ==
  ASSUME Underway, View = pre.view, Agree, Room, NEW node, FoundAt(node, Target), todo = Invoke(call, node) \o Rest,
         call.op = "create"
  PROVE  CallInv'
<1>1. PICK n, name, x :
        /\ At("createFile") /\ Arg(2) = n /\ Arg(3) = name /\ Tail(todo) = Rest
        /\ x = NewObject(n, name, TRUE, <<>>) /\ x \in Object /\ x.file = TRUE /\ x.data = <<>>
        /\ FolderFor(x) = n /\ PathFor(x) = call.path /\ MayAdd(x)
  <2>1. PICK n, name, file, x :
           /\ At(IF file THEN "createFile" ELSE "mkdir") /\ Arg(2) = n /\ Arg(3) = name /\ Tail(todo) = Rest
           /\ file = (call.op = "create") /\ x = NewObject(n, name, file, <<>>)
           /\ x \in Object /\ x.file = file /\ x.data = <<>>
           /\ FolderFor(x) = n /\ PathFor(x) = call.path /\ MayAdd(x) /\ nextId \in ObjIds
    BY NewStepHead
  <2>2. file = TRUE
    BY <2>1
  <2>3. At("createFile") /\ x = NewObject(n, name, TRUE, <<>>) /\ x.file = TRUE
    BY <2>1, <2>2
  <2> QED BY <2>1, <2>3
<1>2. CreateFile
  BY <1>1, WhichStep DEF Underway
<1>3. DeviceCall(MayAdd(x), WithObject(x), nextId + 1, Goto(<<>>, Drop(cache, {nextId, n}), localFiles),
                 Throw("EIO", cache, localFiles))
  BY <1>1, <1>2 DEF CreateFile
<1>4. CASE objs' = WithObject(x) /\ nextId' = nextId + 1 /\ Goto(<<>>, Drop(cache, {nextId, n}), localFiles)
  <2>1. Adds(x) /\ localFiles' = localFiles /\ cache' = Drop(cache, {nextId, n}) /\ reply' = reply
    BY <1>1, <1>4 DEF Adds, Goto
  <2>2. PICK dir, rest, p : dir = Head(call.path) /\ rest = Tail(call.path) /\ p = call.path
    OBVIOUS
  <2>3. todo' = << <<"getNode", dir, rest, <<"opened">> >> >>
    <3>1. PICK s : s = <<"getNode", dir, rest, <<"opened">> >>
      OBVIOUS
    <3>2. Rest = <<s>>
      BY <2>2, <3>1 DEF Rest, Lookup
    <3>3. todo' = <<>> \o <<s>>
      BY <1>1, <1>4, <3>2 DEF Goto
    <3> QED BY <3>1, <3>3, ShortConcat
  <2>4. Walking(dir, rest, p)'
    <3>1. p \in Path /\ p # <<>> /\ Base
      BY <2>2, UnderwayFacts DEF WellFormed, Call
    <3>2. Walking(dir, rest, p)
      BY <2>2, <3>1, WalkStart
    <3>3. dir \in Storages
      BY <2>2, <3>1, PathParts
    <3> QED BY <3>2, <3>3 DEF Walking, IsFolderNode, NodePath
  <2>5. Agree'
    <3>1. PICK L : L = {nextId, n}
      OBVIOUS
    <3> QED BY <1>1, <2>1, <3>1, AgreeAdds
  <2>6. View' = Effect(pre.view, call) /\ \E i \in DOMAIN objs' : objs'[i].file /\ PathOf(i)' = call.path
    BY <1>1, <2>1, MadeThere
  <2> QED BY <2>1, <2>2, <2>3, <2>4, <2>5, <2>6, Opens
<1>5. CASE faults > 0 /\ faults' = faults - 1 /\ Throw("EIO", cache, localFiles)
           /\ (UNCHANGED device \/ (objs' = WithObject(x) /\ nextId' = nextId + 1))
  BY <1>1, <1>5, AddFails
<1> QED BY <1>1, <1>3, <1>4, <1>5 DEF DeviceCall


(* unlink and rmdir.                                                       *)
LEMMA RemovesKeepContents ==
  ASSUME Base, NEW n, Removes(n), Subtree(objs, n) = {n}, localFiles' = localFiles
  PROVE  \A i \in DOMAIN objs \ {n} : Content(i)' = Content(i)
<1>1. \A i \in DOMAIN objs \ {n} : objs'[i] = objs[i]
  BY DEF Removes, WithoutObject, Drop
<1> QED BY <1>1 DEF Content

LEMMA GoneThere ==
  ASSUME Underway, View = pre.view, NEW n, Removes(n), Subtree(objs, n) = {n}, PathOf(n) = call.path,
         \A i \in DOMAIN objs \ {n} : Content(i)' = Content(i)
  PROVE  /\ View' = {v \in pre.view : ~Below(v, call.path)}
         /\ \E V : V = View' /\ Elsewhere(V) = Elsewhere(pre.view)
<1>0. Base /\ NoTwins(objs) /\ n \in DOMAIN objs
  BY UnderwayFacts DEF Removes
<1>1. View' = {Item(i) : i \in DOMAIN objs \ {n}} /\ View = View' \cup {Item(n)}
  BY <1>0, ViewRemoves
<1>2. /\ {v \in View : Below(v, call.path)} = {Item(n)}
      /\ {v \in View : ~Below(v, call.path)} = {Item(i) : i \in DOMAIN objs \ {n}}
  BY <1>0, OnlyThat
<1>3. \E V : V = View' /\ Elsewhere(V) = Elsewhere(pre.view)
  <2>1. PICK V, w : V = View' /\ w = Item(n)
    OBVIOUS
  <2>2. Below(w, call.path)
    BY <1>2, <2>1
  <2>3. Elsewhere(V \cup {w}) = Elsewhere(V)
    BY <2>2, ElsewhereAdds
  <2> QED BY <1>1, <2>1, <2>3
<1> QED BY <1>1, <1>2, <1>3

LEMMA AgreeRemoves ==
  ASSUME Underway, NEW n, Removes(n), Subtree(objs, n) = {n}, NEW c, Tells(c, {}), NEW L, ParentNode(n) \in L,
         cache' = Drop(c, L), NEW files, localFiles' = files, Whole(files)
  PROVE  Agree'
<1>1. PICK f : f = ParentNode(n)
  OBVIOUS
<1>2. Base
  BY UnderwayFacts
<1>3. Tells(c, {f})'
  <2>1. \A C, K : Tells(C, K) => Tells(C, K \cup {f})'
    BY <1>1, <1>2, TellsRemoves
  <2>2. Tells(c, {} \cup {f})'
    BY <2>1
  <2>3. Tells(c, {} \cup {f})' => Tells(c, {f})'
    BY DEF Tells
  <2> QED BY <2>2, <2>3
<1> QED BY <1>1, <1>3, AgreeDrops

LEMMA NotEmpty ==
  ASSUME Underway, View = pre.view, NEW n \in DOMAIN objs, PathOf(n) = call.path, ~objs[n].file
  PROVE  /\ getMetadata(n).children = {} => Subtree(objs, n) = {n}
         /\ getMetadata(n).children # {} => \E v \in pre.view : Below(v, call.path) /\ v.path # call.path
<1>0. Base /\ IsStore(objs) /\ IsFolderNode(n) /\ Live(n) /\ n # 0
  BY UnderwayFacts, StoreFields DEF IsFolderNode, Live
<1>1. getMetadata(n).children =
           {[id |-> i, name |-> objs[i].name, file |-> objs[i].file] : i \in {k \in DOMAIN objs : ParentNode(k) = n}}
  BY <1>0, FolderHolds
<1>2. ASSUME getMetadata(n).children = {} PROVE Subtree(objs, n) = {n}
  <2>1. \A i \in DOMAIN objs : ParentNode(i) # n
    BY <1>1, <1>2
  <2>2. \A i \in DOMAIN objs : objs[i].parent # n
    BY <1>0, <2>1 DEF ParentNode
  <2> QED BY <1>0, <2>2, NothingBelow
<1>3. ASSUME getMetadata(n).children # {}
      PROVE  \E v \in pre.view : Below(v, call.path) /\ v.path # call.path
  <2>1. PICK i \in DOMAIN objs : ParentNode(i) = n
    BY <1>1, <1>3
  <2>2. NodePath(n) = call.path /\ NodePath(i) = PathOf(i)
    BY <1>0, NodePathType DEF Live
  <2>3. PathOf(i) = Append(call.path, objs[i].name) /\ objs[i].name \in PathElem
    BY <1>0, <2>1, <2>2, ChildPath
  <2>4. PICK p, e : p = call.path /\ e = objs[i].name
    OBVIOUS
  <2>5. p \in Seq(PathElem) /\ e \in PathElem
    BY <1>0, <2>2, <2>3, <2>4, NodePathType
  <2>6. IsPrefix(p, Append(p, e)) /\ Append(p, e) # p
    <3>1. IsPrefix(p, p)
      BY <2>5, PrefixSelf
    <3>2. IsPrefix(p, Append(p, e))
      BY <2>5, <3>1, PrefixAppend
    <3>3. PICK l \in Nat : l = Len(p)
      BY <2>5, LenProperties
    <3>4. Len(Append(p, e)) = Len(p) + 1
      BY <2>5, AppendProperties
    <3>5. l + 1 # l
      OBVIOUS
    <3> QED BY <3>2, <3>3, <3>4, <3>5
  <2>7. Item(i) \in pre.view /\ Item(i).path = PathOf(i)
    BY ViewItems DEF Item
  <2>8. Below(Item(i), call.path) /\ Item(i).path # call.path
    BY <2>3, <2>4, <2>6, <2>7 DEF Below
  <2> QED BY <2>7, <2>8
<1> QED BY <1>2, <1>3

LEMMA RemoveStep ==
  ASSUME Underway, View = pre.view, Agree, NEW node, FoundAt(node, Target), todo = Invoke(call, node) \o Rest,
         call.op \in {"unlink", "rmdir"}
  PROVE  CallInv'
<1>0. Base /\ NoTwins(objs) /\ IsStore(objs) /\ Target = call.path /\ todo # <<>> /\ node.file \in BOOLEAN
  BY UnderwayFacts, NodeKind DEF Target
<1>1. /\ call.op = "unlink" => node.file /\ PathOf(node.id) = call.path /\ node.id \in DOMAIN objs
      /\ call.op = "rmdir" => ~node.file /\ NodePath(node.id) = call.path
      /\ Live(node.id)
  BY <1>0, NodeKind DEF Underway, Asked
<1>2. CASE node.id \in Storages
  <2>1. call.op = "rmdir" /\ Len(call.path) = 1
    BY <1>0, <1>1, <1>2, NodePathType DEF Live
  <2>2. PICK s : s = <<"throw", "EROFS">>
    OBVIOUS
  <2>3. Head(todo) = s /\ todo = <<s>>
    BY <1>2, <2>1, <2>2, InvokeIs, InvokeParts
  <2>4. At("throw") /\ Arg(2) = "EROFS"
    BY <2>2, <2>3 DEF At, Arg
  <2>5. Excused
    BY <2>1 DEF Excused
  <2> QED BY <2>4, <2>5, Refuses
<1>3. CASE node.id \notin Storages
  <2>1. PICK n, file : n = node.id /\ file = node.file
    OBVIOUS
  <2>2. PICK s : s = <<"remove", n, file>>
    OBVIOUS
  <2>3. Invoke(call, node) = <<s>> /\ call.op # "create"
    BY <1>3, <2>1, <2>2, InvokeIs
  <2>4. Head(todo) = s /\ Tail(todo) = <<>>
    BY <2>3, InvokeParts
  <2>5. At("remove") /\ ~At("rename") /\ Arg(2) = n /\ Arg(3) = file
    BY <1>0, <2>2, <2>4 DEF At, Arg
  <2>6. n \in DOMAIN objs /\ Live(n) /\ Live(Arg(2))
    BY <1>1, <1>3, <2>1, <2>5 DEF Live
  <2>7. PathOf(n) = call.path /\ (file <=> objs[n].file) /\ objs[n].file \in BOOLEAN /\ (call.op = "unlink" <=> file)
    <3>1. NodePath(n) = PathOf(n)
      BY <1>0, <2>6, NodePathType
    <3>2. node.file = (n \in DOMAIN objs /\ objs[n].file)
      BY <2>1 DEF FoundAt
    <3>3. objs[n].file \in BOOLEAN
      BY <1>0, <2>6, BaseFacts, ObjectFields
    <3> QED BY <1>0, <1>1, <2>1, <2>6, <3>1, <3>2, <3>3
  <2>8. CASE ReadFails
    BY <2>5, <2>6, <2>8, AskingFails
  <2>9. CASE RemoveNode
    <3>1. PICK r \in getItem(n) :
            \/ /\ ~file /\ r.md.children # {} /\ NoDeviceChange
               /\ Throw("ENOTEMPTY", r.cache, localFiles)
            \/ /\ file \/ r.md.children = {}
               /\ DeviceCall(n \in DOMAIN objs, WithoutObject(n), nextId,
                    Goto(<<>>, Drop(r.cache, {n, GetParentNodeId(r.md)}), localFiles),
                    Throw("EIO", r.cache, localFiles))
      BY <2>5, <2>9 DEF RemoveNode
    <3>2. r.md = getMetadata(n) /\ Tells(r.cache, {})
      BY <2>6, ItemTells DEF Agree
    <3>3. PICK c, L, files : c = r.cache /\ L = {n, GetParentNodeId(r.md)} /\ files = localFiles
      OBVIOUS
    <3>4. Tells(c, {}) /\ ParentNode(n) \in L /\ Whole(localFiles)
      BY <1>0, <2>6, <3>2, <3>3, ParentIs DEF Agree
    <3>5. CASE ~file /\ r.md.children # {} /\ NoDeviceChange /\ Throw("ENOTEMPTY", c, localFiles)
      <4>1. \E v \in pre.view : Below(v, call.path) /\ v.path # call.path
        BY <2>6, <2>7, <3>2, <3>5, NotEmpty
      <4>2. call.op = "rmdir"
        BY <2>7, <3>5
      <4>3. Excused
        BY <4>1, <4>2 DEF Excused
      <4>4. objs' = objs
        BY <3>5 DEF NoDeviceChange, device
      <4> QED BY <3>4, <3>5, <4>3, <4>4, Throws
    <3>6. CASE /\ file \/ r.md.children = {}
               /\ DeviceCall(n \in DOMAIN objs, WithoutObject(n), nextId, Goto(<<>>, Drop(c, L), localFiles),
                             Throw("EIO", c, localFiles))
      <4>1. Subtree(objs, n) = {n}
        BY <1>0, <2>6, <2>7, <3>2, <3>6, NotEmpty, NothingInAFile
      <4>2. CASE objs' = WithoutObject(n) /\ nextId' = nextId /\ Goto(<<>>, Drop(c, L), localFiles)
        <5>1. /\ Removes(n) /\ localFiles' = localFiles /\ localFiles' = files /\ cache' = Drop(c, L) /\ reply' = reply
              /\ todo' = <<>>
          BY <2>4, <2>6, <3>3, <4>2, ShortConcat DEF Removes, Goto
        <5>2. Agree'
          BY <3>3, <3>4, <4>1, <5>1, AgreeRemoves
        <5>3. View' = {v \in pre.view : ~Below(v, call.path)}
          BY <1>0, <2>7, <4>1, <5>1, RemovesKeepContents, GoneThere
        <5>4. View' = Effect(pre.view, call)
          BY <5>3 DEF Effect
        <5> QED BY <5>1, <5>2, <5>4, Finishes
      <4>3. CASE faults > 0 /\ faults' = faults - 1 /\ Throw("EIO", c, localFiles)
                 /\ (UNCHANGED device \/ (objs' = WithoutObject(n) /\ nextId' = nextId))
        <5>1. CASE UNCHANGED device
          BY <4>3, <5>1, Throws DEF device
        <5>2. CASE objs' = WithoutObject(n) /\ nextId' = nextId
          <6>1. Removes(n) /\ localFiles' = localFiles /\ todo' = <<>> /\ reply'.code # "ok"
            BY <2>6, <4>3, <5>2 DEF Removes, Throw
          <6>2. \E V : V = View' /\ Elsewhere(V) = Elsewhere(pre.view)
            BY <1>0, <2>7, <4>1, <6>1, RemovesKeepContents, GoneThere
          <6> QED BY <4>3, <6>1, <6>2, Stops
        <5> QED BY <4>3, <5>1, <5>2
      <4> QED BY <2>6, <3>6, <4>2, <4>3 DEF DeviceCall
    <3> QED BY <3>1, <3>3, <3>5, <3>6
  <2> QED BY <2>5, <2>8, <2>9, WhichStep DEF Underway
<1> QED BY <1>2, <1>3


LEMMA ReachedStep ==
  ASSUME Underway, View = pre.view, Agree, Room, Reached
  PROVE  CallInv'
<1>1. PICK node : FoundAt(node, Target) /\ todo = Invoke(call, node) \o Rest
  BY DEF Reached
<1>2. CASE call.op \in {"getattr", "statfs", "readdir"}
  BY <1>1, <1>2, ItemStep
<1>3. CASE call.op \in {"open", "read"}
  BY <1>1, <1>3, OpenStep
<1>4. CASE call.op = "write"
  BY <1>1, <1>4, WriteStep
<1>5. CASE call.op = "truncate"
  BY <1>1, <1>5, TruncateStep
<1>6. CASE call.op \in {"flush", "release"}
  BY <1>1, <1>6, FsyncStep
<1>7. CASE call.op = "mkdir"
  BY <1>1, <1>7, MkdirStep
<1>8. CASE call.op = "create"
  BY <1>1, <1>8, CreateStep
<1>9. CASE call.op \in {"unlink", "rmdir"}
  BY <1>1, <1>9, RemoveStep
<1>10. CASE call.op \notin {"getattr", "statfs", "readdir", "mkdir", "create", "open", "read", "write", "truncate",
                            "flush", "release", "unlink", "rmdir"}
  BY <1>1, <1>10, InvokeIs, SomethingToDo
<1> QED BY <1>2, <1>3, <1>4, <1>5, <1>6, <1>7, <1>8, <1>9, <1>10

-----------------------------------------------------------------------------
(* Closing a file whose contents are on the device.                        *)
LEMMA ClosedClean ==
  ASSUME Underway, Agree, NEW n, n \in DOMAIN localFiles => ~localFiles[n].dirty, objs' = objs,
         localFiles' = Drop(localFiles, {n}), NEW K, cache' = Drop(cache, K)
  PROVE  Agree' /\ View' = View /\ (n \in DOMAIN objs => Content(n) = objs[n].data)
<1>1. CleanCopiesCurrent
  BY UnderwayFacts DEF Base, CopiesInv
<1>2. n \in DOMAIN objs => Content(n) = objs[n].data
  BY <1>1 DEF Content, CleanCopiesCurrent, Agree, Whole
<1>3. PICK c, files : c = Drop(cache, K) /\ files = Drop(localFiles, {n})
  OBVIOUS
<1>4. Tells(c, {})
  BY <1>3, TellsLess DEF Agree
<1>5. DOMAIN files = DOMAIN localFiles \ {n} /\ \A i \in DOMAIN files : files[i] = localFiles[i]
  BY <1>3 DEF Drop
<1>6. Whole(files)
  BY <1>5 DEF Agree, Whole
<1>7. \A i \in DOMAIN objs : Content(i)' = Content(i)
  <2> TAKE i \in DOMAIN objs
  <2>1. CASE i = n
    BY <1>2, <1>3, <1>5, <2>1 DEF Content
  <2>2. CASE i # n
    BY <1>3, <1>5, <2>2 DEF Content
  <2> QED BY <2>1, <2>2
<1>8. Agree'
  BY <1>3, <1>4, <1>6, AgreeAfter
<1>9. View' = View
  BY <1>7, SameView
<1> QED BY <1>2, <1>8, <1>9

LEMMA Stored ==
  ASSUME Underway, todo' = <<>>, reply' = reply, Agree', View' = Effect(pre.view, call),
         call.op \in {"truncate", "flush", "release"},
         call.op \in {"flush", "release"} => OnDevice'
  PROVE  CallInv'
<1>1. call' = call /\ pre' = pre
  BY UnderwayFacts
<1>2. Asked' /\ View' = Effect(pre.view, call)' /\ reply'.code = "ok"
  BY <1>1, SameCall DEF Underway
<1> QED BY <1>1, <1>2 DEF CallInv, Did

LEMMA CloseStep ==
  ASSUME Underway, NEW n \in DOMAIN objs, NEW K, todo = << <<"closeFile", n, K>> >>, Agree, CloseFile,
         Strays \/ PathOf(n) = call.path, objs[n].file,
         call.op \in {"truncate", "flush", "release"}, View = Effect(pre.view, call)
  PROVE  CallInv'
<1>0. Base /\ NoTwins(objs) /\ IsStore(objs) /\ call' = call /\ pre' = pre
  BY UnderwayFacts
<1>1. PICK s : s = <<"closeFile", n, K>>
  OBVIOUS
<1>2. Head(todo) = s /\ Tail(todo) = <<>>
  BY <1>1, ShortConcat
<1>3. Arg(2) = n /\ Arg(3) = K
  BY <1>1, <1>2 DEF Arg
<1>4. /\ n \in DOMAIN localFiles => ~localFiles[n].dirty
      /\ Goto(<<>>, Drop(cache, K), Drop(localFiles, {n})) /\ objs' = objs
  BY <1>3 DEF CloseFile, NoDeviceChange, device
<1>5. todo' = <<>> /\ reply' = reply /\ cache' = Drop(cache, K) /\ localFiles' = Drop(localFiles, {n})
  BY <1>2, <1>4, ShortConcat DEF Goto
<1>6. Agree' /\ View' = View /\ Content(n) = objs[n].data
  BY <1>4, <1>5, ClosedClean
<1>7. ASSUME call.op \in {"flush", "release"} PROVE OnDevice'
  <2>1. Effect(pre.view, call)' = Effect(pre.view, call) /\ Effect(pre.view, call) = View /\ View = pre.view
    BY <1>0, <1>7, SameCall DEF Effect
  <2>2. ASSUME NEW v \in View, v.path = call.path
        PROVE  PathOf(n) = v.path /\ objs[n].data = v.data
    <3>1. PathOf(n) = call.path
      BY <2>1, <2>2 DEF Strays
    <3>2. PICK i \in DOMAIN objs : v = Item(i)
      BY ViewItems
    <3>3. PathOf(i) = PathOf(n) /\ v.data = Content(i)
      BY <2>2, <3>1, <3>2 DEF Item
    <3>4. i = n
      BY <1>0, <3>3, PathsUnique DEF PathOf
    <3> QED BY <1>6, <2>2, <3>1, <3>3, <3>4
  <2>3. \A v \in View : v.path = call.path => PathOf(n)' = v.path /\ objs'[n].data = v.data /\ objs'[n].file
    BY <1>4, <2>2 DEF PathOf
  <2> QED BY <1>0, <1>4, <2>1, <2>3 DEF OnDevice
<1> QED BY <1>5, <1>6, <1>7, Stored


(* Between the removal of the old object and the sending of the new one.   *)
LEMMA PathStays ==
  ASSUME Base, NEW n \in DOMAIN objs, objs[n].file, Removes(n), NEW x,
         x.parent = objs[n].parent, x.storage = objs[n].storage, x.name = objs[n].name
  PROVE  /\ PathFor(x)' = PathOf(n)
         /\ x.parent # 0 => /\ x.parent \in DOMAIN objs' /\ ~objs'[x.parent].file
                            /\ objs'[x.parent].storage = x.storage
<1>1. IsStore(objs)
  BY BaseFacts
<1>2. Subtree(objs, n) = {n}
  BY <1>1, NothingInAFile
<1>3. DOMAIN objs' = DOMAIN objs \ {n} /\ \A i \in DOMAIN objs \ {n} : objs'[i] = objs[i]
  BY <1>2 DEF Removes, WithoutObject, Drop
<1>4. \A i \in DOMAIN objs \ {n} : PathOf(i)' = PathOf(i)
  <2>1. PICK u : u = Drop(objs, Subtree(objs, n))
    OBVIOUS
  <2>2. u = objs'
    BY <2>1 DEF Removes, WithoutObject
  <2>3. \A i \in DOMAIN u : PathIn(u, i) = PathIn(objs, i)
    BY <1>1, <2>1, StoreWithoutObject
  <2> QED BY <1>3, <2>2, <2>3 DEF PathOf
<1>5. CASE x.parent = 0
  <2>1. PathIn(objs, n) = <<objs[n].storage, objs[n].name>>
    BY <1>1, <1>5, PathStep
  <2>2. PathOf(n) = <<x.storage, x.name>>
    BY <2>1 DEF PathOf
  <2> QED BY <1>5, <2>2 DEF PathFor
<1>6. CASE x.parent # 0
  <2>1. PICK p : p = x.parent
    OBVIOUS
  <2>2. p \in DOMAIN objs /\ ~objs[p].file /\ objs[p].storage = x.storage
    BY <1>1, <1>6, <2>1, StoreFields
  <2>3. p # n
    BY <2>2
  <2>4. PathOf(n) = Append(PathOf(p), x.name)
    BY <1>1, <1>6, <2>1, PathStep DEF PathOf
  <2>5. PathOf(p)' = PathOf(p) /\ p \in DOMAIN objs' /\ objs'[p] = objs[p]
    BY <1>3, <1>4, <2>2, <2>3
  <2> QED BY <1>6, <2>1, <2>2, <2>4, <2>5 DEF PathFor
<1> QED BY <1>5, <1>6

LEMMA SentAgain ==
  ASSUME Base, NoTwins(objs), NEW n \in DOMAIN objs \cap DOMAIN localFiles, ~localFiles[n].broken,
         nextId \in ObjIds, Removes(n), NEW x, x = [objs[n] EXCEPT !.data = localFiles[n].data]
  PROVE  /\ x \in Object /\ x.file /\ MayAdd(x)' /\ FolderFor(x) = ParentNode(n)
         /\ ItemFor(x)' = Item(n) /\ PathFor(x)' = PathOf(n)
<1>1. objs[n].file = TRUE /\ objs[n] \in Object /\ localFiles[n] \in Copy /\ IsStore(objs)
  BY CopiedIsFile, BaseFacts
<1>2. /\ x \in Object /\ x.file = TRUE /\ x.data = localFiles[n].data /\ x.parent = objs[n].parent
      /\ x.storage = objs[n].storage /\ x.name = objs[n].name
  BY <1>1 DEF Object, Copy
<1>3. FolderFor(x) = ParentNode(n)
  BY <1>2 DEF FolderFor, ParentNode
<1>4. /\ PathFor(x)' = PathOf(n)
      /\ x.parent # 0 => /\ x.parent \in DOMAIN objs' /\ ~objs'[x.parent].file
                         /\ objs'[x.parent].storage = x.storage
  BY <1>1, <1>2, PathStays
<1>5. ItemFor(x)' = Item(n)
  <2>1. Content(n) = x.data
    BY <1>2 DEF Content
  <2> QED BY <1>1, <1>2, <1>4, <2>1 DEF ItemFor, Item
<1>6. MayAdd(x)'
  <2>1. nextId' \in ObjIds
    BY DEF Removes
  <2>2. Subtree(objs, n) = {n}
    BY <1>1, NothingInAFile
  <2>3. DOMAIN objs' = DOMAIN objs \ {n} /\ \A i \in DOMAIN objs' : objs'[i] = objs[i]
    BY <2>2 DEF Removes, WithoutObject, Drop
  <2>4. ASSUME NEW i \in DOMAIN objs', objs'[i].parent = x.parent, objs'[i].storage = x.storage
        PROVE  objs'[i].name # x.name
    <3> SUFFICES ASSUME objs'[i].name = x.name PROVE FALSE
      OBVIOUS
    <3>1. i \in DOMAIN objs /\ i # n /\ objs'[i] = objs[i]
      BY <2>3
    <3> QED BY <1>2, <2>4, <3>1 DEF NoTwins
  <2> QED BY <1>4, <2>1, <2>4 DEF MayAdd, Inside
<1> QED BY <1>2, <1>3, <1>4, <1>5, <1>6

LEMMA ResendsNext ==
  ASSUME Underway, reply' = reply, NEW n, NEW K, NEW x, todo' = << <<"sendFile", n, K, x>> >>,
         n \in DOMAIN localFiles' /\ n \notin DOMAIN objs', x \in Object, x.file, MayAdd(x)', FolderFor(x) \in K,
         Strays \/ PathFor(x)' = call.path, call.op \in {"truncate", "flush", "release"},
         NEW c, cache' = c, Tells(c, K)', Whole(localFiles'), (View \cup {ItemFor(x)})' = Effect(pre.view, call),
         ~Orphaned => \E V : V = View' /\ Elsewhere(V) = Elsewhere(pre.view)
  PROVE  CallInv'
<1>1. call' = call /\ pre' = pre
  BY UnderwayFacts
<1>2. /\ Asked' /\ Strays' = Strays /\ (View \cup {ItemFor(x)})' = Effect(pre.view, call)'
      /\ reply'.code = "ok" /\ Untouched'
  BY <1>1, SameCall, UntouchedAfter DEF Underway
<1>3. Tells(cache, K)' /\ Whole(localFiles)' /\ FolderFor(x)' \in K
  BY DEF Tells, Whole, FolderFor
<1>4. Resending'
  BY <1>1, <1>2, <1>3 DEF Resending
<1> QED BY <1>2, <1>4 DEF CallInv

LEMMA StraysAreOrphans ==
  ASSUME Underway, Strays, call.op \in {"truncate", "flush", "release"}
  PROVE  Orphaned
BY DEF Underway, Asked, Strays, FileAt, Orphaned

LEMMA ClosingFails ==
  ASSUME Underway, Agree, NEW n \in DOMAIN objs, Strays \/ PathOf(n) = call.path, Untouched,
         call.op \in {"truncate", "flush", "release"}, objs[n].file,
         faults > 0, faults' = faults - 1, todo' = <<>>, reply'.code # "ok",
         UNCHANGED device \/ Removes(n),
         \A i \in DOMAIN objs \ {n} : i \in DOMAIN localFiles' <=> i \in DOMAIN localFiles,
         \A i \in DOMAIN objs \ {n} : i \in DOMAIN localFiles => localFiles'[i] = localFiles[i]
  PROVE  CallInv'
<1>0. Base /\ IsStore(objs)
  BY UnderwayFacts
<1>1. Subtree(objs, n) = {n}
  BY <1>0, NothingInAFile
<1>2. ASSUME ~Orphaned PROVE \E V : V = View' /\ Elsewhere(V) = Elsewhere(pre.view)
  <2>1. PathOf(n) = call.path
    BY <1>2, StraysAreOrphans
  <2>2. PICK W, v : W = {Item(i) : i \in DOMAIN objs \ {n}} /\ v = Item(n)
    OBVIOUS
  <2>3. Elsewhere(W \cup {v}) = Elsewhere(W) /\ View = W \cup {v}
    <3>1. Below(v, call.path)
      BY <2>1, <2>2, ItemsBelow DEF Item
    <3> QED BY <2>2, <3>1, ElsewhereAdds, ViewItems
  <2>4. Elsewhere(W) = Elsewhere(pre.view)
    BY <1>2, <2>3 DEF Untouched
  <2>5. CASE UNCHANGED device
    <3>1. \A i \in DOMAIN objs \ {n} : Content(i)' = Content(i)
      BY <2>5 DEF Content, device
    <3>2. PICK d : d = Content(n)'
      OBVIOUS
    <3>3. PICK w : w = [path |-> PathOf(n), file |-> objs[n].file, data |-> d]
      OBVIOUS
    <3>4. View' = W \cup {w}
      <4>1. objs' = objs /\ Content(n)' = d
        BY <2>5, <3>2 DEF device
      <4> QED BY <2>2, <3>1, <3>3, <4>1, ViewChanges
    <3>5. Elsewhere(W \cup {w}) = Elsewhere(W)
      <4>1. Below(w, call.path)
        BY <2>1, <3>3, ItemsBelow
      <4> QED BY <4>1, ElsewhereAdds
    <3> QED BY <2>4, <3>4, <3>5
  <2>6. CASE Removes(n)
    <3>1. \A i \in DOMAIN objs \ {n} : Content(i)' = Content(i)
      <4>1. \A i \in DOMAIN objs \ {n} : objs'[i] = objs[i]
        BY <1>1, <2>6 DEF Removes, WithoutObject, Drop
      <4> QED BY <4>1 DEF Content
    <3>2. View' = W
      BY <1>0, <1>1, <2>2, <2>6, <3>1, ViewRemoves
    <3> QED BY <2>4, <3>2
  <2> QED BY <2>5, <2>6
<1> QED BY <1>2, Stops


LEMMA DeleteStep ==
  ASSUME Underway, NEW n \in DOMAIN objs, NEW K, todo = << <<"closeFile", n, K>> >>, Agree, Room, DeleteOld,
         objs[n].file, ParentNode(n) \in K, Strays \/ PathOf(n) = call.path, Untouched,
         call.op \in {"truncate", "flush", "release"}, View = Effect(pre.view, call)
  PROVE  CallInv'
<1>0. Base /\ NoTwins(objs) /\ IsStore(objs) /\ nextId \in ObjIds
  BY UnderwayFacts DEF Room
<1>1. PICK s : s = <<"closeFile", n, K>>
  OBVIOUS
<1>2. Head(todo) = s /\ Tail(todo) = <<>>
  BY <1>1, ShortConcat
<1>3. Arg(2) = n /\ Arg(3) = K
  BY <1>1, <1>2 DEF Arg
<1>4. PICK x, gs : /\ x = [objs[n] EXCEPT !.data = localFiles[n].data]
                   /\ gs = [localFiles EXCEPT ![n].dirty = FALSE]
  OBVIOUS
<1>5. /\ n \in DOMAIN localFiles
      /\ DeviceCall(n \in DOMAIN objs, WithoutObject(n), nextId,
            Goto(<< <<"sendFile", n, K, x>> >>, cache, gs), Throw("EIO", cache, Broken(n)))
  BY <1>3, <1>4 DEF DeleteOld
<1>6. ~localFiles[n].broken /\ Tells(cache, {}) /\ Whole(localFiles)
  BY <1>5 DEF Agree, Whole
<1>7. CASE objs' = WithoutObject(n) /\ nextId' = nextId /\ Goto(<< <<"sendFile", n, K, x>> >>, cache, gs)
  <2>1. Removes(n) /\ localFiles' = gs /\ reply' = reply /\ Subtree(objs, n) = {n}
    BY <1>0, <1>7, NothingInAFile DEF Removes, Goto
  <2>2. todo' = << <<"sendFile", n, K, x>> >>
    <3>1. PICK t : t = <<"sendFile", n, K, x>>
      OBVIOUS
    <3>2. todo' = <<t>> \o <<>>
      BY <1>2, <1>7, <3>1 DEF Goto
    <3> QED BY <3>1, <3>2, ShortConcat
  <2>3. /\ x \in Object /\ x.file /\ MayAdd(x)' /\ FolderFor(x) \in K
        /\ ItemFor(x)' = Item(n) /\ PathFor(x)' = PathOf(n)
    BY <1>0, <1>4, <1>5, <1>6, <2>1, SentAgain
  <2>4. /\ DOMAIN gs = DOMAIN localFiles /\ \A i \in DOMAIN gs : i # n => gs[i] = localFiles[i]
        /\ \A i \in DOMAIN gs : gs[i].broken = localFiles[i].broken
    <3>1. localFiles[n] \in Copy
      BY <1>0, <1>5, CopiedIsFile
    <3> QED BY <1>4, <1>5, <3>1 DEF Copy
  <2>5. Whole(localFiles') /\ n \in DOMAIN localFiles'
    BY <1>5, <1>6, <2>1, <2>4 DEF Whole
  <2>6. n \notin DOMAIN objs' /\ \A i \in DOMAIN objs \ {n} : Content(i)' = Content(i)
    <3>1. DOMAIN objs' = DOMAIN objs \ {n} /\ \A i \in DOMAIN objs \ {n} : objs'[i] = objs[i]
      BY <1>7, <2>1 DEF WithoutObject, Drop
    <3> QED BY <2>1, <2>4, <3>1 DEF Content
  <2>7. View' = {Item(i) : i \in DOMAIN objs \ {n}} /\ View = View' \cup {Item(n)}
    BY <1>0, <2>1, <2>6, ViewRemoves
  <2>8. (View \cup {ItemFor(x)})' = Effect(pre.view, call)
    BY <2>3, <2>7
  <2>9. PICK c, f : c = cache /\ f = ParentNode(n)
    OBVIOUS
  <2>10. cache' = c /\ Tells(c, K)'
    <3>1. \A C, L : Tells(C, L) => Tells(C, L \cup {f})'
      BY <1>0, <2>1, <2>9, TellsRemoves
    <3>2. Tells(c, {} \cup {f})'
      BY <1>6, <2>9, <3>1
    <3>3. Tells(c, {} \cup {f})' => Tells(c, K)'
      BY <2>9 DEF Tells
    <3>4. cache' = c
      BY <1>7, <2>9 DEF Goto
    <3> QED BY <3>2, <3>3, <3>4
  <2>11. ~Orphaned => \E V : V = View' /\ Elsewhere(V) = Elsewhere(pre.view)
    <3> HAVE ~Orphaned
    <3>1. PathOf(n) = call.path
      BY StraysAreOrphans
    <3>2. PICK V, v : V = View' /\ v = Item(n)
      OBVIOUS
    <3>3. Below(v, call.path)
      BY <3>1, <3>2, ItemsBelow DEF Item
    <3>4. Elsewhere(V \cup {v}) = Elsewhere(V)
      BY <3>3, ElsewhereAdds
    <3> QED BY <2>7, <3>2, <3>4 DEF Untouched
  <2>12. Strays \/ PathFor(x)' = call.path
    BY <2>3
  <2> QED BY <2>1, <2>2, <2>3, <2>5, <2>6, <2>8, <2>10, <2>11, <2>12, ResendsNext
<1>8. CASE faults > 0 /\ faults' = faults - 1 /\ Throw("EIO", cache, Broken(n))
           /\ (UNCHANGED device \/ (objs' = WithoutObject(n) /\ nextId' = nextId))
  <2>1. todo' = <<>> /\ reply'.code # "ok" /\ localFiles' = Broken(n)
    BY <1>8 DEF Throw
  <2>2. UNCHANGED device \/ Removes(n)
    BY <1>8 DEF Removes
  <2>3. /\ \A i \in DOMAIN objs \ {n} : i \in DOMAIN localFiles' <=> i \in DOMAIN localFiles
        /\ \A i \in DOMAIN objs \ {n} : i \in DOMAIN localFiles => localFiles'[i] = localFiles[i]
    BY <2>1 DEF Broken
  <2> QED BY <1>8, <2>1, <2>2, <2>3, ClosingFails
<1> QED BY <1>5, <1>7, <1>8 DEF DeviceCall


(* Sending the contents again as a new object.                             *)
LEMMA SendingParts ==
  ASSUME NEW n, NEW K, NEW x, todo = << <<"sendFile", n, K, x>> >>
  PROVE  At("sendFile") /\ Arg(2) = n /\ Arg(3) = K /\ Arg(4) = x /\ Renumber(Tail(todo), n, nextId) = <<>>
<1>1. PICK s : s = <<"sendFile", n, K, x>>
  OBVIOUS
<1>2. Head(todo) = s /\ Tail(todo) = <<>> /\ todo # <<>>
  BY <1>1, ShortConcat
<1>3. At("sendFile") /\ Arg(2) = n /\ Arg(3) = K /\ Arg(4) = x
  BY <1>1, <1>2 DEF At, Arg
<1>4. Renumber(<<>>, n, nextId) = <<>>
  BY DEF Renumber
<1> QED BY <1>2, <1>3, <1>4

LEMMA AgreeSent ==
  ASSUME Underway, NEW n \in DOMAIN localFiles \ DOMAIN objs, NEW K, NEW x, Adds(x), FolderFor(x) \in K,
         Tells(cache, K), Whole(localFiles),
         cache' = Drop(cache, {IF y = n THEN nextId ELSE y : y \in K}), localFiles' = Drop(localFiles, {n})
  PROVE  Agree'
<1>0. Base /\ nextId \notin DOMAIN objs /\ nextId \notin DOMAIN localFiles /\ n \notin Storages
  <2>1. Base
    BY UnderwayFacts
  <2>2. n \in ObjIds
    BY <2>1, BaseFacts, MapElements DEF TypeOK
  <2> QED BY <2>1, <2>2, BaseFacts, DeviceAssumption
<1>1. PICK c, k, L, f : /\ c = cache /\ k = nextId /\ L = {IF y = n THEN nextId ELSE y : y \in K}
                        /\ f = FolderFor(x)
  OBVIOUS
<1>2. k \notin DOMAIN c
  BY <1>0, <1>1, BaseFacts DEF Adds, MayAdd
<1>3. Tells(c, K)'
  <2>1. \A C, J : Tells(C, J) /\ nextId \notin DOMAIN C => Tells(C, J \cup {f})'
    BY <1>0, <1>1, TellsAdds
  <2>2. Tells(c, K \cup {f})'
    BY <1>1, <1>2, <2>1
  <2>3. K \cup {f} = K
    BY <1>1
  <2> QED BY <2>2, <2>3 DEF Tells
<1>4. DOMAIN objs' = DOMAIN objs \cup {k}
  BY <1>1 DEF Adds, WithObject, Put
<1>5. n \notin DOMAIN objs' /\ n \notin Storages
  BY <1>0, <1>1, <1>4
<1>6. PICK d : d = Drop(c, L)
  OBVIOUS
<1>7. DOMAIN d = DOMAIN c \ L /\ \A m \in DOMAIN d : d[m] = c[m]
  BY <1>6 DEF Drop
<1>8. \A m \in K : m = n \/ m \in L
  BY <1>1
<1>9. Tells(d, {})'
  BY <1>3, <1>5, <1>7, <1>8 DEF Tells, Live
<1>10. cache' = d
  BY <1>1, <1>6
<1>11. Whole(localFiles)'
  BY DEF Whole, Drop
<1> QED BY <1>9, <1>10, <1>11 DEF Agree, Tells

LEMMA ResendStep ==
  ASSUME Underway, ~AcceptsDuplicates, NEW n \in DOMAIN localFiles \ DOMAIN objs, NEW K, NEW x \in Object,
         todo = << <<"sendFile", n, K, x>> >>, x.file, MayAdd(x), FolderFor(x) \in K,
         Strays \/ PathFor(x) = call.path, call.op \in {"truncate", "flush", "release"},
         Tells(cache, K), Whole(localFiles), View \cup {ItemFor(x)} = Effect(pre.view, call), Untouched
  PROVE  CallInv'
<1>0. Base /\ Base' /\ call' = call /\ pre' = pre
  BY UnderwayFacts
<1>1. /\ At("sendFile") /\ Arg(2) = n /\ Arg(3) = K /\ Arg(4) = x
      /\ Renumber(Tail(todo), n, nextId) = <<>>
  BY SendingParts
<1>2. SendFile
  BY <1>1, WhichStep DEF Underway
<1>3. DeviceCall(MayAdd(x), WithObject(x), nextId + 1,
            /\ todo' = Renumber(Tail(todo), n, nextId)
            /\ cache' = Drop(cache, {IF y = n THEN nextId ELSE y : y \in K}) /\ localFiles' = Drop(localFiles, {n})
            /\ UNCHANGED reply,
            Throw("EIO", cache, Broken(n)))
  BY <1>1, <1>2 DEF SendFile
<1>4. ASSUME Adds(x), \A i \in DOMAIN objs : Content(i)' = Content(i), nextId \notin DOMAIN localFiles'
      PROVE  View' = View \cup {ItemFor(x)}
  BY <1>0, <1>4, ViewAdds
<1>5. CASE /\ objs' = WithObject(x) /\ nextId' = nextId + 1 /\ todo' = Renumber(Tail(todo), n, nextId)
           /\ cache' = Drop(cache, {IF y = n THEN nextId ELSE y : y \in K}) /\ localFiles' = Drop(localFiles, {n})
           /\ reply' = reply
  <2>1. Adds(x)
    BY <1>5 DEF Adds
  <2>2. todo' = <<>> /\ Agree'
    BY <1>1, <1>5, <2>1, AgreeSent
  <2>3. PICK k : k = nextId
    OBVIOUS
  <2>4. k \notin DOMAIN objs /\ k \notin DOMAIN localFiles'
    BY <1>0, <1>5, <2>3, BaseFacts DEF Drop
  <2>5. \A i \in DOMAIN objs : Content(i)' = Content(i)
    <3>1. \A i \in DOMAIN objs : objs'[i] = objs[i]
      BY <1>5, <2>3, <2>4 DEF WithObject, Put
    <3>2. \A i \in DOMAIN objs : i # n
      OBVIOUS
    <3> QED BY <1>5, <3>1, <3>2 DEF Content, Drop
  <2>6. View' = View \cup {ItemFor(x)} /\ DOMAIN objs' = DOMAIN objs \cup {k} /\ objs'[k] = x
    BY <1>0, <2>1, <2>3, <2>4, <2>5, ViewAdds
  <2>7. ASSUME call.op \in {"flush", "release"} PROVE OnDevice'
    <3>1. Effect(pre.view, call)' = Effect(pre.view, call) /\ Effect(pre.view, call) = View' /\ View' = pre.view
      BY <1>0, <2>6, <2>7, SameCall DEF Effect
    <3>2. IsStore(objs') /\ NoTwins(objs')
      BY <1>0 DEF Base, StoreInv, CopiesInv, TypeOK, DeviceTypeOK, IsStore
    <3>3. PathOf(k)' = PathFor(x)
      <4>1. Fits(objs, k, x) /\ objs' = Put(objs, k, x) /\ IsStore(objs)
        BY <1>0, <2>1, <2>3, AddFits, BaseFacts DEF Adds, WithObject
      <4> QED BY <4>1, StoreWithObject DEF PathOf, PathFor
    <3>4. View' = {[path |-> PathIn(objs', i), file |-> objs'[i].file, data |-> Content(i)'] : i \in DOMAIN objs'}
      BY DEF View, PathOf
    <3>5. ASSUME NEW v \in View', v.path = call.path
          PROVE  PathIn(objs', k) = v.path /\ objs'[k].data = v.data
      <4>1. PathFor(x) = call.path
        BY <3>1, <3>5 DEF Strays
      <4>2. PICK i \in DOMAIN objs' : v = [path |-> PathIn(objs', i), file |-> objs'[i].file, data |-> Content(i)']
        BY <3>4
      <4>3. PathIn(objs', i) = PathIn(objs', k)
        BY <3>3, <3>5, <4>1, <4>2 DEF PathOf
      <4>4. i = k
        BY <2>6, <3>2, <4>3, PathsUnique
      <4>5. Content(k)' = objs'[k].data
        BY <2>4 DEF Content
      <4> QED BY <3>5, <4>2, <4>4, <4>5
    <3>6. k \in DOMAIN objs' /\ objs'[k].file
      BY <2>6
    <3> QED BY <1>0, <3>1, <3>5, <3>6 DEF OnDevice, PathOf
  <2> QED BY <1>5, <2>2, <2>6, <2>7, Stored
<1>6. CASE faults > 0 /\ faults' = faults - 1 /\ Throw("EIO", cache, Broken(n))
           /\ (UNCHANGED device \/ (objs' = WithObject(x) /\ nextId' = nextId + 1))
  <2>1. todo' = <<>> /\ reply'.code # "ok" /\ localFiles' = Broken(n)
    BY <1>6 DEF Throw
  <2>2. /\ DOMAIN localFiles' = DOMAIN localFiles
        /\ \A i \in DOMAIN objs \cap DOMAIN localFiles : localFiles'[i] = localFiles[i]
    <3>1. \A i \in DOMAIN objs : i # n
      OBVIOUS
    <3> QED BY <2>1, <3>1 DEF Broken
  <2>3. ASSUME ~Orphaned PROVE \E V : V = View' /\ Elsewhere(V) = Elsewhere(pre.view)
    <3>1. CASE UNCHANGED device
      <4>1. objs' = objs /\ \A i \in DOMAIN objs : Content(i)' = Content(i)
        BY <2>2, <3>1 DEF Content, device
      <4>2. View' = View
        BY <4>1, SameView
      <4> QED BY <2>3, <4>2 DEF Untouched
    <3>2. CASE objs' = WithObject(x) /\ nextId' = nextId + 1
      <4>1. Adds(x)
        BY <3>2 DEF Adds
      <4>2. PICK k : k = nextId
        OBVIOUS
      <4>3. k \notin DOMAIN objs /\ k \notin DOMAIN localFiles'
        BY <1>0, <2>2, <4>2, BaseFacts
      <4>4. \A i \in DOMAIN objs : Content(i)' = Content(i)
        <5>1. \A i \in DOMAIN objs : objs'[i] = objs[i]
          BY <3>2, <4>2, <4>3 DEF WithObject, Put
        <5> QED BY <2>2, <5>1 DEF Content
      <4>5. View' = View \cup {ItemFor(x)}
        BY <1>4, <4>1, <4>2, <4>3, <4>4
      <4>6. PICK V, w : V = View /\ w = ItemFor(x)
        OBVIOUS
      <4>7. Elsewhere(V \cup {w}) = Elsewhere(V)
        <5>1. PathFor(x) = call.path
          BY <2>3, StraysAreOrphans
        <5>2. Below(w, call.path)
          BY <4>6, <5>1, ItemsBelow DEF ItemFor
        <5> QED BY <5>2, ElsewhereAdds
      <4> QED BY <2>3, <4>5, <4>6, <4>7 DEF Untouched
    <3> QED BY <1>6, <3>1, <3>2
  <2> QED BY <1>6, <2>1, <2>3, Stops
<1> QED BY <1>3, <1>5, <1>6 DEF DeviceCall


(* The end of create: the new file is looked up and opened.                *)
LEMMA OpeningUntouched ==
  ASSUME Underway, call.op = "create", objs' = objs, View' = View, View = Effect(pre.view, call)
  PROVE  \E V : V = View' /\ Elsewhere(V) = Elsewhere(pre.view)
<1>1. PICK w, W : w = [path |-> call.path, file |-> TRUE, data |-> <<>>] /\ W = pre.view
  OBVIOUS
<1>2. View = W \cup {w}
  BY <1>1 DEF Effect
<1>3. Below(w, call.path)
  BY <1>1, ItemsBelow
<1>4. Elsewhere(W \cup {w}) = Elsewhere(W)
  BY <1>3, ElsewhereAdds
<1> QED BY <1>1, <1>2, <1>4

LEMMA OpeningFails ==
  ASSUME Underway, call.op = "create", View = Effect(pre.view, call), ReadFails, ~At("rename"), Live(Arg(2))
  PROVE  CallInv'
<1>1. /\ faults > 0 /\ faults' = faults - 1 /\ objs' = objs
      /\ \E c : Throw("EIO", c, localFiles)
  BY DEF ReadFails, device
<1>2. todo' = <<>> /\ reply'.code # "ok" /\ localFiles' = localFiles
  BY <1>1 DEF Throw
<1>3. View' = View
  BY <1>1, <1>2 DEF View, Content, PathOf
<1>4. \E V : V = View' /\ Elsewhere(V) = Elsewhere(pre.view)
  BY <1>1, <1>3, OpeningUntouched
<1> QED BY <1>1, <1>2, <1>4, Stops

LEMMA SearchNew ==
  ASSUME Underway, call.op = "create", View = Effect(pre.view, call), Agree,
         NEW f \in DOMAIN objs, objs[f].file, PathOf(f) = call.path,
         NEW dir, NEW rest, Walking(dir, rest, call.path), todo = << <<"getNode", dir, rest, <<"opened">> >> >>
  PROVE  CallInv'
<1>0. Base /\ NoTwins(objs) /\ todo # <<>> /\ call.path \in Seq(PathElem) /\ IsStore(objs)
  BY UnderwayFacts DEF WellFormed, Call, Path, PathElem
<1>1. PICK p : p = call.path
  OBVIOUS
<1>2. PICK s : s = <<"getNode", dir, rest, <<"opened">> >>
  OBVIOUS
<1>3. Head(todo) = s /\ Tail(todo) = <<>>
  BY <1>2, ShortConcat
<1>4. At("getNode") /\ ~At("rename") /\ Arg(2) = dir /\ Arg(3) = rest /\ Arg(4) = <<"opened">>
  BY <1>0, <1>2, <1>3 DEF At, Arg
<1>5. Live(dir) /\ IsFolderNode(dir)
  BY DEF Walking, IsFolderNode, Live
<1>6. CASE ReadFails
  BY <1>4, <1>5, <1>6, OpeningFails
<1>7. ASSUME NEW node, FoundAt(node, p) PROVE node.id = f /\ node.file
  <2>1. node.id = f
    BY <1>0, <1>1, <1>7, FoundIs
  <2> QED BY <1>7, <2>1 DEF FoundAt
<1>8. CASE GetNode
  <2>0. objs' = objs
    BY <1>8 DEF GetNode, NoDeviceChange, device
  <2>1. rest # <<>>
    <3> SUFFICES ASSUME rest = <<>> PROVE FALSE
      OBVIOUS
    <3>1. Head(todo) \in TrueStep
      BY <1>0, <1>4, TrueArguments
    <3>2. dir \in Storages
      BY <1>2, <1>3, <3>1 DEF TrueStep
    <3>3. PICK node : node = [id |-> dir, file |-> FALSE]
      OBVIOUS
    <3>4. FoundAt(node, p)
      BY <1>0, <1>1, <3>2, <3>3, WalkEnds
    <3> QED BY <1>7, <3>3, <3>4
  <2>2. PICK r \in getItem(dir) :
                 LET found == {e \in r.md.children : e.name = Head(rest)}
                 IN  \/ found = {} /\ Throw("ENOENT", r.cache, localFiles)
                     \/ \E e \in found :
                          Goto(IF e.file \/ Len(rest) = 1
                               THEN Then(<<"opened">>, [id |-> e.id, file |-> e.file])
                               ELSE << <<"getNode", e.id, Tail(rest), <<"opened">> >> >>,
                               r.cache, localFiles)
    BY <1>4, <1>8, <2>1 DEF GetNode
  <2>3. r.md = getMetadata(dir) /\ Tells(r.cache, {})
    BY <1>5, ItemTells DEF Agree
  <2>4. ASSUME \A e \in getMetadata(dir).children : e.name # Head(rest) PROVE FALSE
    <3>1. Missing(p)
      BY <1>0, <1>1, <2>1, <2>4, WalkFails
    <3>2. IsPrefix(p, p)
      BY <1>0, <1>1, PrefixSelf
    <3> QED BY <1>1, <3>1, <3>2 DEF Missing
  <2>5. PICK e \in getMetadata(dir).children :
          /\ e.name = Head(rest)
          /\ Goto(IF e.file \/ Len(rest) = 1
                               THEN Then(<<"opened">>, [id |-> e.id, file |-> e.file])
                               ELSE << <<"getNode", e.id, Tail(rest), <<"opened">> >> >>,
                               r.cache, localFiles)
    BY <2>2, <2>3, <2>4
  <2>6. PICK c, files : c = r.cache /\ files = localFiles
    OBVIOUS
  <2>7. cache' = c /\ localFiles' = files /\ reply' = reply
    BY <2>5, <2>6 DEF Goto
  <2>8. Agree'
    BY <2>0, <2>3, <2>6, <2>7, AgreeAfter DEF Agree
  <2>9. View' = Effect(pre.view, call)
    <3>1. View' = View
      BY <2>0, <2>6, <2>7 DEF View, Content, PathOf
    <3> QED BY <3>1
  <2>10. f \in DOMAIN objs' /\ objs'[f].file /\ PathOf(f)' = call.path
    BY <2>0 DEF PathOf
  <2>11. /\ Walking(e.id, Tail(rest), p) \/ e.file
         /\ e.file \/ Len(rest) = 1 => FoundAt([id |-> e.id, file |-> e.file], p)
    BY <1>0, <1>1, <2>1, <2>5, WalkOn
  <2>12. CASE e.file \/ Len(rest) = 1
    <3>1. PICK node : node = [id |-> e.id, file |-> e.file]
      OBVIOUS
    <3>2. node.id = f /\ node.file
      BY <1>7, <2>11, <2>12, <3>1
    <3>3. PICK t : t = <<"open", f>>
      OBVIOUS
    <3>4. Then(<<"opened">>, node) = <<t>>
      BY <3>2, <3>3 DEF Then
    <3>5. todo' = <<t>> \o <<>>
      BY <1>3, <2>5, <2>12, <3>1, <3>4 DEF Goto
    <3>6. todo' = << <<"open", f>> >>
      BY <3>3, <3>5, ShortConcat
    <3> QED BY <2>7, <2>8, <2>9, <2>10, <3>6, Opens
  <2>13. CASE ~(e.file \/ Len(rest) = 1)
    <3>1. PICK d, t : d = e.id /\ t = Tail(rest)
      OBVIOUS
    <3>2. Walking(d, t, p)
      BY <2>11, <2>13, <3>1
    <3>3. Walking(d, t, p)'
      BY <2>0, <3>2 DEF Walking, IsFolderNode, NodePath, PathOf
    <3>4. PICK u : u = <<"getNode", d, t, <<"opened">> >>
      OBVIOUS
    <3>5. todo' = <<u>> \o <<>>
      BY <1>3, <2>5, <2>13, <3>1, <3>4 DEF Goto
    <3>6. todo' = << <<"getNode", d, t, <<"opened">> >> >>
      BY <3>4, <3>5, ShortConcat
    <3> QED BY <1>1, <2>7, <2>8, <2>9, <2>10, <3>3, <3>6, Opens
  <2> QED BY <2>12, <2>13
<1> QED BY <1>4, <1>6, <1>8, WhichStep DEF Underway

LEMMA OpenNew ==
  ASSUME Underway, call.op = "create", View = Effect(pre.view, call), Agree,
         NEW n \in DOMAIN objs, todo = << <<"open", n>> >>
  PROVE  CallInv'
<1>0. Base
  BY UnderwayFacts
<1>1. PICK s : s = <<"open", n>>
  OBVIOUS
<1>2. Head(todo) = s /\ Tail(todo) = <<>> /\ todo # <<>>
  BY <1>1, ShortConcat
<1>3. At("open") /\ ~At("rename") /\ Arg(2) = n /\ Live(Arg(2))
  BY <1>1, <1>2 DEF At, Arg, Live
<1>4. CASE ReadFails
  BY <1>3, <1>4, OpeningFails
<1>5. CASE Open
  <2>1. PICK files \in openFile(n) : Goto(<<>>, cache, files)
    BY <1>3, <1>5 DEF Open
  <2>2. todo' = <<>> /\ reply' = reply /\ cache' = cache /\ localFiles' = files /\ objs' = objs
    BY <1>2, <1>5, <2>1, ShortConcat DEF Goto, Open, NoDeviceChange, device
  <2>3. /\ Whole(files) /\ DOMAIN files = DOMAIN localFiles \cup {n}
        /\ \A i \in DOMAIN localFiles : files[i] = localFiles[i]
        /\ n \notin DOMAIN localFiles => files[n].data = objs[n].data
    BY <1>0, OpenContents DEF Agree
  <2>4. PICK c : c = cache
    OBVIOUS
  <2>5. Agree'
    BY <2>2, <2>3, <2>4, AgreeAfter DEF Agree
  <2>6. \A i \in DOMAIN objs : Content(i)' = Content(i)
    <3> TAKE i \in DOMAIN objs
    <3>1. CASE i \in DOMAIN localFiles
      BY <2>2, <2>3, <3>1 DEF Content
    <3>2. CASE i \notin DOMAIN localFiles
      BY <2>2, <2>3, <3>2 DEF Content
    <3> QED BY <3>1, <3>2
  <2>7. View' = Effect(pre.view, call)
    BY <2>2, <2>6, SameView
  <2> QED BY <2>2, <2>5, <2>7, Finishes
<1> QED BY <1>3, <1>4, <1>5, WhichStep DEF Underway

-----------------------------------------------------------------------------
(* Every step of a call keeps CallInv.                                     *)
LEMMA CallStep ==
  ASSUME Underway, ~AcceptsDuplicates, Before \/ Storing \/ Resending \/ Opening
  PROVE  CallInv'
<1>1. CASE Before
  BY <1>1, SearchStep, ReachedStep DEF Before
<1>2. CASE Storing
  <2>1. PICK n, K :
          /\ todo = << <<"closeFile", n, K>> >> /\ n \in DOMAIN objs /\ objs[n].file /\ ParentNode(n) \in K
          /\ Strays \/ PathOf(n) = call.path
          /\ call.op \in {"truncate", "flush", "release"} /\ Agree /\ Room /\ View = Effect(pre.view, call) /\ Untouched
    BY <1>2 DEF Storing
  <2>2. CloseFile \/ DeleteOld
    <3>1. PICK s : s = <<"closeFile", n, K>>
      OBVIOUS
    <3>2. At("closeFile")
      BY <2>1, <3>1, ShortConcat DEF At
    <3> QED BY <3>2, WhichStep DEF Underway
  <2> QED BY <2>1, <2>2, CloseStep, DeleteStep
<1>3. CASE Resending
  <2>1. PICK n, K, x :
          /\ todo = << <<"sendFile", n, K, x>> >> /\ n \in DOMAIN localFiles /\ n \notin DOMAIN objs
          /\ x \in Object /\ x.file /\ MayAdd(x) /\ FolderFor(x) \in K
          /\ Strays \/ PathFor(x) = call.path
          /\ call.op \in {"truncate", "flush", "release"} /\ Tells(cache, K) /\ Whole(localFiles)
          /\ View \cup {ItemFor(x)} = Effect(pre.view, call) /\ Untouched
    BY <1>3 DEF Resending
  <2> QED BY <2>1, ResendStep
<1>4. CASE Opening
  BY <1>4, SearchNew, OpenNew DEF Opening
<1> QED BY <1>1, <1>2, <1>3, <1>4


LEMMA NothingHappens ==
  ASSUME CallInv, UNCHANGED vars
  PROVE  CallInv'
<1>1. /\ objs' = objs /\ nextId' = nextId /\ cache' = cache /\ localFiles' = localFiles /\ todo' = todo
      /\ reply' = reply /\ call' = call /\ faults' = faults /\ pre' = pre
  BY DEF vars, device, process
<1>2. /\ Asked' = Asked /\ Target' = Target /\ Rest' = Rest /\ Orphaned' = Orphaned
      /\ Excused' = Excused /\ Strays' = Strays /\ Effect(pre.view, call)' = Effect(pre.view, call)
  BY <1>1, SameCall
<1>3. View' = View /\ Room' = Room /\ Agree' = Agree /\ \A K : Tells(cache, K)' = Tells(cache, K)
  BY <1>1 DEF View, Content, PathOf, Room, Agree, Tells, Whole, Live, getMetadata, GetFolderContents, Inside
<1>4. /\ \A dir, rest, p : Walking(dir, rest, p)' = Walking(dir, rest, p)
      /\ \A node, p : FoundAt(node, p)' = FoundAt(node, p)
      /\ \A i : PathOf(i)' = PathOf(i) /\ ParentNode(i)' = ParentNode(i)
      /\ \A x : PathFor(x)' = PathFor(x) /\ MayAdd(x)' = MayAdd(x) /\ ItemFor(x)' = ItemFor(x)
      /\ \A node : Invoke(call, node)' = Invoke(call, node)
  BY <1>1 DEF Walking, FoundAt, IsFolderNode, NodePath, PathOf, ParentNode, PathFor, ItemFor, MayAdd, Inside, Live,
              Invoke, NotImplemented
<1>5. Untouched' = Untouched
  BY <1>1, <1>2, <1>3 DEF Untouched, Elsewhere
<1>6. Before' = Before
  BY <1>1, <1>2, <1>3, <1>4 DEF Before, Searching, Reached
<1>7. Storing' = Storing
  BY <1>1, <1>2, <1>3, <1>4, <1>5 DEF Storing
<1>8. Resending' = Resending
  BY <1>1, <1>2, <1>3, <1>4, <1>5 DEF Resending, FolderFor, Whole
<1>9. Opening' = Opening
  BY <1>1, <1>2, <1>3, <1>4 DEF Opening
<1>10. Did' = Did
  BY <1>1, <1>2, <1>3, <1>4 DEF Did, OnDevice
<1>11. Stopped' = Stopped
  BY <1>1, <1>2, <1>3, <1>5 DEF Stopped
<1> QED BY <1>1, <1>2, <1>6, <1>7, <1>8, <1>9, <1>10, <1>11 DEF CallInv

LEMMA NextCall ==
  ASSUME Base, ReplyInv, FaultsInv, CallInv, ~AcceptsDuplicates, [Next]_vars
  PROVE  CallInv'
<1>1. CASE UNCHANGED vars
  BY <1>1, NothingHappens
<1>2. CASE call'.op = "none"
  BY <1>2 DEF CallInv
<1>3. CASE call.op = "none" /\ Kernel
  BY <1>3, KernelCall
<1>4. CASE todo # <<>> /\ call.op # "none" /\ Step /\ ~Crash /\ call' = call /\ pre' = pre
  <2>1. CASE call.op \in {"unmount", "rename"} \/ ~pre.coherent
    BY <1>4, <2>1 DEF CallInv
  <2>2. CASE call.op \notin {"none", "unmount", "rename"} /\ pre.coherent
    <3>1. reply.code = "ok"
      BY <1>4 DEF ReplyInv
    <3>2. Asked /\ (Before \/ Storing \/ Resending \/ Opening)
      BY <1>4, <2>2, <3>1 DEF CallInv, Did
    <3>3. NoTwins(objs)
      BY DEF Base, StoreInv
    <3>4. Underway
      BY <1>4, <2>2, <3>1, <3>2, <3>3 DEF Underway
    <3> QED BY <3>2, <3>4, CallStep
  <2> QED BY <1>4, <2>1, <2>2
<1> QED BY <1>1, <1>2, <1>3, <1>4, CallFrame

Called == Base /\ ReplyInv /\ FaultsInv /\ UnmountInv /\ CallInv

LEMMA InitCalled == ASSUME Init PROVE Called
<1>1. Base /\ ReplyInv /\ UnmountInv
  BY InitBase, InitCall
<1>2. call.op = "none" /\ faults = MaxFaults
  BY DEF Init, NoCall
<1> QED BY <1>1, <1>2, JmtpfsAssumption DEF Called, FaultsInv, CallInv

LEMMA NextCalled ==
  ASSUME Called, ~AcceptsDuplicates, [Next]_vars
  PROVE  Called'
BY NextBase, NextReply, NextFaults, NextUnmount, NextCall DEF Called

-----------------------------------------------------------------------------
(* What CallInv says when the call is done.                                *)
LEMMA InvokeOne ==
  ASSUME NEW node,
         call.op \in {"getattr", "statfs", "readdir", "mkdir", "create", "open", "read", "write", "truncate",
                      "flush", "release", "unlink", "rmdir"}
  PROVE  \E t : Invoke(call, node) = <<t>>
BY DEF Invoke, NotImplemented

LEMMA MoreToDo ==
  ASSUME NEW t, NEW steps, steps = <<t>>
  PROVE  steps \o Rest # <<>>
<1>1. CASE call.op = "create"
  <2>1. PICK s : Rest = <<s>>
    BY <1>1 DEF Rest
  <2>2. <<t>> \o <<s>> = <<t, s>> /\ <<t, s>> # <<>>
    BY ShortConcat
  <2> QED BY <2>1, <2>2
<1>2. CASE call.op # "create"
  <2>1. Rest = <<>>
    BY <1>2 DEF Rest
  <2>2. <<t>> \o <<>> = <<t>> /\ <<t>> # <<>>
    BY ShortConcat
  <2> QED BY <2>1, <2>2
<1> QED BY <1>1, <1>2

LEMMA BeforeGoesOn ==
  ASSUME Before, todo = <<>>
  PROVE  call.op \notin {"getattr", "statfs", "readdir", "mkdir", "create", "open", "read", "write", "truncate",
                         "flush", "release", "unlink", "rmdir"}
<1>1. ~Searching
  <2> SUFFICES ASSUME Searching PROVE FALSE
    OBVIOUS
  <2>1. PICK dir, rest : todo = << <<"getNode", dir, rest, <<"invoke">> >> >> \o Rest
    BY DEF Searching
  <2> QED BY <2>1, MoreToDo
<1>2. PICK node : todo = Invoke(call, node) \o Rest
  BY <1>1 DEF Before, Reached
<1> SUFFICES ASSUME call.op \in {"getattr", "statfs", "readdir", "mkdir", "create", "open", "read", "write",
                                 "truncate", "flush", "release", "unlink", "rmdir"}
             PROVE  FALSE
  OBVIOUS
<1>3. PICK t : Invoke(call, node) = <<t>>
  BY InvokeOne
<1> QED BY <1>2, <1>3, MoreToDo

LEMMA WhenDone ==
  ASSUME Called, Done, pre.coherent, call.op \notin {"unmount", "rename"}
  PROVE  /\ reply.code = "ok" => /\ Agree
                                 /\ ~Orphaned => View = Effect(pre.view, call)
                                 /\ call.op \in {"read", "flush", "release"} => Did
         /\ reply.code # "ok" => Stopped
<1>1. todo = <<>> /\ call.op \notin {"none", "unmount", "rename"}
  BY DEF Done
<1>2. reply.code # "ok" => Stopped
  BY <1>1 DEF Called, CallInv
<1>3. ASSUME reply.code = "ok" PROVE Before \/ Did
  BY <1>1, <1>3 DEF Called, CallInv, Storing, Resending, Opening
<1>4. ASSUME Before
      PROVE  Agree /\ View = Effect(pre.view, call) /\ call.op \notin {"read", "flush", "release"}
  <2>1. call.op \notin {"getattr", "statfs", "readdir", "mkdir", "create", "open", "read", "write", "truncate",
                         "flush", "release", "unlink", "rmdir"}
    BY <1>1, <1>4, BeforeGoesOn
  <2>2. Effect(pre.view, call) = pre.view
    BY <1>1, <2>1 DEF Effect
  <2> QED BY <1>4, <2>1, <2>2 DEF Before
<1> QED BY <1>2, <1>3, <1>4 DEF Did

LEMMA CoherentAgain == ASSUME Base, Agree PROVE Coherent
BY CoherentIs DEF Agree

LEMMA EffectDone ==
  ASSUME Called, call.op # "rename"
  PROVE  ExactEffect
<1> SUFFICES ASSUME Succeeded, pre.coherent, ~Orphaned PROVE View = Effect(pre.view, call)
  BY DEF ExactEffect
<1>1. Done /\ todo = <<>> /\ reply.code = "ok"
  BY DEF Succeeded, Done
<1>2. CASE call.op # "unmount"
  BY <1>1, <1>2, WhenDone
<1>3. CASE call.op = "unmount"
  <2>1. View = pre.view
    BY <1>1, <1>3 DEF Called, UnmountInv, Closing, Sending
  <2>2. Effect(pre.view, call) = pre.view
    BY <1>3 DEF Effect
  <2> QED BY <2>1, <2>2
<1> QED BY <1>2, <1>3

LEMMA ReadDone == ASSUME Called PROVE ReadCurrent
<1> SUFFICES ASSUME Succeeded, pre.coherent, call.op = "read", ~Orphaned
             PROVE  [path |-> call.path, file |-> TRUE, data |-> reply.data] \in pre.view
  BY DEF ReadCurrent
<1> QED BY WhenDone DEF Succeeded, Did

LEMMA DurableDone == ASSUME Called PROVE Durable
<1> SUFFICES ASSUME Succeeded, pre.coherent, call.op \in {"flush", "release"} PROVE OnDevice
  BY DEF Durable, OnDevice
<1> QED BY WhenDone DEF Succeeded, Did

LEMMA CoherentDone ==
  ASSUME Called, call.op # "rename"
  PROVE  StaysCoherent
<1> SUFFICES ASSUME Done, pre.coherent, NoFaultNow, call.op # "unmount" PROVE Coherent
  BY DEF StaysCoherent
<1>1. Base /\ faults \in Nat
  BY DEF Called, FaultsInv
<1>2. reply.code # "ok" => Agree
  BY <1>1, WhenDone DEF Stopped, NoFaultNow
<1> QED BY <1>1, <1>2, WhenDone, CoherentAgain

LEMMA ErrorDone ==
  ASSUME Called, call.op \notin {"rename", "unmount"}
  PROVE  NoSpuriousError
<1> SUFFICES ASSUME Failed, pre.coherent, NoFaultYet PROVE Excused
  BY DEF NoSpuriousError
<1>1. faults \in Nat /\ pre.faults \in Nat /\ faults <= pre.faults /\ pre.faults <= MaxFaults /\ faults = MaxFaults
  BY DEF Called, FaultsInv, Failed, Done, NoFaultYet
<1>2. ~(faults < pre.faults)
  BY <1>1, JmtpfsAssumption
<1> QED BY <1>2, WhenDone DEF Failed, Stopped

LEMMA ContainedDone ==
  ASSUME Called, call.op \notin {"rename", "unmount"}, ~Orphaned
  PROVE  Contained
<1> SUFFICES ASSUME Failed, pre.coherent PROVE Elsewhere(View) = Elsewhere(pre.view)
  BY DEF Contained, Elsewhere
<1> QED BY WhenDone DEF Failed, Stopped, Untouched

LEMMA AlwaysCalled == ASSUME ~AcceptsDuplicates PROVE Spec => []Called
<1>1. Init => Called
  BY InitCalled
<1>2. Called /\ [Next]_vars => Called'
  BY NextCalled
<1> QED BY <1>1, <1>2, PTL DEF Spec

(* A read returns the contents the file had when the call began, those     *)
(* written and not yet sent included.                                      *)
THEOREM ReadsAreCurrent == ASSUME ~AcceptsDuplicates PROVE Spec => []ReadCurrent
<1>1. Called => ReadCurrent
  BY ReadDone
<1> QED BY <1>1, AlwaysCalled, PTL

(* After flush or release succeed the device has the contents the file     *)
(* had, also when its copy had to be removed and sent again.               *)
THEOREM FlushesReachDevice == ASSUME ~AcceptsDuplicates PROVE Spec => []Durable
<1>1. Called => Durable
  BY DurableDone
<1> QED BY <1>1, AlwaysCalled, PTL

-----------------------------------------------------------------------------
(* Contents that wait in a local copy belong to a file that is open.  What a *)
(* step does to the device, and which contents begin to wait in it.        *)
Waits(i) == i \in DOMAIN localFiles /\ localFiles[i].dirty
Held(i)  == i \in DOMAIN objs /\ \E h \in Handles : handles[h] = PathOf(i)

LEMMA OwnedIs == Owned <=> \A i : Waits(i) => Held(i)
BY DEF Owned, Waits, Held

(* What a step does to the device, and at which object.                    *)
LEMMA Effects ==
  ASSUME Base, Step, ~Crash
  PROVE  \/ UNCHANGED device
         \/ \E x : Adds(x)
         \/ (DeleteOld \/ RemoveNode \/ DropOriginal) /\ Removes(Arg(2))
         \/ RenameFolder /\ \E name : Renames(Arg(2).id, name)
<1>0. TypeOK /\ nextId \in Nat
  BY BaseFacts
<1>1. CASE Mkdir \/ CreateFile \/ CopyTo \/ SendFile
  <2>1. UNCHANGED device \/ nextId' = nextId + 1
    BY <1>1 DEF Mkdir, CreateFile, CopyTo, SendFile, DeviceCall
  <2>2. DeviceStep
    BY IsDeviceStep DEF Next
  <2> QED BY <1>0, <2>1, <2>2 DEF DeviceStep, Removes, Renames
<1>2. CASE RemoveNode \/ DropOriginal \/ DeleteOld
  BY <1>2 DEF RemoveNode, DropOriginal, DeleteOld, DeviceCall, NoDeviceChange, Removes
<1>3. CASE RenameFolder
  <2>1. Arg(4) \in Names
    BY <1>0, <1>3, NextStep, StepArguments DEF RenameFolder, Arg
  <2> QED BY <1>3, <2>1 DEF RenameFolder, DeviceCall, NoDeviceChange, Renames
<1>4. CASE \/ GetNode \/ GetAttr \/ Open \/ Read \/ Write \/ Truncate \/ Fsync \/ CloseFile
           \/ Unmount \/ RenameFile \/ MoveContents \/ MoveRest \/ ClearItems \/ Refuse \/ ReadFails
  BY <1>4 DEF GetNode, GetAttr, Open, Read, Write, Truncate, Fsync, CloseFile, Unmount, RenameFile,
     MoveContents, MoveRest, ClearItems, Refuse, ReadFails, NoDeviceChange, device
<1> QED BY <1>1, <1>2, <1>3, <1>4 DEF Step

(* A file that is open stays so, unless it is removed or a folder is       *)
(* renamed.                                                                *)
LEMMA HeldOn ==
  ASSUME Base, Step, ~Crash, NEW i, Held(i)
  PROVE  \/ Held(i)'
         \/ (DeleteOld \/ RemoveNode \/ DropOriginal) /\ Removes(Arg(2)) /\ i \in Subtree(objs, Arg(2))
         \/ RenameFolder /\ \E name : Renames(Arg(2).id, name)
<1>0. handles' = handles /\ IsStore(objs)
  BY StepFrame, BaseFacts DEF Others
<1>1. i \in DOMAIN objs /\ \E h \in Handles : handles[h] = PathOf(i)
  BY DEF Held
<1>2. CASE objs' = objs
  BY <1>0, <1>1, <1>2 DEF Held, PathOf
<1>3. ASSUME NEW x, Adds(x) PROVE Held(i)'
  <2>1. PICK k : k = nextId
    OBVIOUS
  <2>2. Fits(objs, k, x) /\ objs' = Put(objs, k, x) /\ k \notin DOMAIN objs
    BY <1>3, <2>1, AddFits, BaseFacts DEF Adds, WithObject
  <2>3. PathIn(objs', i) = PathIn(objs, i)
    BY <1>0, <1>1, <2>2, StoreWithObject
  <2>4. i \in DOMAIN objs'
    BY <1>1, <2>2 DEF Put
  <2> QED BY <1>0, <1>1, <2>3, <2>4 DEF Held, PathOf
<1>4. ASSUME NEW n, Removes(n), i \notin Subtree(objs, n) PROVE Held(i)'
  <2> DEFINE u == Drop(objs, Subtree(objs, n))
  <2>1. n \in DOMAIN objs /\ objs' = u
    BY <1>4 DEF Removes, WithoutObject
  <2>2. \A j \in DOMAIN u : PathIn(u, j) = PathIn(objs, j)
    BY <1>0, <2>1, StoreWithoutObject
  <2>3. i \in DOMAIN u
    BY <1>1, <1>4 DEF Drop
  <2>4. PathIn(objs', i) = PathIn(objs, i) /\ i \in DOMAIN objs'
    BY <2>1, <2>2, <2>3
  <2> QED BY <1>0, <1>1, <2>4 DEF Held, PathOf
<1> QED BY <1>2, <1>3, <1>4, Effects DEF device

(* Only a write and a truncation leave contents waiting that were not.     *)
LEMMA WaitsBefore ==
  ASSUME Base, Step, ~Crash, NEW i, Waits(i)'
  PROVE  \/ Waits(i)
         \/ (Write \/ Truncate) /\ i = Arg(2)
<1>0. TypeOK
  BY BaseFacts
<1>01. \A j \in DOMAIN localFiles : localFiles[j] \in Copy
  BY <1>0 DEF TypeOK, IsMap
<1>02. ASSUME NEW n, localFiles' = [localFiles EXCEPT ![n].dirty = FALSE] \/ localFiles' = Broken(n) PROVE Waits(i)
  <2>1. i \in DOMAIN localFiles /\ localFiles[i] \in Copy
    BY <1>01, <1>02 DEF Broken, Waits
  <2>2. CASE i = n
    BY <1>02, <2>1, <2>2 DEF Broken, Waits, Copy
  <2>3. CASE i # n
    BY <1>02, <2>1, <2>3 DEF Broken, Waits
  <2> QED BY <2>2, <2>3
<1>1. CASE \/ GetNode \/ GetAttr \/ Fsync \/ Unmount \/ Mkdir \/ CreateFile \/ RemoveNode \/ RenameFile
           \/ DropOriginal \/ RenameFolder \/ MoveContents \/ MoveRest \/ ClearItems \/ Refuse \/ ReadFails
  <2>1. localFiles' = localFiles
    BY <1>1 DEF GetNode, GetAttr, Fsync, Unmount, Mkdir, CreateFile, RemoveNode, RenameFile, DropOriginal,
       RenameFolder, MoveContents, MoveRest, ClearItems, Refuse, ReadFails, DeviceCall, Goto, Throw
  <2> QED BY <2>1 DEF Waits
<1>2. ASSUME NEW n, NEW files \in openFile(n), localFiles' = files PROVE Waits(i)
  <2>1. /\ DOMAIN files = DOMAIN localFiles \cup {n}
        /\ \A j \in DOMAIN localFiles : files[j] = localFiles[j]
        /\ n \notin DOMAIN localFiles => files[n] = [data |-> objs[n].data, dirty |-> FALSE, broken |-> FALSE]
    BY <1>2, OpenContents
  <2> QED BY <1>2, <2>1 DEF Waits
<1>3. CASE Open \/ Read
  BY <1>2, <1>3 DEF Open, Read, Goto
<1>4. CASE CopyTo
  <2>1. \E files \in openFile(Arg(2)) : localFiles' = files
    BY <1>4 DEF CopyTo, DeviceCall, Goto, Throw
  <2> QED BY <1>2, <2>1
<1>5. CASE CloseFile
  BY <1>5 DEF CloseFile, Goto, Drop, Waits
<1>6. CASE DeleteOld
  <2>1. localFiles' = [localFiles EXCEPT ![Arg(2)].dirty = FALSE] \/ localFiles' = Broken(Arg(2))
    BY <1>6 DEF DeleteOld, DeviceCall, Goto, Throw
  <2> QED BY <1>02, <2>1
<1>7. CASE SendFile
  <2>1. localFiles' = Drop(localFiles, {Arg(2)}) \/ localFiles' = Broken(Arg(2))
    BY <1>7 DEF SendFile, DeviceCall, Throw
  <2>2. CASE localFiles' = Drop(localFiles, {Arg(2)})
    BY <2>2 DEF Waits, Drop
  <2> QED BY <1>02, <2>1, <2>2
<1>8. ASSUME NEW n, NEW files \in openFile(n), NEW d, localFiles' = [files EXCEPT ![n].data = d, ![n].dirty = TRUE]
      PROVE  Waits(i) \/ i = n
  <2>1. /\ DOMAIN files = DOMAIN localFiles \cup {n}
        /\ \A j \in DOMAIN localFiles : files[j] = localFiles[j]
    BY <1>8, OpenContents
  <2> QED BY <1>8, <2>1 DEF Waits
<1>9. CASE Write
  <2>1. \E files \in openFile(Arg(2)) : \E d : localFiles' = [files EXCEPT ![Arg(2)].data = d, ![Arg(2)].dirty = TRUE]
    BY <1>9 DEF Write, Goto
  <2> QED BY <1>8, <1>9, <2>1
<1>10. CASE Truncate
  <2>1. \/ localFiles' = localFiles
        \/ \E files \in openFile(Arg(2)) : \E d : localFiles' = [files EXCEPT ![Arg(2)].data = d, ![Arg(2)].dirty = TRUE]
    BY <1>10 DEF Truncate, Goto
  <2> QED BY <1>8, <1>10, <2>1 DEF Waits
<1> QED BY <1>1, <1>3, <1>4, <1>5, <1>6, <1>7, <1>9, <1>10 DEF Step

-----------------------------------------------------------------------------
(* The heads of the list of steps left, within a call that is not a rename. *)

(* The step the operation of a call is, for the node its path leads to.    *)
Asks(s, node) ==
  /\ s[1] \in {"getattr", "getItem", "mkdir", "createFile", "open", "read", "write", "truncate", "fsync",
               "throw", "remove"}
  /\ s[1] \in {"write", "truncate", "fsync"} => s[2] = node.id /\ node.file
  /\ s[1] = "write" => call.op = "write"
  /\ s[1] = "truncate" => call.op = "truncate"
  /\ s[1] = "fsync" => call.op \in {"flush", "release"}
  /\ s[1] = "remove" => /\ call.op \in {"unlink", "rmdir"} /\ s[2] = node.id /\ s[3] = node.file
                        /\ node.id \notin Storages
  /\ s[1] = "throw" => s[2] # "ok"
  /\ call.op = "release" => s[1] \in {"fsync", "throw"}

LEMMA ReachedHead ==
  ASSUME Underway, NEW node, FoundAt(node, Target), todo = Invoke(call, node) \o Rest, View = pre.view
  PROVE  \E s : /\ Invoke(call, node) = <<s>> /\ Tail(todo) = Rest
                /\ \A a : At(a) <=> a = s[1]
                /\ \A k : Arg(k) = s[k]
                /\ Asks(s, node)
<1>0. /\ FileAt(Target) => node.file
      /\ FolderAt(Target) => ~node.file
      /\ node.file \in BOOLEAN
  BY NodeKind
<1>1. /\ call.op \in {"open", "truncate"} => node.file
      /\ call.op \in {"readdir", "mkdir", "create"} => ~node.file
  BY <1>0 DEF Underway, Asked, Target
<1>2. Invoke(call, node) # <<>>
  BY SomethingToDo
<1>3. \E s : Invoke(call, node) = <<s>> /\ Asks(s, node)
  <2>1. CASE call.op \in {"getattr", "statfs", "readdir"}
    <3>1. PICK s : Invoke(call, node) = <<s>> /\ (s = <<"getattr", node.id>> \/ s = <<"getItem", node.id>>)
      BY <1>1, <2>1, InvokeIs
    <3>2. s[1] = "getattr" \/ s[1] = "getItem"
      BY <3>1
    <3> QED BY <2>1, <3>1, <3>2 DEF Asks
  <2>2. CASE call.op \in {"mkdir", "create"}
    <3>1. PICK s : Invoke(call, node) = <<s>> /\ (s = <<"mkdir", node.id, Last(call.path)>> \/ s = <<"createFile", node.id, Last(call.path)>>)
      BY <1>1, <2>2, InvokeIs
    <3>2. s[1] = "mkdir" \/ s[1] = "createFile"
      BY <3>1
    <3> QED BY <2>2, <3>1, <3>2 DEF Asks
  <2>3. CASE call.op \in {"open", "read", "write", "truncate"} /\ node.file
    <3>1. PICK s : Invoke(call, node) = <<s>> /\ s[1] = call.op /\ s[2] = node.id
      BY <2>3, InvokeIs
    <3> QED BY <2>3, <3>1 DEF Asks
  <2>4. CASE call.op \in {"flush", "release"} /\ node.file
    <3>1. PICK s : Invoke(call, node) = <<s>> /\ s[1] = "fsync" /\ s[2] = node.id
      BY <2>4, InvokeIs
    <3> QED BY <2>4, <3>1 DEF Asks
  <2>5. CASE call.op \in {"read", "write", "flush", "release"} /\ ~node.file
    <3>1. PICK s : Invoke(call, node) = <<s>> /\ s[1] = "throw" /\ s[2] = "EIO"
      BY <2>5, InvokeIs
    <3> QED BY <2>5, <3>1 DEF Asks
  <2>6. CASE call.op \in {"unlink", "rmdir"} /\ node.id \in Storages
    <3>1. PICK s : Invoke(call, node) = <<s>> /\ s[1] = "throw" /\ s[2] = "EROFS"
      BY <2>6, InvokeIs
    <3> QED BY <2>6, <3>1 DEF Asks
  <2>7. CASE call.op \in {"unlink", "rmdir"} /\ node.id \notin Storages
    <3>1. PICK s : Invoke(call, node) = <<s>> /\ s[1] = "remove" /\ s[2] = node.id /\ s[3] = node.file
      BY <2>7, InvokeIs
    <3> QED BY <2>7, <3>1 DEF Asks
  <2>8. CASE call.op \notin {"getattr", "statfs", "readdir", "mkdir", "create", "open", "read", "write", "truncate",
                             "flush", "release", "unlink", "rmdir"}
    BY <1>2, <2>8, InvokeIs
  <2> QED BY <1>0, <1>1, <2>1, <2>2, <2>3, <2>4, <2>5, <2>6, <2>7, <2>8
<1>4. PICK s : Invoke(call, node) = <<s>> /\ Asks(s, node)
  BY <1>3
<1>5. Head(todo) = s /\ Tail(todo) = Rest /\ todo # <<>>
  BY <1>4, RestParts, UnderwayFacts
<1>6. (\A a : At(a) <=> a = s[1]) /\ (\A k : Arg(k) = s[k])
  BY <1>5 DEF At, Arg
<1> QED BY <1>4, <1>5, <1>6

LEMMA SearchHead ==
  ASSUME Underway, Before, Searching
  PROVE  /\ \A a : At(a) <=> a = "getNode"
         /\ Tail(todo) = Rest /\ Arg(4) = <<"invoke">>
<1>1. PICK s, dir, rest : s = <<"getNode", dir, rest, <<"invoke">> >> /\ todo = <<s>> \o Rest
  BY DEF Searching
<1>2. Head(todo) = s /\ Tail(todo) = Rest /\ todo # <<>>
  BY <1>1, RestParts, UnderwayFacts
<1> QED BY <1>1, <1>2 DEF At, Arg

LEMMA OneHead ==
  ASSUME NEW s, todo = <<s>>
  PROVE  /\ \A a : At(a) <=> a = s[1]
         /\ \A k : Arg(k) = s[k]
         /\ Tail(todo) = <<>> /\ Head(todo) = s
BY DEF At, Arg

LEMMA LaterHeads ==
  ASSUME Underway, Storing \/ Resending \/ Opening
  PROVE  /\ Storing => \A a : At(a) <=> a = "closeFile"
         /\ Resending => \A a : At(a) <=> a = "sendFile"
         /\ Opening => call.op = "create" /\ \E b \in {"getNode", "open"} : \A a : At(a) <=> a = b
<1>1. ASSUME Storing PROVE \A a : At(a) <=> a = "closeFile"
  <2>1. PICK s, n, K : s = <<"closeFile", n, K>> /\ todo = <<s>>
    BY <1>1 DEF Storing
  <2> QED BY <2>1, OneHead
<1>2. ASSUME Resending PROVE \A a : At(a) <=> a = "sendFile"
  <2>1. PICK s, n, K, x : s = <<"sendFile", n, K, x>> /\ todo = <<s>>
    BY <1>2 DEF Resending
  <2> QED BY <2>1, OneHead
<1>3. ASSUME Opening PROVE call.op = "create" /\ \E b \in {"getNode", "open"} : \A a : At(a) <=> a = b
  <2>1. PICK s : s[1] \in {"getNode", "open"} /\ todo = <<s>>
    <3>1. \/ \E dir, rest, p : todo = << <<"getNode", dir, rest, p>> >>
          \/ \E n : todo = << <<"open", n>> >>
      BY <1>3 DEF Opening
    <3>2. ASSUME NEW dir, NEW rest, NEW p, todo = << <<"getNode", dir, rest, p>> >>
          PROVE \E s : s[1] \in {"getNode", "open"} /\ todo = <<s>>
      <4>1. <<"getNode", dir, rest, p>>[1] = "getNode"
        OBVIOUS
      <4> QED BY <3>2, <4>1
    <3>3. ASSUME NEW n, todo = << <<"open", n>> >>
          PROVE \E s : s[1] \in {"getNode", "open"} /\ todo = <<s>>
      <4>1. <<"open", n>>[1] = "open"
        OBVIOUS
      <4> QED BY <3>3, <4>1
    <3> QED BY <3>1, <3>2, <3>3
  <2> QED BY <1>3, <2>1, OneHead DEF Opening
<1> QED BY <1>1, <1>2, <1>3

(* The handle a call is made on, or will fill, and the file unlink removes. *)
HandleInv == /\ call.op \in {"read", "write", "flush", "release"} => handles[call.h] = call.path
             /\ call.op \in {"open", "create"} => handles[call.h] = <<>>
             /\ call.op = "unlink" => \A h \in Handles : handles[h] # call.path

Shortened(i) == call.op = "truncate" /\ \E K : todo = << <<"closeFile", i, K>> >>
Within == Underway /\ pre.owned /\ ~Orphaned /\ HandleInv /\ (Before \/ Storing \/ Resending \/ Opening)

LEMMA WithinReached ==
  ASSUME Within, NEW a \in {"write", "truncate", "remove", "fsync", "throw"}, At(a)
  PROVE  \E node : /\ FoundAt(node, Target) /\ todo = Invoke(call, node) \o Rest /\ View = pre.view /\ Agree
                   /\ a # "throw" => Arg(2) = node.id
                   /\ a \in {"write", "truncate", "fsync"} => node.file
                   /\ a = "write" => call.op = "write"
                   /\ a = "truncate" => call.op = "truncate"
                   /\ a = "remove" => /\ call.op \in {"unlink", "rmdir"} /\ Arg(3) = node.file /\ node.id \notin Storages
                   /\ a = "throw" => Arg(2) # "ok"
                   /\ Tail(todo) = Rest
<1>1. Before /\ ~Searching
  BY LaterHeads, SearchHead DEF Within
<1>2. View = pre.view /\ Agree /\ \E node : FoundAt(node, Target) /\ todo = Invoke(call, node) \o Rest
  BY <1>1 DEF Before, Reached
<1>3. PICK node : FoundAt(node, Target) /\ todo = Invoke(call, node) \o Rest
  BY <1>2
<1>4. PICK s : /\ Invoke(call, node) = <<s>> /\ Tail(todo) = Rest
                /\ \A b : At(b) <=> b = s[1]
                /\ \A k : Arg(k) = s[k]
                /\ Asks(s, node)
  BY <1>2, <1>3, ReachedHead DEF Within
<1>5. s[1] = a /\ Arg(2) = s[2] /\ Arg(3) = s[3] /\ Tail(todo) = Rest
  BY <1>4
<1> QED BY <1>2, <1>3, <1>4, <1>5 DEF Asks

LEMMA NotMoving ==
  ASSUME Within
  PROVE  /\ ~At("dropOriginal") /\ ~At("rename") /\ (At("closeFile") => Storing) /\ (At("sendFile") => Resending)
         /\ call.op = "release" => At("getNode") \/ At("fsync") \/ At("throw") \/ At("closeFile") \/ At("sendFile")
         /\ call.op = "release" /\ At("getNode") => Before /\ Searching
<1>1. CASE Storing \/ Resending \/ Opening
  BY <1>1, LaterHeads DEF Within
<1>2. CASE Before /\ Searching
  BY <1>2, SearchHead DEF Within
<1>3. CASE Before /\ Reached
  <2>1. PICK node : FoundAt(node, Target) /\ todo = Invoke(call, node) \o Rest
    BY <1>3 DEF Reached
  <2>2. \E s : /\ \A a : At(a) <=> a = s[1]
               /\ Asks(s, node)
    BY <1>3, <2>1, ReachedHead DEF Within, Before
  <2> QED BY <2>2 DEF Asks
<1> QED BY <1>1, <1>2, <1>3 DEF Within, Before

(* A file that waits stays open while it is not written to.                *)
LEMMA StaysHeld ==
  ASSUME Within, NEW i, Held(i), Waits(i), Waits(i)'
  PROVE  Held(i)'
<1>0. Base /\ NoTwins(objs) /\ IsStore(objs) /\ Step /\ ~Crash /\ Underway
  BY UnderwayFacts DEF Within, Underway
<1>1. SUFFICES ASSUME (DeleteOld \/ RemoveNode \/ DropOriginal) /\ Removes(Arg(2)) /\ i \in Subtree(objs, Arg(2))
               PROVE  FALSE
  <2>1. ~At("rename")
    BY NotMoving
  <2>2. ~RenameFolder
    BY <2>1 DEF RenameFolder
  <2> QED BY <1>0, <2>2, HeldOn
<1>2. PICK n : n = Arg(2)
  OBVIOUS
<1>3. n \in DOMAIN objs /\ (objs[n].file => i = n)
  <2>1. n \in DOMAIN objs
    BY <1>1, <1>2 DEF Removes
  <2> QED BY <1>0, <1>1, <1>2, <2>1, NothingInAFile
<1>4. CASE DeleteOld
  <2>1. Storing /\ localFiles[n] \in Copy
    <3>1. At("closeFile") /\ n \in DOMAIN localFiles
      BY <1>2, <1>4 DEF DeleteOld
    <3>2. TypeOK
      BY <1>0, BaseFacts
    <3> QED BY <3>1, <3>2, NotMoving DEF TypeOK, IsMap
  <2>2. PICK s, m, K : s = <<"closeFile", m, K>> /\ todo = <<s>> /\ objs[m].file
    BY <2>1 DEF Storing
  <2>3. m = n
    BY <1>2, <2>2, OneHead
  <2>4. localFiles' = [localFiles EXCEPT ![n].dirty = FALSE] \/ localFiles' = Broken(n)
    BY <1>2, <1>4 DEF DeleteOld, DeviceCall, Goto, Throw
  <2>5. ~Waits(n)'
    BY <2>1, <2>4 DEF Waits, Broken, Copy
  <2> QED BY <1>3, <2>2, <2>3, <2>5
<1>5. CASE RemoveNode
  <2>1. PICK node : /\ FoundAt(node, Target) /\ View = pre.view /\ Agree /\ n = node.id
                    /\ call.op \in {"unlink", "rmdir"} /\ Arg(3) = node.file
    BY <1>2, <1>5, WithinReached DEF RemoveNode
  <2>2. /\ FileAt(Target) => node.file /\ PathOf(node.id) = Target
        /\ FolderAt(Target) => ~node.file
        /\ node.file => objs[node.id].file = TRUE
        /\ ~node.file => NodePath(node.id) = Target /\ IsFolderNode(node.id)
        /\ Live(node.id)
    BY <1>0, <2>1, NodeKind
  <2>3. Target = call.path
    BY <2>1 DEF Target
  <2>4. CASE call.op = "unlink"
    <3>1. FileAt(Target)
      BY <1>0, <2>3, <2>4 DEF Underway, Asked
    <3>2. i = n /\ PathOf(i) = call.path
      BY <1>3, <2>1, <2>2, <2>3, <3>1
    <3> QED BY <2>4, <3>2 DEF Held, Within, HandleInv
  <2>5. CASE call.op = "rmdir"
    <3>1. ~node.file
      BY <1>0, <2>2, <2>3, <2>5 DEF Underway, Asked
    <3>2. n \notin Storages
      BY <1>0, <1>3, NodePathType DEF Live
    <3>3. PathOf(n) = call.path /\ ~objs[n].file
      BY <1>0, <2>1, <2>2, <2>3, <3>1, <3>2 DEF NodePath, IsFolderNode
    <3>4. getMetadata(n).children = {}
      <4>1. PICK r \in getItem(n) : Arg(3) \/ r.md.children = {}
        <5>1. PICK r \in getItem(n) :
               \/ /\ ~Arg(3) /\ r.md.children # {} /\ NoDeviceChange
               \/ Arg(3) \/ r.md.children = {}
          BY <1>2, <1>5 DEF RemoveNode
        <5>2. ~NoDeviceChange
          <6>1. n \notin DOMAIN objs'
            BY <1>0, <1>1, <1>2, <1>3, BelowStep DEF Removes, WithoutObject, Drop
          <6> QED BY <1>3, <6>1 DEF NoDeviceChange, device
        <5> QED BY <5>1, <5>2
      <4>2. PICK K : K = {}
        OBVIOUS
      <4>3. Tells(cache, K) /\ n \notin K
        BY <2>1, <4>2 DEF Agree
      <4>4. r.md = getMetadata(n)
        BY <2>1, <2>2, <4>3, ItemTells
      <4> QED BY <2>1, <3>1, <4>1, <4>4
    <3>5. i = n
      BY <1>0, <1>1, <1>2, <1>3, <2>1, <3>3, <3>4, NotEmpty
    <3>6. n \in DOMAIN objs \cap DOMAIN localFiles
      BY <1>3, <3>5 DEF Waits
    <3> QED BY <1>0, <3>3, <3>6, CopiedIsFile
  <2> QED BY <2>1, <2>4, <2>5
<1>6. ~DropOriginal
  <2>1. ~At("dropOriginal")
    BY NotMoving
  <2> QED BY <2>1 DEF DropOriginal
<1> QED BY <1>1, <1>4, <1>5, <1>6

(* Contents that begin to wait belong to a file that is open, or are sent  *)
(* in the next step.                                                       *)
LEMMA NewlyHeld ==
  ASSUME Within, NEW i, (Write \/ Truncate) /\ i = Arg(2), Waits(i)', Waits(i) => Held(i)
  PROVE  Held(i)' \/ Shortened(i)'
<1>0. Base /\ Underway /\ call' = call /\ handles' = handles /\ call.h \in Handles
  BY UnderwayFacts, BaseFacts DEF Within, Others, TypeOK, Call
<1>1. CASE Write
  <2>1. PICK node : FoundAt(node, Target) /\ View = pre.view /\ i = node.id /\ node.file /\ call.op = "write"
    BY <1>1, WithinReached DEF Write
  <2>2. node.id \in DOMAIN objs /\ PathOf(node.id) = call.path
    BY <1>0, <2>1, NodeKind, TheFile DEF Within
  <2>3. Held(i)
    BY <1>0, <2>1, <2>2 DEF Held, Within, HandleInv
  <2> QED BY <1>0, <1>1, <2>3 DEF Held, Write, NoDeviceChange, device, PathOf
<1>2. CASE Truncate
  <2>1. call.op = "truncate" /\ Tail(todo) = Rest
    BY <1>2, WithinReached DEF Truncate
  <2>2. Tail(todo) = <<>>
    BY <2>1 DEF Rest
  <2>3. PICK K, c, files : \/ Goto(<<>>, c, localFiles)
                           \/ Goto(<< <<"closeFile", i, K>> >>, c, files)
    BY <1>2 DEF Truncate
  <2>4. CASE Goto(<<>>, c, localFiles)
    <3>1. Held(i)
      BY <2>4 DEF Goto, Waits
    <3> QED BY <1>0, <1>2, <3>1 DEF Held, Truncate, NoDeviceChange, device, PathOf
  <2>5. CASE Goto(<< <<"closeFile", i, K>> >>, c, files)
    <3>1. PICK s : s = <<"closeFile", i, K>>
      OBVIOUS
    <3>2. <<s>> \o <<>> = <<s>>
      BY ShortConcat
    <3>3. todo' = <<s>>
      BY <2>2, <2>5, <3>1, <3>2 DEF Goto
    <3> QED BY <1>0, <2>1, <3>1, <3>3 DEF Shortened
  <2> QED BY <2>3, <2>4, <2>5
<1> QED BY <1>1, <1>2

(* What a truncation has put in the local copy is sent at once.            *)
LEMMA SentAtOnce ==
  ASSUME Base, Step, ~Crash, NEW i, Shortened(i)
  PROVE  ~Waits(i)'
<1>1. PICK s, K : s = <<"closeFile", i, K>> /\ todo = <<s>>
  BY DEF Shortened
<1>2. At("closeFile") /\ Arg(2) = i
  BY <1>1, OneHead
<1>3. CloseFile \/ DeleteOld
  BY <1>2, WhichStep
<1>4. CASE CloseFile
  BY <1>2, <1>4 DEF CloseFile, Goto, Waits, Drop
<1>5. CASE DeleteOld
  <2>1. i \in DOMAIN localFiles /\ localFiles[i] \in Copy
    BY <1>2, <1>5, BaseFacts DEF DeleteOld, TypeOK, IsMap
  <2>2. localFiles' = [localFiles EXCEPT ![i].dirty = FALSE] \/ localFiles' = Broken(i)
    BY <1>2, <1>5 DEF DeleteOld, DeviceCall, Goto, Throw
  <2> QED BY <2>1, <2>2 DEF Waits, Broken, Copy
<1> QED BY <1>3, <1>4, <1>5

LEMMA HeldStep ==
  ASSUME Within, NEW i, Waits(i)', Waits(i) => Held(i) \/ Shortened(i)
  PROVE  Held(i)' \/ Shortened(i)'
<1>0. Base /\ Step /\ ~Crash
  BY DEF Within, Underway
<1>1. ~Shortened(i)
  BY <1>0, SentAtOnce
<1>2. CASE Waits(i) /\ ~((Write \/ Truncate) /\ i = Arg(2))
  BY <1>1, <1>2, StaysHeld
<1>3. CASE (Write \/ Truncate) /\ i = Arg(2)
  BY <1>1, <1>3, NewlyHeld
<1> QED BY <1>0, <1>2, <1>3, WaitsBefore

(* What release has sent no longer waits.                                  *)
LEMMA ReleasedClean ==
  ASSUME Within, ~AcceptsDuplicates, call.op = "release", todo' = <<>>, reply'.code = "ok", NEW i, i \in DOMAIN objs', Waits(i)'
  PROVE  PathOf(i)' # call.path
<1>0. /\ Base /\ Base' /\ NoTwins(objs) /\ NoTwins(objs)' /\ IsStore(objs) /\ IsStore(objs') /\ Underway /\ Step /\ ~Crash
      /\ call' = call
  <2>1. Base /\ Base' /\ NoTwins(objs) /\ IsStore(objs) /\ call' = call
    BY UnderwayFacts DEF Within
  <2>2. NoTwins(objs)'
    BY <2>1 DEF Base, StoreInv
  <2>3. IsStore(objs)'
    BY <2>1 DEF Base, CopiesInv, StoreInv, TypeOK, DeviceTypeOK, IsStore, Issued
  <2> QED BY <2>1, <2>2, <2>3 DEF Within, Underway
<1>01. \A code, c, files : Throw(code, c, files) => code = "ok"
  BY DEF Throw
<1>02. \A t : <<t>> \o <<>> = <<t>> /\ <<t>> # <<>>
  BY ShortConcat
<1>1. ~Strays
  BY <1>0, StraysAreOrphans DEF Within
<1>2. CASE At("getNode")
  <2>1. Before /\ Searching
    BY <1>2, NotMoving
  <2>2. Tail(todo) = <<>> /\ Arg(4) = <<"invoke">>
    BY <1>0, <2>1, SearchHead DEF Rest
  <2>3. GetNode
    BY <1>0, <1>2, WhichStep DEF ReadFails, Throw
  <2>4. \E steps, c : Goto(steps, c, localFiles) /\ \E t : steps = <<t>>
    <3>1. \A node : \E t : Then(Arg(4), node) = <<t>>
      BY <2>2, InvokeOne DEF Then
    <3>2. \E steps, c : /\ Goto(steps, c, localFiles)
                        /\ (\E node : steps = Then(Arg(4), node)) \/ \E t : steps = <<t>>
      <4>1. \A c : ~Throw("ENOENT", c, localFiles)
        BY <1>01
      <4> QED BY <2>3, <4>1 DEF GetNode
    <3> QED BY <3>1, <3>2
  <2>5. PICK t, c : Goto(<<t>>, c, localFiles)
    BY <2>4
  <2> QED BY <1>02, <2>2, <2>5 DEF Goto
<1>3. CASE At("fsync")
  <2>1. Tail(todo) = <<>>
    BY <1>3, WithinReached DEF Rest
  <2>2. Fsync
    BY <1>0, <1>3, WhichStep DEF ReadFails, Throw
  <2>3. PICK t, c : Goto(<<t>>, c, localFiles)
    BY <2>2 DEF Fsync
  <2> QED BY <1>02, <2>1, <2>3 DEF Goto
<1>4. CASE At("throw")
  <2>1. Arg(2) # "ok"
    BY <1>4, WithinReached
  <2>2. Refuse
    BY <1>0, <1>4, WhichStep
  <2> QED BY <2>1, <2>2 DEF Refuse, Throw
<1>5. CASE At("closeFile")
  <2>1. PICK s, n, K : s = <<"closeFile", n, K>> /\ todo = <<s>> /\ n \in DOMAIN objs /\ PathOf(n) = call.path
    BY <1>1, <1>5, NotMoving DEF Storing
  <2>2. Arg(2) = n /\ Tail(todo) = <<>>
    BY <2>1, OneHead
  <2>3. CASE CloseFile
    <3>1. objs' = objs /\ n \notin DOMAIN localFiles'
      BY <2>2, <2>3 DEF CloseFile, NoDeviceChange, device, Goto, Drop
    <3>2. i # n
      BY <3>1 DEF Waits
    <3> QED BY <1>0, <2>1, <3>1, <3>2, PathsUnique DEF PathOf
  <2>4. CASE DeleteOld
    <3>1. \E t, c, files : Goto(<<t>>, c, files)
      BY <1>01, <2>4 DEF DeleteOld, DeviceCall
    <3>2. PICK t : todo' = <<t>> \o <<>>
      BY <2>2, <3>1 DEF Goto
    <3> QED BY <1>02, <3>2
  <2> QED BY <1>0, <1>5, <2>3, <2>4, WhichStep
<1>6. CASE At("sendFile")
  <2>1. PICK s, n, K, x : s = <<"sendFile", n, K, x>> /\ todo = <<s>> /\ PathFor(x) = call.path /\ n \in DOMAIN localFiles
    BY <1>1, <1>6, NotMoving DEF Resending
  <2>2. Arg(2) = n /\ Arg(4) = x
    BY <2>1, OneHead
  <2>3. SendFile
    BY <1>0, <1>6, WhichStep
  <2>4. localFiles' = Drop(localFiles, {n}) /\ objs' = WithObject(x) /\ nextId' = nextId + 1
    BY <1>01, <2>2, <2>3 DEF SendFile, DeviceCall
  <2>5. PICK k : k = nextId
    OBVIOUS
  <2>6. k \notin DOMAIN localFiles /\ nextId \in Nat
    BY <1>0, <2>5, BaseFacts
  <2>7. PICK y : Adds(y)
    BY <1>0, <2>4, <2>6, Effects DEF device, Removes, Renames
  <2>8. Fits(objs, k, y) /\ objs' = Put(objs, k, y) /\ k \notin DOMAIN objs
    BY <1>0, <2>5, <2>7, AddFits, BaseFacts DEF Adds, WithObject
  <2>9. x = y
    BY <2>4, <2>5, <2>7 DEF Adds, WithObject, Put
  <2>10. /\ x.parent = 0 => PathIn(objs', k) = <<x.storage, x.name>>
         /\ x.parent # 0 => PathIn(objs', k) = Append(PathIn(objs, x.parent), x.name)
    BY <1>0, <2>8, <2>9, StoreWithObject
  <2>11. PathIn(objs', k) = call.path /\ k \in DOMAIN objs'
    BY <2>1, <2>8, <2>10 DEF PathFor, PathOf, Put
  <2>12. i # k
    BY <2>4, <2>6 DEF Waits, Drop
  <2> QED BY <1>0, <2>11, <2>12, PathsUnique DEF PathOf
<1> QED BY <1>2, <1>3, <1>4, <1>5, <1>6, NotMoving

(* Within a call that is not a rename, contents that wait belong to a file *)
(* that is open, and a release that is done has left none at its path.     *)
HeldInv ==
  call.op \notin {"none", "unmount", "rename"} /\ pre.coherent /\ pre.owned /\ ~Orphaned =>
    /\ HandleInv
    /\ \A i : Waits(i) => Held(i) \/ Shortened(i)
    /\ call.op = "release" /\ todo = <<>> /\ reply.code = "ok" =>
         \A i \in DOMAIN objs : Waits(i) => PathOf(i) # call.path

LEMMA HandleBegun ==
  ASSUME Base, call.op = "none", Kernel
  PROVE  HandleInv'
<1>0. \A p \in Paths : p \in Seq(PathElem) /\ p # <<>>
  BY PathsType DEF Path, PathElem
<1>1. \A op, p, q, off, byte, h : Begin(op, p, q, off, byte, h) =>
        /\ call'.op = op /\ call'.path = p /\ call'.h = h /\ handles' = handles
  BY DEF Begin
<1>2. CASE \E p \in Paths : ~IsOpen(p) /\ Begin("unlink", p, p, 0, 0, call.h)
  <2>1. PICK p \in Paths : ~IsOpen(p) /\ Begin("unlink", p, p, 0, 0, call.h)
    BY <1>2
  <2>2. IsPrefix(p, p)
    BY <1>0, PrefixSelf
  <2>3. \A h \in Handles : handles[h] # p
    BY <1>0, <2>1, <2>2 DEF IsOpen
  <2> QED BY <1>1, <2>1, <2>3 DEF HandleInv
<1>3. CASE \E p \in Paths, h \in Handles : handles[h] = <<>> /\ (Begin("open", p, p, 0, 0, h) \/ Begin("create", p, p, 0, 0, h))
  BY <1>1, <1>3 DEF HandleInv
<1>4. CASE \E h \in Handles :
             \/ \E op \in {"read", "flush", "release"} : Begin(op, handles[h], handles[h], 0, 0, h)
             \/ \E n \in 0 .. MaxLen - 1, b \in Bytes : Begin("write", handles[h], handles[h], n, b, h)
  BY <1>1, <1>4 DEF HandleInv
<1>5. CASE call'.op \notin {"read", "write", "flush", "release", "open", "create", "unlink"}
  BY <1>5 DEF HandleInv
<1>6. CASE \E p, q \in Paths : Begin("rename", p, q, 0, 0, call.h)
  BY <1>1, <1>5, <1>6
<1>7. CASE \E op \in {"getattr", "statfs", "chmod", "utime"}, p \in Paths : Begin(op, p, p, 0, 0, call.h)
  BY <1>1, <1>5, <1>7
<1>8. CASE \E op \in {"readdir", "rmdir", "mkdir", "unmount"}, p \in Paths : Begin(op, p, p, 0, 0, call.h)
  BY <1>1, <1>5, <1>8
<1>9. CASE \E p \in Paths, n \in 0 .. MaxLen : Begin("truncate", p, p, n, 0, call.h)
  BY <1>1, <1>5, <1>9
<1> QED BY <1>2, <1>3, <1>4, <1>6, <1>7, <1>8, <1>9 DEF Kernel

LEMMA OwnedBegun ==
  ASSUME call.op = "none", Kernel
  PROVE  /\ objs' = objs /\ localFiles' = localFiles /\ handles' = handles /\ reply' = reply
         /\ todo' # <<>> /\ pre'.owned = Owned /\ pre'.faults = faults /\ faults' = faults
         /\ pre'.coherent = Coherent
<1>1. \E op, p, q, off, byte, h : Begin(op, p, q, off, byte, h)
  BY DEF Kernel
<1>2. PICK op, p, q, off, byte, h : Begin(op, p, q, off, byte, h)
  BY <1>1
<1>3. \A c : Handler(c) # <<>>
  BY DEF Handler
<1> QED BY <1>2, <1>3 DEF Begin, device

LEMMA HeldSame ==
  ASSUME objs' = objs, localFiles' = localFiles, handles' = handles
  PROVE  \A i : Waits(i)' = Waits(i) /\ Held(i)' = Held(i) /\ PathOf(i)' = PathOf(i)
BY DEF Waits, Held, PathOf

LEMMA NextHeld ==
  ASSUME Called, HeldInv, ~AcceptsDuplicates, [Next]_vars
  PROVE  HeldInv'
<1>0. Base
  BY DEF Called
<1>1. CASE UNCHANGED vars
  <2>1. \A i : Waits(i)' = Waits(i) /\ Held(i)' = Held(i) /\ PathOf(i)' = PathOf(i)
    BY <1>1, HeldSame DEF vars, device, process
  <2>2. /\ objs' = objs /\ todo' = todo /\ reply' = reply /\ call' = call /\ pre' = pre /\ handles' = handles
    BY <1>1 DEF vars, device, process
  <2>3. HandleInv' = HandleInv /\ Orphaned' = Orphaned /\ \A i : Shortened(i)' = Shortened(i)
    BY <2>2 DEF HandleInv, Orphaned, Shortened
  <2> QED BY <2>1, <2>2, <2>3 DEF HeldInv
<1>2. CASE call'.op = "none"
  BY <1>2 DEF HeldInv
<1>3. CASE call.op = "none" /\ Kernel
  <2>1. SUFFICES ASSUME pre'.owned PROVE HeldInv'
    BY DEF HeldInv
  <2>2. HandleInv' /\ \A i : Waits(i)' = Waits(i) /\ Held(i)' = Held(i)
    BY <1>0, <1>3, HandleBegun, OwnedBegun, HeldSame
  <2>3. todo' # <<>> /\ Owned
    BY <1>3, <2>1, OwnedBegun
  <2>4. \A i : Waits(i)' => Held(i)'
    BY <2>2, <2>3, OwnedIs
  <2> QED BY <2>2, <2>3, <2>4 DEF HeldInv
<1>4. CASE todo # <<>> /\ Step /\ ~Crash /\ Others /\ call' = call /\ pre' = pre
  <2>1. SUFFICES ASSUME call.op \notin {"none", "unmount", "rename"}, pre.coherent, pre.owned, ~Orphaned
                 PROVE  HeldInv'
    BY <1>4 DEF HeldInv, Orphaned
  <2>2. reply.code = "ok"
    BY <1>4 DEF Called, ReplyInv
  <2>3. Asked /\ (Before \/ Storing \/ Resending \/ Opening)
    BY <1>4, <2>1, <2>2 DEF Called, CallInv, Did
  <2>4. HandleInv /\ \A i : Waits(i) => Held(i) \/ Shortened(i)
    BY <2>1 DEF HeldInv
  <2>5. Underway
    BY <1>4, <2>1, <2>2, <2>3 DEF Underway, Called, Base, StoreInv
  <2>6. Within
    BY <2>1, <2>3, <2>4, <2>5 DEF Within
  <2>7. \A i : Waits(i)' => Held(i)' \/ Shortened(i)'
    BY <2>4, <2>6, HeldStep
  <2>8. call.op = "release" /\ todo' = <<>> /\ reply'.code = "ok" =>
          \A i \in DOMAIN objs' : Waits(i)' => PathOf(i)' # call.path
    BY <2>6, ReleasedClean
  <2>9. HandleInv'
    BY <1>4, <2>4 DEF HandleInv, Others
  <2> QED BY <1>4, <2>7, <2>8, <2>9 DEF HeldInv
<1> QED BY <1>0, <1>1, <1>2, <1>3, <1>4, CallFrame

(* When a call that is not a rename returns, contents that wait still      *)
(* belong to a file that is open.                                          *)
LEMMA OwnedAgain ==
  ASSUME Called, HeldInv, Return, call.op # "rename", pre.coherent, pre.owned, NoFaultNow, ~Orphaned
  PROVE  Owned'
<1>0. /\ objs' = objs /\ localFiles' = localFiles /\ Done /\ call.op \notin {"none", "unmount", "rename"} /\ todo = <<>>
      /\ TypeOK /\ IsStore(objs)
  BY BaseFacts DEF Return, Done, device, Called
<1>1. /\ HandleInv
      /\ \A i : Waits(i) => Held(i)
      /\ call.op = "release" /\ reply.code = "ok" =>
         \A i \in DOMAIN objs : Waits(i) => PathOf(i) # call.path
  BY <1>0 DEF HeldInv, Shortened
<1>2. call.op = "release" => reply.code = "ok"
  <2> SUFFICES ASSUME call.op = "release", reply.code # "ok" PROVE FALSE
    OBVIOUS
  <2>1. faults < pre.faults \/ Excused
    BY <1>0, WhenDone DEF Stopped
  <2>2. ~(faults < pre.faults)
    BY DEF NoFaultNow, Called, FaultsInv
  <2> QED BY <2>1, <2>2 DEF Excused, Orphaned
<1>3. SUFFICES ASSUME NEW i, Waits(i) PROVE i \in DOMAIN objs /\ \E h \in Handles : handles'[h] = PathOf(i)
  BY <1>0, OwnedIs DEF Owned, Waits, PathOf
<1>4. PICK h \in Handles : i \in DOMAIN objs /\ handles[h] = PathOf(i)
  BY <1>1, <1>3 DEF Held
<1>5. PathOf(i) # <<>>
  <2>1. Len(PathOf(i)) > 1
    BY <1>0, <1>4, PathLen DEF PathOf
  <2> QED BY <2>1
<1>6. CASE h # call.h \/ call.op \notin {"release", "open", "create"}
  <2>1. handles'[h] = handles[h]
    BY <1>0, <1>6 DEF Return
  <2> QED BY <1>4, <2>1
<1>7. CASE h = call.h /\ call.op \in {"open", "create"}
  BY <1>1, <1>4, <1>5, <1>7 DEF HandleInv
<1>8. CASE h = call.h /\ call.op = "release"
  BY <1>1, <1>2, <1>3, <1>4, <1>8 DEF HandleInv
<1> QED BY <1>6, <1>7, <1>8

=============================================================================
