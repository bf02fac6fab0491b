------------------------- MODULE JmtpfsErrorProofs --------------------------
(***************************************************************************)
(* Proofs about the errors of calls: with a device that answers and a      *)
(* cache that is right a call fails only for a reason, also an unmount,    *)
(* which has to send every content that waits, and a rename, whose steps   *)
(* must each find what they need although the ones before have moved or    *)
(* removed it.                                                             *)
(***************************************************************************)
EXTENDS JmtpfsCacheProofs

-----------------------------------------------------------------------------
(* An unmount that began with every waiting content belonging to an open   *)
(* file: their objects are there, and the device has room to take them     *)
(* again one by one.                                                       *)
Pending == {i \in DOMAIN localFiles : localFiles[i].dirty}
LeavingInv ==
  call.op = "unmount" /\ pre.coherent /\ pre.owned =>
    \/ reply.code # "ok" /\ faults < pre.faults
    \/ /\ reply.code = "ok" /\ Pending \subseteq DOMAIN objs
       /\ nextId + Cardinality(Pending) + Taken <= MaxId + 1
       /\ At("sendFile") => MayAdd(Arg(4))

LEMMA PendingFinite ==
  ASSUME Base
  PROVE  IsFiniteSet(Pending) /\ Cardinality(Pending) \in Nat /\ nextId \in Nat /\ MaxId \in Nat
<1>1. Pending \subseteq 1 .. MaxId
  <2>1. IsMap(localFiles, ObjIds, Copy)
    BY BaseFacts DEF TypeOK
  <2> QED BY <2>1 DEF Pending, IsMap, ObjIds
<1>2. nextId \in Nat /\ MaxId \in Nat
  BY BaseFacts, DeviceAssumption DEF DeviceTypeOK
<1>3. IsFiniteSet(Pending)
  <2>1. IsFiniteSet(1 .. MaxId)
    BY <1>2, FS_Interval
  <2> QED BY <1>1, <2>1, FS_Subset
<1> QED BY <1>2, <1>3, FS_CardinalityType

LEMMA LeavingBegun ==
  ASSUME Base, ReplyInv, call.op = "none", Kernel
  PROVE  LeavingInv'
<1> SUFFICES ASSUME call'.op = "unmount", pre'.owned PROVE LeavingInv'
  BY DEF LeavingInv
<1>1. PICK c : /\ call' = c /\ todo' = Handler(c) /\ nextId + NewIds(c) <= MaxId + 1
               /\ UNCHANGED <<device, cache, localFiles, reply>>
  <2>1. \E op, path, new, off, byte, h : Begin(op, path, new, off, byte, h)
    BY DEF Kernel
  <2> QED BY <2>1 DEF Begin
<1>2. c.op = "unmount"
  BY <1>1
<1>3. objs' = objs /\ nextId' = nextId /\ localFiles' = localFiles /\ reply'.code = "ok" /\ Pending' = Pending
  BY <1>1 DEF device, ReplyInv, Okay, Pending
<1>4. ~At("sendFile")'
  <2>1. todo' = << <<"unmount">> >>
    BY <1>1, <1>2 DEF Handler
  <2> QED BY <2>1 DEF At
<1>5. Pending \subseteq DOMAIN objs
  <2>1. Owned
    BY OwnedBegun
  <2> QED BY <2>1 DEF Owned, Pending
<1>6. nextId' + Cardinality(Pending') + Taken' <= MaxId + 1
  <2>1. NewIds(c) = Cardinality(Pending)
    BY <1>2 DEF NewIds, Pending
  <2>2. Taken' = 0
    BY <1>4 DEF Taken
  <2>3. PICK P : P = Cardinality(Pending)
    OBVIOUS
  <2>4. Cardinality(Pending') = P /\ P \in Nat /\ nextId \in Nat /\ nextId' = nextId /\ nextId + P <= MaxId + 1
    BY <1>1, <1>3, <2>1, <2>3, PendingFinite
  <2> QED BY <2>2, <2>4
<1> QED BY <1>3, <1>4, <1>5, <1>6 DEF LeavingInv

LEMMA LeavingStep ==
  ASSUME Base, NoTwins(objs), FaultsInv, ReplyInv, UnmountInv, LeavingInv, Step, ~Crash,
         call.op = "unmount", pre.coherent, pre.owned
  PROVE  LeavingInv'
<1>0. /\ todo # <<>> /\ call' = call /\ pre' = pre /\ reply.code = "ok" /\ faults \in Nat /\ pre.faults \in Nat
      /\ faults <= pre.faults /\ TypeOK
  BY StepFrame, BaseFacts DEF ReplyInv, FaultsInv
<1>1. /\ Pending \subseteq DOMAIN objs
      /\ nextId + Cardinality(Pending) + Taken <= MaxId + 1
      /\ At("sendFile") => MayAdd(Arg(4))
      /\ \A i \in DOMAIN localFiles : ~localFiles[i].broken
  BY <1>0 DEF LeavingInv, UnmountInv
<1>2. PICK P \in Nat, N \in Nat, M \in Nat, y \in {0, 1} : P = Cardinality(Pending) /\ N = nextId /\ M = MaxId /\ y = Taken
  BY PendingFinite DEF Taken
<1>3. N + P + y <= M + 1 /\ (At("sendFile") <=> y = 1)
  BY <1>1, <1>2 DEF Taken
<1>4. CASE faults' # faults
  <2>1. faults > 0 /\ faults' = faults - 1 /\ reply'.code = "EIO"
    BY <1>4, FaultsShow
  <2>2. faults' < pre.faults
    BY <1>0, <2>1
  <2> QED BY <1>0, <2>1, <2>2 DEF LeavingInv
<1>5. ASSUME faults' = faults PROVE faults' # faults - 1
  BY <1>0, <1>5
<1>6. ASSUME objs' = objs, nextId' = nextId, reply' = reply, ~At("sendFile"), ~At("sendFile")', Pending' = Pending
      PROVE  LeavingInv'
  <2>1. Taken' = 0 /\ Taken = 0
    BY <1>6 DEF Taken
  <2>2. nextId' + Cardinality(Pending') + Taken' <= MaxId + 1
    BY <1>1, <1>6, <2>1
  <2> QED BY <1>0, <1>1, <1>6, <2>2 DEF LeavingInv
<1>7. CASE todo = << <<"unmount">> >>
  <2>1. At("unmount") /\ Tail(todo) = <<>> /\ ~At("sendFile")
    BY <1>7 DEF At
  <2>2. Unmount
    BY <2>1, WhichStep
  <2>3. objs' = objs /\ nextId' = nextId /\ reply' = reply /\ localFiles' = localFiles /\ Pending' = Pending
    BY <2>2 DEF Unmount, NoDeviceChange, Goto, device, Pending
  <2>4. CASE Goto(<<>>, cache, localFiles)
    <3>1. todo' = <<>>
      BY <2>1, <2>4 DEF Goto
    <3> QED BY <1>6, <2>1, <2>3, <3>1 DEF At
  <2>5. ASSUME NEW n, Goto(Closing(n), cache, localFiles) PROVE LeavingInv'
    <3>1. PICK s : s = <<"closeFile", n, {}>>
      OBVIOUS
    <3>2. todo' = << s, <<"unmount">> >> \o <<>>
      BY <2>1, <2>5, <3>1 DEF Goto, Closing
    <3>3. todo' = << s, <<"unmount">> >>
      BY <3>2, ShortConcat
    <3>4. Head(todo') = s
      BY <3>3
    <3> QED BY <1>6, <2>1, <2>3, <3>1, <3>4 DEF At
  <2> QED BY <2>2, <2>4, <2>5 DEF Unmount, Closing
<1>8. ASSUME faults' = faults, NEW n \in DOMAIN localFiles, todo = Closing(n) PROVE LeavingInv'
  <2>1. /\ At("closeFile") /\ Tail(todo) = << <<"unmount">> >> /\ ~At("sendFile")
        /\ Arg(2) = n /\ Arg(3) = {}
    BY <1>8 DEF At, Arg, Closing
  <2>2. CASE CloseFile
    <3>1. ~localFiles[n].dirty /\ UNCHANGED device /\ localFiles' = Drop(localFiles, {n})
          /\ reply' = reply /\ todo' = <<>> \o Tail(todo)
      BY <2>1, <2>2 DEF CloseFile, NoDeviceChange, Goto
    <3>2. todo' = << <<"unmount">> >>
      BY <2>1, <3>1
    <3>3. Pending' = Pending
      BY <3>1 DEF Drop, Pending
    <3>4. ~At("sendFile")'
      BY <3>2 DEF At
    <3> QED BY <1>6, <2>1, <3>1, <3>3, <3>4 DEF device
  <2>3. CASE DeleteOld
    <3>1. localFiles[n].dirty /\ n \in Pending /\ n \in DOMAIN objs
      BY <1>1, <2>1, <2>3 DEF DeleteOld, Pending
    <3>2. PICK x, files, s : /\ x = [objs[n] EXCEPT !.data = localFiles[n].data]
                             /\ files = [localFiles EXCEPT ![n].dirty = FALSE] /\ s = <<"sendFile", n, {}, x>>
      OBVIOUS
    <3>3. objs' = WithoutObject(n) /\ nextId' = nextId /\ Goto(<<s>>, cache, files)
      BY <1>5, <1>8, <2>1, <2>3, <3>1, <3>2 DEF DeleteOld, DeviceCall, device
    <3>4. objs[n].file = TRUE /\ IsStore(objs) /\ localFiles[n] \in Copy
      BY <3>1, CopiedIsFile, BaseFacts
    <3>5. Removes(n) /\ DOMAIN objs' = DOMAIN objs \ {n}
      BY <3>1, <3>3, <3>4, NothingInAFile DEF Removes, WithoutObject, Drop
    <3>6. Pending' = Pending \ {n}
      <4>1. DOMAIN files = DOMAIN localFiles /\ files[n].dirty = FALSE /\ \A i \in DOMAIN localFiles \ {n} : files[i] = localFiles[i]
        BY <3>2, <3>4 DEF Copy
      <4>2. localFiles' = files
        BY <3>3 DEF Goto
      <4> QED BY <4>1, <4>2 DEF Pending
    <3>7. Cardinality(Pending') = P - 1 /\ P > 0
      <4>1. PICK Q : Q = Pending
        OBVIOUS
      <4>2. IsFiniteSet(Q) /\ n \in Q
        BY <3>1, <4>1, PendingFinite
      <4>3. Cardinality(Q \ {n}) = Cardinality(Q) - 1 /\ IsFiniteSet(Q \ {n})
        BY <4>2, FS_RemoveElement
      <4>4. Cardinality(Q \ {n}) \in Nat
        BY <4>3, FS_CardinalityType
      <4> QED BY <1>2, <3>6, <4>1, <4>3, <4>4
    <3>8. nextId \in ObjIds
      <4>1. y = 0
        BY <1>3, <2>1
      <4>2. N <= M /\ N # 0
        <5>1. N # 0
          BY <1>0, <1>2 DEF TypeOK, DeviceTypeOK
        <5> QED BY <1>3, <3>7, <4>1, <5>1
      <4> QED BY <1>2, <4>2 DEF ObjIds
    <3>9. MayAdd(x)'
      BY <1>1, <3>1, <3>2, <3>5, <3>8, SentAgain
    <3>10. todo' = << s, <<"unmount">> >> /\ reply' = reply
      <4>1. todo' = <<s>> \o << <<"unmount">> >> /\ reply' = reply
        BY <2>1, <3>3 DEF Goto
      <4> QED BY <4>1, ShortConcat
    <3>11. At("sendFile")' /\ Arg(4)' = x
      <4>1. Head(todo') = s /\ todo' # <<>> /\ s[1] = "sendFile" /\ s[4] = x
        BY <3>2, <3>10
      <4> QED BY <4>1 DEF At, Arg
    <3>12. MayAdd(Arg(4))'
      BY <3>9, <3>11 DEF MayAdd, Inside
    <3>13. nextId' + Cardinality(Pending') + Taken' <= MaxId + 1
      <4>1. Taken' = 1 /\ y = 0 /\ nextId' = N
        BY <1>2, <1>3, <2>1, <3>3, <3>11 DEF Taken
      <4>2. N + (P - 1) + 1 <= M + 1
        BY <1>3, <3>7, <4>1
      <4> QED BY <1>2, <3>7, <4>1, <4>2
    <3>14. Pending' \subseteq DOMAIN objs'
      BY <1>1, <3>5, <3>6
    <3> QED BY <1>0, <3>10, <3>12, <3>13, <3>14 DEF LeavingInv
  <2> QED BY <2>1, <2>2, <2>3, WhichStep
<1>9. ASSUME faults' = faults, NEW n \in DOMAIN localFiles, NEW x, n \notin DOMAIN objs, todo = Sending(n, x)
      PROVE  LeavingInv'
  <2>1. /\ At("sendFile") /\ Tail(todo) = << <<"unmount">> >>
        /\ Arg(2) = n /\ Arg(3) = {} /\ Arg(4) = x
    BY <1>9 DEF At, Arg, Sending
  <2>2. SendFile
    BY <2>1, WhichStep
  <2>3. MayAdd(x)
    BY <1>1, <2>1
  <2>4. /\ objs' = WithObject(x) /\ nextId' = nextId + 1
        /\ todo' = Renumber(Tail(todo), n, nextId) /\ localFiles' = Drop(localFiles, {n}) /\ reply' = reply
    BY <1>5, <1>9, <2>1, <2>2, <2>3 DEF SendFile, DeviceCall
  <2>5. Pending' = Pending
    <3>1. n \notin Pending
      BY <1>1, <1>9
    <3>2. DOMAIN localFiles' = DOMAIN localFiles \ {n} /\ \A i \in DOMAIN localFiles' : localFiles'[i] = localFiles[i]
      BY <2>4 DEF Drop
    <3> QED BY <3>1, <3>2 DEF Pending
  <2>6. DOMAIN objs \subseteq DOMAIN objs'
    BY <2>4, BaseFacts DEF WithObject, Put
  <2>7. ~At("sendFile")'
    <3>1. DOMAIN << <<"unmount">> >> = {1} /\ << <<"unmount">> >>[1][1] # "copyTo"
      OBVIOUS
    <3>2. todo' = [k \in {1} |-> << <<"unmount">> >>[k]]
      BY <2>1, <2>4, <3>1 DEF Renumber
    <3>3. [k \in {1} |-> << <<"unmount">> >>[k]] = << <<"unmount">> >>
      BY <3>1
    <3>4. todo' = << <<"unmount">> >>
      BY <3>2, <3>3
    <3> QED BY <3>4 DEF At
  <2>8. nextId' + Cardinality(Pending') + Taken' <= MaxId + 1
    <3>1. Taken' = 0 /\ y = 1 /\ nextId' = N + 1 /\ Cardinality(Pending') = P
      BY <1>2, <1>3, <2>1, <2>4, <2>5, <2>7 DEF Taken
    <3>2. N + 1 + P + 0 <= M + 1
      BY <1>3, <3>1
    <3> QED BY <1>2, <3>1, <3>2
  <2> QED BY <1>0, <1>1, <2>4, <2>5, <2>6, <2>7, <2>8 DEF LeavingInv
<1> QED BY <1>0, <1>4, <1>7, <1>8, <1>9 DEF UnmountInv
LEMMA NextLeaving ==
  ASSUME Called, LeavingInv, ~AcceptsDuplicates, [Next]_vars
  PROVE  LeavingInv'
<1>0. Base /\ ReplyInv /\ FaultsInv /\ UnmountInv /\ NoTwins(objs)
  BY DEF Called, Base, StoreInv
<1>1. CASE UNCHANGED vars
  <2>1. /\ objs' = objs /\ nextId' = nextId /\ localFiles' = localFiles /\ todo' = todo
        /\ reply' = reply /\ call' = call /\ pre' = pre /\ faults' = faults
    BY <1>1 DEF vars, device, process
  <2>2. (\A a : At(a)' = At(a)) /\ Arg(4)' = Arg(4) /\ Pending' = Pending
    BY <2>1 DEF At, Arg, Pending
  <2>3. Taken' = Taken /\ (\A x : MayAdd(x)' = MayAdd(x))
    BY <2>1, <2>2 DEF Taken, MayAdd, Inside
  <2>4. MayAdd(Arg(4))' = MayAdd(Arg(4))
    BY <2>1, <2>2, <2>3 DEF MayAdd, Inside
  <2> QED BY <2>1, <2>2, <2>3, <2>4 DEF LeavingInv
<1>2. CASE call'.op = "none"
  BY <1>2 DEF LeavingInv
<1>3. CASE call.op = "none" /\ Kernel
  BY <1>0, <1>3, LeavingBegun
<1>4. CASE Step /\ ~Crash /\ call' = call /\ pre' = pre
  BY <1>0, <1>4, LeavingStep DEF LeavingInv
<1> QED BY <1>0, <1>1, <1>2, <1>3, <1>4, CallFrame

LEMMA LeavingDone ==
  ASSUME Called, LeavingInv, call.op = "unmount"
  PROVE  NoSpuriousError
<1> SUFFICES ASSUME Failed, pre.coherent, NoFaultYet, pre.owned PROVE FALSE
  BY DEF NoSpuriousError, Excused
<1>1. faults \in Nat /\ pre.faults \in Nat /\ faults <= pre.faults /\ pre.faults <= MaxFaults /\ faults = MaxFaults
  BY DEF Called, FaultsInv, Failed, Done, NoFaultYet
<1>2. ~(faults < pre.faults)
  BY <1>1, JmtpfsAssumption
<1> QED BY <1>2 DEF LeavingInv, Failed
LEMMA AlwaysLeaving == ASSUME ~AcceptsDuplicates PROVE Spec => [](Called /\ LeavingInv)
<1>1. Init => Called /\ LeavingInv
  <2>1. Init => call.op = "none"
    BY DEF Init, NoCall
  <2> QED BY <2>1, InitCalled DEF LeavingInv
<1>2. Called /\ LeavingInv /\ [Next]_vars => (Called /\ LeavingInv)'
  BY NextCalled, NextLeaving
<1> QED BY <1>1, <1>2, PTL DEF Spec

-----------------------------------------------------------------------------
(* The order of the steps of a rename.  Which of the nodes below the source *)
(* a step takes away, with what it leads to; and what must be left of them *)
(* when its turn comes.                                                    *)
Srcs      == {i \in DOMAIN objs : Src(i)}
Makes(s)  == s[1] \in {"rename", "mkdir", "copyTo"}
Spot(s) == IF s[1] = "mkdir" THEN Append(NodePath(s[2]), s[3]) ELSE Append(NodePath(s[3]), s[4])
Inner(n, c)       == c # n /\ IsPrefix(PathOf(n), PathOf(c))
Under(n, name, c) == IsPrefix(Append(PathOf(n), name), PathOf(c))
Takes(s, c) ==
  CASE s[1] \in {"rename", "copyTo"} -> IsPrefix(Spot(s), Image(PathOf(c)))
    [] s[1] = "getNode" -> \/ s[4][1] = "child" /\ Under(s[2], s[3][1], c)
                           \/ s[4][1] = "destDir" /\ Inner(s[4][2], c)
    [] s[1] = "moveContents" -> Inner(s[2], c)
    [] s[1] = "moveRest" -> \E e \in s[4] : Under(s[2], e.name, c)
    [] s[1] \in {"remove", "dropOriginal"} -> c = s[2]
    [] OTHER -> FALSE
Has(P, n, name) == \E c \in P : PathOf(c) = Append(PathOf(n), name)
Wants(s, P) ==
  CASE s[1] = "getNode" -> /\ s[4][1] = "child" => s[2] \in P /\ Has(P, s[2], s[3][1])
                           /\ s[4][1] = "destDir" => s[4][2] \in P
    [] s[1] = "moveContents" -> s[2] \in P
    [] s[1] = "moveRest" -> /\ s[2] \in P /\ \A e \in s[4] : Has(P, s[2], e.name)
                            /\ \A e, f \in s[4] : e.name = f.name => e = f
    [] s[1] = "remove" -> s[2] \in P /\ \A c \in P : ~Inner(s[2], c)
    [] OTHER -> TRUE
Left(P, s)      == {c \in P : ~Takes(s, c)}
LeftAt(P, t, k) == {c \in P : \A j \in 1 .. k - 1 : ~Takes(t[j], c)}
Orderly(P, t)   == \A k \in DOMAIN t : Wants(t[k], LeftAt(P, t, k))

LEMMA OrderCons ==
  ASSUME NEW U, NEW t \in Seq(U), NEW a, NEW P
  PROVE  Orderly(P, Cons(a, t)) <=> Wants(a, P) /\ Orderly(Left(P, a), t)
<1>1. PICK w : w = Cons(a, t)
  OBVIOUS
<1>2. /\ DOMAIN w = 1 .. 1 + Len(t) /\ w[1] = a /\ Len(t) \in Nat /\ DOMAIN t = 1 .. Len(t)
      /\ \A i \in 2 .. 1 + Len(t) : i - 1 \in 1 .. Len(t) /\ w[i] = t[i - 1]
  BY <1>1, ConsElements, LenProperties
<1>3. PICK l \in Nat : l = Len(t)
  BY <1>2
<1>4. \A i \in 1 .. l : i + 1 \in 1 .. 1 + l /\ w[i + 1] = t[i]
  <2> TAKE i \in 1 .. l
  <2>1. i + 1 \in 2 .. 1 + l /\ i + 1 \in 1 .. 1 + l /\ i + 1 - 1 = i
    OBVIOUS
  <2> QED BY <1>2, <1>3, <2>1
<1>5. LeftAt(P, w, 1) = P
  <2>1. \A j : ~(j \in 1 .. 1 - 1)
    OBVIOUS
  <2> QED BY <2>1 DEF LeftAt
<1>6. ASSUME NEW i \in 1 .. l PROVE LeftAt(P, w, i + 1) = LeftAt(Left(P, a), t, i)
  <2>1. ASSUME NEW c, \A j \in 1 .. i + 1 - 1 : ~Takes(w[j], c) PROVE ~Takes(a, c) /\ \A j \in 1 .. i - 1 : ~Takes(t[j], c)
    <3>1. 1 \in 1 .. i + 1 - 1
      OBVIOUS
    <3>2. ASSUME NEW j \in 1 .. i - 1 PROVE ~Takes(t[j], c)
      <4>1. j + 1 \in 1 .. i + 1 - 1 /\ j \in 1 .. l
        OBVIOUS
      <4>2. ~Takes(w[j + 1], c)
        BY <2>1, <4>1
      <4> QED BY <1>4, <4>1, <4>2
    <3> QED BY <1>2, <2>1, <3>1, <3>2
  <2>2. ASSUME NEW c, ~Takes(a, c), \A j \in 1 .. i - 1 : ~Takes(t[j], c), NEW j \in 1 .. i + 1 - 1 PROVE ~Takes(w[j], c)
    <3>1. CASE j = 1
      BY <1>2, <2>2, <3>1
    <3>2. CASE j # 1
      <4>1. j \in 2 .. 1 + l /\ j - 1 \in 1 .. i - 1
        BY <3>2
      <4>2. w[j] = t[j - 1]
        BY <1>2, <1>3, <4>1
      <4> QED BY <2>2, <4>1, <4>2
    <3> QED BY <3>1, <3>2
  <2>3. ASSUME NEW c PROVE c \in LeftAt(P, w, i + 1) <=> c \in LeftAt(Left(P, a), t, i)
    <3>1. c \in LeftAt(P, w, i + 1) <=> c \in P /\ \A j \in 1 .. i + 1 - 1 : ~Takes(w[j], c)
      BY DEF LeftAt
    <3>2. c \in LeftAt(Left(P, a), t, i) <=> c \in P /\ ~Takes(a, c) /\ \A j \in 1 .. i - 1 : ~Takes(t[j], c)
      BY DEF LeftAt, Left
    <3>3. (\A j \in 1 .. i + 1 - 1 : ~Takes(w[j], c)) => ~Takes(a, c) /\ \A j \in 1 .. i - 1 : ~Takes(t[j], c)
      BY <2>1
    <3>4. ~Takes(a, c) /\ (\A j \in 1 .. i - 1 : ~Takes(t[j], c)) => \A j \in 1 .. i + 1 - 1 : ~Takes(w[j], c)
      BY <2>2
    <3> QED BY <3>1, <3>2, <3>3, <3>4
  <2> QED BY <2>3 DEF LeftAt
<1>7. ASSUME Orderly(P, w) PROVE Wants(a, P) /\ Orderly(Left(P, a), t)
  <2>1. Wants(a, P)
    <3>1. 1 \in DOMAIN w
      BY <1>2, <1>3
    <3> QED BY <1>2, <1>5, <1>7, <3>1 DEF Orderly
  <2>2. ASSUME NEW i \in DOMAIN t PROVE Wants(t[i], LeftAt(Left(P, a), t, i))
    <3>1. i \in 1 .. l
      BY <1>2, <1>3
    <3>2. i + 1 \in DOMAIN w /\ w[i + 1] = t[i]
      BY <1>2, <1>3, <1>4, <3>1
    <3>3. Wants(w[i + 1], LeftAt(P, w, i + 1))
      BY <1>7, <3>2 DEF Orderly
    <3> QED BY <1>6, <3>1, <3>2, <3>3
  <2> QED BY <2>1, <2>2 DEF Orderly
<1>8. ASSUME Wants(a, P), Orderly(Left(P, a), t), NEW k \in DOMAIN w PROVE Wants(w[k], LeftAt(P, w, k))
  <2>1. k \in 1 .. 1 + l
    BY <1>2, <1>3
  <2>2. CASE k = 1
    BY <1>2, <1>5, <1>8, <2>2
  <2>3. CASE k # 1
    <3>1. PICK i : i = k - 1
      OBVIOUS
    <3>2. i \in 1 .. l /\ k = i + 1 /\ i \in DOMAIN t
      BY <1>2, <1>3, <2>1, <2>3, <3>1
    <3>3. Wants(t[i], LeftAt(Left(P, a), t, i))
      BY <1>8, <3>2 DEF Orderly
    <3>4. w[k] = t[i] /\ LeftAt(P, w, k) = LeftAt(Left(P, a), t, i)
      BY <1>4, <1>6, <3>2
    <3> QED BY <3>3, <3>4
  <2> QED BY <2>2, <2>3
<1> QED BY <1>1, <1>7, <1>8 DEF Orderly

LEMMA OrderNothing == \A P : Orderly(P, <<>>)
BY DEF Orderly

LEMMA OrderOne == ASSUME NEW s, NEW P, Wants(s, P) PROVE Orderly(P, <<s>>)
<1>1. <<>> \in Seq({}) /\ Cons(s, <<>>) = <<s>>
  BY DEF Cons
<1> QED BY <1>1, OrderCons, OrderNothing

(* What a step wants and takes is said by paths that stay.                 *)
LEMMA StepStands ==
  ASSUME NEW P, NEW Q, Q \subseteq P, NEW s, call' = call, \A c \in P : PathOf(c)' = PathOf(c),
         Makes(s) => Spot(s)' = Spot(s), Wants(s, Q)
  PROVE  Wants(s, Q)' /\ \A c \in P : Takes(s, c)' <=> Takes(s, c)
<1>1. \A c \in P : Image(PathOf(c))' = Image(PathOf(c))
  BY DEF Image
<1>2. CASE s[1] \in {"rename", "copyTo"}
  BY <1>1, <1>2 DEF Makes, Wants, Takes
<1>3. CASE s[1] = "getNode"
  <2>1. s[4][1] = "child" => s[2] \in P
    BY <1>3 DEF Wants
  <2>2. s[4][1] = "destDir" => s[4][2] \in P
    BY <1>3 DEF Wants
  <2> QED BY <1>3, <2>1, <2>2 DEF Wants, Takes, Under, Inner, Has
<1>4. CASE s[1] = "moveContents"
  <2>1. s[2] \in P
    BY <1>4 DEF Wants
  <2> QED BY <1>4, <2>1 DEF Wants, Takes, Inner
<1>5. CASE s[1] = "moveRest"
  <2>1. s[2] \in P
    BY <1>5 DEF Wants
  <2> QED BY <1>5, <2>1 DEF Wants, Takes, Under, Has
<1>6. CASE s[1] \in {"remove", "dropOriginal"}
  <2>1. s[1] = "remove" => s[2] \in P
    BY <1>6 DEF Wants
  <2> QED BY <1>6, <2>1 DEF Wants, Takes, Inner
<1>7. CASE s[1] \notin {"rename", "copyTo", "getNode", "moveContents", "moveRest", "remove", "dropOriginal"}
  BY <1>7 DEF Wants, Takes
<1> QED BY <1>2, <1>3, <1>4, <1>5, <1>6, <1>7

LEMMA OrderlyOn ==
  ASSUME NEW P, NEW t, call' = call, \A c \in P : PathOf(c)' = PathOf(c),
         \A s \in Range(t) : Makes(s) => Spot(s)' = Spot(s), Orderly(P, t), NEW U, t \in Seq(U)
  PROVE  Orderly(P, t)'
<1>0. DOMAIN t = 1 .. Len(t) /\ Len(t) \in Nat
  BY LenProperties
<1>1. ASSUME NEW k \in DOMAIN t
      PROVE  /\ \A Q : Q \subseteq P /\ Q = LeftAt(P, t, k) => Wants(t[k], Q)'
             /\ \A c \in P : Takes(t[k], c)' <=> Takes(t[k], c)
  <2>1. PICK s, Q : s = t[k] /\ Q = LeftAt(P, t, k)
    OBVIOUS
  <2>2. Q \subseteq P /\ Wants(s, Q) /\ s \in Range(t)
    BY <2>1 DEF Orderly, LeftAt, Range
  <2>3. Wants(s, Q)' /\ \A c \in P : Takes(s, c)' <=> Takes(s, c)
    BY <2>2, StepStands
  <2> QED BY <2>1, <2>3
<1>2. ASSUME NEW k \in DOMAIN t PROVE Wants(t[k], LeftAt(P, t, k))'
  <2>1. PICK Q : Q = LeftAt(P, t, k)
    OBVIOUS
  <2>2. \A j \in 1 .. k - 1 : j \in DOMAIN t
    BY <1>0
  <2>3. LeftAt(P, t, k)' = Q
    BY <1>1, <2>1, <2>2 DEF LeftAt
  <2>4. Q \subseteq P
    BY <2>1 DEF LeftAt
  <2> QED BY <1>1, <2>1, <2>3, <2>4
<1> QED BY <1>2 DEF Orderly

-----------------------------------------------------------------------------
(* The rename is in order: each step will find what it wants; a node whose *)
(* image is there is itself about to go; and the next image is made where  *)
(* nothing is.                                                             *)
Occupied(p)   == \E i \in DOMAIN objs : PathOf(i) = p
Leaving(c, t) == \E s \in Range(t) : s[1] \in {"remove", "dropOriginal"} /\ s[2] = c
Tidy == /\ At("rename") => Arg(2).id \notin Storages
        /\ Orderly(Srcs, todo)
        /\ \A c \in Srcs : Occupied(Image(PathOf(c))) => Leaving(c, todo)
        /\ \A s \in Range(todo) : Makes(s) => ~Occupied(Spot(s))
        /\ Roomy /\ (At("sendFile") => MayAdd(Arg(4)))

(* A step of a rename to where nothing was, with a device that answers.    *)
Trying == /\ Going /\ faults' = faults /\ Len(call.path) > 1 /\ Tidy /\ (Looking \/ Moving)
          /\ \A v \in pre.view : v.path # call.new

LEMMA TryingFacts ==
  ASSUME Trying
  PROVE  /\ Going /\ Base /\ Base' /\ NoTwins(objs) /\ Apart /\ Past /\ TypeOK /\ IsStore(objs) /\ todo # <<>>
         /\ call' = call /\ pre' = pre /\ faults' # faults - 1 /\ Len(call.path) > 1 /\ Tidy /\ Orderly(Srcs, todo)
         /\ Past' /\ Roomy /\ \A i : Waits(i)' => Waits(i)
<1>1. Going /\ Tidy
  BY DEF Trying
<1>2. faults \in Nat
  BY <1>1, GoingFacts DEF TypeOK
<1>3. faults' # faults - 1
  BY <1>2 DEF Trying
<1>4. ~At("write") /\ ~At("truncate")
  BY <1>1, RenameHeads DEF Trying
<1>5. \A i : Waits(i)' => Waits(i)
  <2>1. ~Write /\ ~Truncate
    BY <1>4 DEF Write, Truncate
  <2> QED BY <1>1, <2>1, GoingFacts, WaitsBefore DEF Going
<1> QED BY <1>1, <1>3, <1>5, GoingFacts DEF Trying, Tidy

LEMMA SrcsOn ==
  ASSUME NEW G, Keeps(G), NEW k, k = nextId, k \in DOMAIN objs' => ~IsPrefix(call.path, PathOf(k)')
  PROVE  Srcs' = Srcs \ G /\ \A c \in Srcs \ G : PathOf(c)' = PathOf(c)
<1>1. ASSUME NEW c \in Srcs, c \notin G PROVE c \in DOMAIN objs' /\ PathOf(c)' = PathOf(c)
  BY <1>1 DEF Keeps, Srcs
<1>2. ASSUME NEW c \in Srcs, c \notin G PROVE Src(c)' /\ c \in DOMAIN objs'
  BY <1>1, <1>2 DEF Src, Srcs, Keeps
<1>3. ASSUME NEW c, c \in DOMAIN objs', Src(c)' PROVE c \in Srcs /\ c \notin G
  <2>1. c # k /\ c \in DOMAIN objs /\ c \notin G
    BY <1>3 DEF Src, Keeps
  <2>2. PathOf(c)' = PathOf(c)
    BY <2>1 DEF Keeps
  <2> QED BY <1>3, <2>1, <2>2 DEF Src, Srcs, Keeps
<1> QED BY <1>1, <1>2, <1>3 DEF Srcs

LEMMA OccupiedOn ==
  ASSUME NEW G, Keeps(G), NEW p, Occupied(p)', NEW k, k = nextId
  PROVE  Occupied(p) \/ (k \in DOMAIN objs' /\ PathOf(k)' = p)
<1>1. PICK i \in DOMAIN objs' : PathOf(i)' = p
  BY DEF Occupied
<1>2. i \in DOMAIN objs \cup {k} /\ i \notin G
  BY <1>1 DEF Keeps
<1>3. i # k => i \in DOMAIN objs \ G /\ PathOf(i)' = PathOf(i)
  BY <1>2 DEF Keeps
<1> QED BY <1>1, <1>2, <1>3 DEF Occupied

LEMMA NodeOn ==
  ASSUME NEW G, Keeps(G), NEW d, Live(d), d \notin G
  PROVE  NodePath(d)' = NodePath(d)
BY DEF Keeps, Live, NodePath

(* A node below another, and the nodes there are below it.                 *)
LEMMA TidyOn ==
  ASSUME Going, NEW G, Keeps(G), NEW k, k = nextId, k \in DOMAIN objs' => ~IsPrefix(call.path, PathOf(k)'),
         NEW U, NEW w \in Seq(U), todo' = w, Orderly(Srcs \ G, w),
         \A s \in Range(w) : Makes(s) => Spot(s)' = Spot(s) /\ ~Occupied(Spot(s))',
         \A c \in Srcs \ G : Occupied(Image(PathOf(c))) \/ (k \in DOMAIN objs' /\ PathOf(k)' = Image(PathOf(c))) => Leaving(c, w),
         At("rename")' => Arg(2)'.id \notin Storages, Roomy', At("sendFile")' => MayAdd(Arg(4))'
  PROVE  Tidy'
<1>0. call' = call
  BY GoingFacts
<1>1. PICK P : P = Srcs \ G
  OBVIOUS
<1>2. Srcs' = P /\ \A c \in P : PathOf(c)' = PathOf(c)
  BY <1>1, SrcsOn
<1>3. Orderly(P, w)'
  BY <1>0, <1>1, <1>2, OrderlyOn
<1>4. Orderly(Srcs, todo)'
  BY <1>2, <1>3 DEF Orderly, LeftAt
<1>5. ASSUME NEW c \in P, Occupied(Image(PathOf(c)))' PROVE Leaving(c, w)
  <2>1. PICK p : p = Image(PathOf(c))
    OBVIOUS
  <2>2. Image(PathOf(c))' = p
    BY <1>0, <1>2, <2>1 DEF Image
  <2>3. Occupied(p)'
    BY <1>5, <2>2 DEF Occupied
  <2>4. Occupied(p) \/ (k \in DOMAIN objs' /\ PathOf(k)' = p)
    BY <2>3, OccupiedOn
  <2> QED BY <1>1, <2>1, <2>4
<1> QED BY <1>2, <1>4, <1>5 DEF Tidy, Leaving

-----------------------------------------------------------------------------
(* Paths below one another.                                                *)
LEMMA NextElement ==
  ASSUME NEW U, NEW s \in Seq(U), NEW u \in Seq(U), IsPrefix(s, u), s # u
  PROVE  \E e \in U : IsPrefix(Append(s, e), u) /\ Append(s, e) \in Seq(U)
<1>1. PICK m \in Nat, l \in Nat : m = Len(s) /\ l = Len(u)
  BY LenProperties
<1>2. m <= l /\ (\A k \in 1 .. m : s[k] = u[k]) /\ DOMAIN s = 1 .. m /\ DOMAIN u = 1 .. l
  BY <1>1, PrefixPointwise, LenProperties
<1>3. m < l
  <2>1. SUFFICES ASSUME m = l PROVE FALSE
    BY <1>1, <1>2
  <2>2. s = u
    BY <1>1, <1>2, <2>1, SeqEqual
  <2> QED BY <2>2
<1>4. PICK e : e = u[m + 1]
  OBVIOUS
<1>5. e \in U
  <2>1. m + 1 \in 1 .. l
    BY <1>3
  <2> QED BY <1>1, <1>4, <2>1, ElementOfSeq
<1>6. PICK t : t = Append(s, e)
  OBVIOUS
<1>7. t \in Seq(U) /\ Len(t) = m + 1 /\ (\A k \in 1 .. m : t[k] = s[k]) /\ t[m + 1] = e
  BY <1>1, <1>5, <1>6, AppendProperties
<1>8. \A k \in 1 .. m + 1 : t[k] = u[k]
  <2> TAKE k \in 1 .. m + 1
  <2>1. k \in 1 .. m \/ k = m + 1
    OBVIOUS
  <2> QED BY <1>2, <1>4, <1>7, <2>1
<1>9. IsPrefix(t, u)
  BY <1>1, <1>3, <1>7, <1>8, PrefixPointwise
<1> QED BY <1>5, <1>6, <1>7, <1>9

LEMMA PathNode ==
  ASSUME Base, NEW n \in DOMAIN objs
  PROVE  /\ PathOf(n) \in Seq(PathElem) /\ NodePath(n) = PathOf(n) /\ IsPrefix(PathOf(n), PathOf(n))
         /\ \A i \in DOMAIN objs : ParentNode(i) = n => PathOf(i) = Append(PathOf(n), objs[i].name) /\ i # n
<1>1. Live(n)
  BY DEF Live
<1>2. NodePath(n) \in Seq(PathElem) /\ NodePath(n) = PathOf(n)
  BY <1>1, NodePathType
<1>3. ASSUME NEW i \in DOMAIN objs, ParentNode(i) = n PROVE PathOf(i) = Append(PathOf(n), objs[i].name) /\ i # n
  <2>1. Live(i)
    BY DEF Live
  <2>2. NodePath(i) = PathOf(i) /\ NodePath(i) = Append(NodePath(n), objs[i].name) /\ objs[i].name \in PathElem
    BY <1>3, <2>1, NodePathType, ChildPath
  <2>3. PICK s, e : s = PathOf(n) /\ e = objs[i].name
    OBVIOUS
  <2>4. s \in Seq(PathElem) /\ e \in PathElem
    BY <1>2, <2>2, <2>3
  <2>5. Append(s, e) # s
    <3>1. Len(Append(s, e)) = Len(s) + 1 /\ Len(s) \in Nat
      BY <2>4, AppendProperties, LenProperties
    <3> QED BY <3>1
  <2> QED BY <1>2, <2>2, <2>3, <2>5
<1> QED BY <1>2, <1>3, PrefixSelf

(* A node below n is, or is below, one of those in n.                      *)
LEMMA InnerDown ==
  ASSUME Base, NoTwins(objs), NEW n \in DOMAIN objs, NEW c \in DOMAIN objs
  PROVE  /\ Inner(n, c) => \E i \in DOMAIN objs : ParentNode(i) = n /\ IsPrefix(PathOf(i), PathOf(c))
         /\ \A i \in DOMAIN objs : ParentNode(i) = n /\ IsPrefix(PathOf(i), PathOf(c)) => Inner(n, c)
<1>1. IsStore(objs)
  BY BaseFacts
<1>2. PICK s, u : s = PathOf(n) /\ u = PathOf(c)
  OBVIOUS
<1>3. s \in Seq(PathElem) /\ u \in Seq(PathElem) /\ NodePath(n) = s /\ Len(s) > 1 /\ Len(s) \in Nat
  BY <1>1, <1>2, PathNode, PathLen DEF PathOf
<1>4. ASSUME Inner(n, c) PROVE \E i \in DOMAIN objs : ParentNode(i) = n /\ IsPrefix(PathOf(i), PathOf(c))
  <2>1. s # u
    BY <1>1, <1>2, <1>4, PathsUnique DEF Inner, PathOf
  <2>2. PICK e \in PathElem : IsPrefix(Append(s, e), u) /\ Append(s, e) \in Seq(PathElem)
    BY <1>2, <1>3, <1>4, <2>1, NextElement DEF Inner
  <2>3. PICK q : q = Append(s, e)
    OBVIOUS
  <2>4. Len(q) = Len(s) + 1 /\ q[Len(s) + 1] = e
    BY <1>3, <2>3, AppendProperties
  <2>5. PICK j \in DOMAIN objs : PathOf(j) = q
    <3>1. Len(q) > 1 /\ q \in Seq(PathElem) /\ IsPrefix(q, PathIn(objs, c))
      BY <1>2, <1>3, <2>2, <2>3, <2>4 DEF PathOf
    <3>2. \E j \in DOMAIN objs : PathIn(objs, j) = q /\ c \in Subtree(objs, j)
      BY <1>1, <3>1, AncestorAt
    <3> QED BY <3>2 DEF PathOf
  <2>6. e = objs[j].name /\ objs[j].name \in Names
    <3>1. PathOf(j)[Len(PathOf(j))] = objs[j].name
      BY <1>1, PathLen DEF PathOf
    <3>2. objs[j].name \in Names
      BY ChildPath
    <3> QED BY <2>4, <2>5, <3>1, <3>2
  <2>7. Live(n) /\ ParentNode(j) = n
    <3>1. PICK p : p = ParentNode(j)
      OBVIOUS
    <3>2. NodePath(j) = Append(NodePath(p), e) /\ Live(p) /\ NodePath(j) = PathOf(j)
      BY <2>6, <3>1, ChildPath, PathNode
    <3>3. PICK a : a = NodePath(p)
      OBVIOUS
    <3>4. a \in Seq(PathElem)
      BY <3>2, <3>3, NodePathType
    <3>5. Append(a, e) = Append(s, e)
      BY <2>3, <2>5, <3>2, <3>3
    <3>6. a = s
      BY <1>3, <2>2, <3>4, <3>5, AppendInjective
    <3>7. Live(n)
      BY DEF Live
    <3> QED BY <1>3, <3>1, <3>2, <3>3, <3>6, <3>7, NodesUnique
  <2> QED BY <1>2, <2>2, <2>3, <2>5, <2>7
<1>5. ASSUME NEW i \in DOMAIN objs, ParentNode(i) = n, IsPrefix(PathOf(i), PathOf(c)) PROVE Inner(n, c)
  <2>1. PICK t, e : t = PathOf(i) /\ e = objs[i].name
    OBVIOUS
  <2>2. t = Append(s, e) /\ t \in Seq(PathElem) /\ e \in PathElem
    BY <1>2, <1>5, <2>1, PathNode, ChildPath
  <2>3. IsPrefix(s, t)
    BY <1>3, <2>2, PrefixSelf, PrefixAppend
  <2>4. IsPrefix(s, u)
    BY <1>2, <1>3, <1>5, <2>1, <2>2, <2>3, PrefixTrans
  <2>5. s # u
    <3>1. SUFFICES ASSUME s = u PROVE FALSE
      OBVIOUS
    <3>2. t = s
      BY <1>2, <1>3, <1>5, <2>1, <2>2, <2>3, <3>1, PrefixAntisym
    <3> QED BY <1>2, <1>5, <2>1, <3>2, NodesUnique, PathNode DEF Live
  <2> QED BY <1>2, <2>4, <2>5 DEF Inner
<1> QED BY <1>4, <1>5

-----------------------------------------------------------------------------
LEMMA ImagePrefix ==
  ASSUME Apart, NEW p \in Seq(PathElem), NEW q \in Seq(PathElem), IsPrefix(call.path, p), IsPrefix(call.path, q)
  PROVE  IsPrefix(Image(p), Image(q)) <=> IsPrefix(p, q)
<1>1. PICK a, b, u, v : a = call.path /\ b = call.new /\ u = Image(p) /\ v = Image(q)
  OBVIOUS
<1>2. /\ u \in Seq(PathElem) /\ IsPrefix(b, u) /\ Len(u) = Len(b) + (Len(p) - Len(a)) /\ Len(a) <= Len(p)
      /\ Len(a) \in Nat /\ Len(b) \in Nat /\ Len(p) \in Nat
      /\ \A k \in 1 .. Len(p) - Len(a) : u[Len(b) + k] = p[Len(a) + k]
  BY <1>1, ImageParts
<1>3. /\ v \in Seq(PathElem) /\ IsPrefix(b, v) /\ Len(v) = Len(b) + (Len(q) - Len(a)) /\ Len(a) <= Len(q) /\ Len(q) \in Nat
      /\ \A k \in 1 .. Len(q) - Len(a) : v[Len(b) + k] = q[Len(a) + k]
  BY <1>1, ImageParts
<1>4. a \in Seq(PathElem) /\ b \in Seq(PathElem) /\ IsPrefix(a, p) /\ IsPrefix(a, q)
  BY <1>1 DEF Apart
<1>5. PICK i \in Nat, j \in Nat, k \in Nat, l \in Nat : i = Len(a) /\ j = Len(b) /\ k = Len(p) /\ l = Len(q)
  BY <1>2, <1>3
<1>6. /\ \A m \in 1 .. i : a[m] = p[m] /\ a[m] = q[m]
      /\ \A m \in 1 .. j : b[m] = u[m] /\ b[m] = v[m]
  <2>1. (\A m \in 1 .. Len(a) : a[m] = p[m]) /\ (\A m \in 1 .. Len(a) : a[m] = q[m])
    BY <1>4, PrefixPointwise
  <2>2. (\A m \in 1 .. Len(b) : b[m] = u[m]) /\ (\A m \in 1 .. Len(b) : b[m] = v[m])
    BY <1>2, <1>3, <1>4, PrefixPointwise
  <2> QED BY <1>5, <2>1, <2>2
<1>7. /\ Len(u) = j + (k - i) /\ Len(v) = j + (l - i) /\ i <= k /\ i <= l
      /\ \A m \in 1 .. k - i : u[j + m] = p[i + m]
      /\ \A m \in 1 .. l - i : v[j + m] = q[i + m]
  BY <1>2, <1>3, <1>5
<1>8. ASSUME IsPrefix(p, q) PROVE IsPrefix(u, v)
  <2>1. k <= l /\ \A m \in 1 .. k : p[m] = q[m]
    BY <1>5, <1>8, PrefixPointwise
  <2>2. ASSUME NEW m \in 1 .. j + (k - i) PROVE u[m] = v[m]
    <3>1. CASE m <= j
      BY <1>6, <3>1
    <3>2. CASE ~(m <= j)
      <4>1. PICK h \in 1 .. k - i : m = j + h
        <5>1. m - j \in 1 .. k - i /\ m = j + (m - j)
          BY <1>7, <3>2
        <5> QED BY <5>1
      <4>2. h \in 1 .. l - i /\ i + h \in 1 .. k
        BY <1>7, <2>1
      <4> QED BY <1>7, <2>1, <4>1, <4>2
    <3> QED BY <3>1, <3>2
  <2>3. Len(u) <= Len(v)
    BY <1>7, <2>1
  <2> QED BY <1>2, <1>3, <1>7, <2>2, <2>3, PrefixPointwise
<1>9. ASSUME IsPrefix(u, v) PROVE IsPrefix(p, q)
  <2>1. Len(u) <= Len(v) /\ \A m \in 1 .. Len(u) : u[m] = v[m]
    BY <1>2, <1>3, <1>9, PrefixPointwise
  <2>2. k <= l
    BY <1>7, <2>1
  <2>3. ASSUME NEW m \in 1 .. k PROVE p[m] = q[m]
    <3>1. CASE m <= i
      BY <1>6, <3>1
    <3>2. CASE ~(m <= i)
      <4>1. PICK h \in 1 .. k - i : m = i + h
        <5>1. m - i \in 1 .. k - i /\ m = i + (m - i)
          BY <1>7, <3>2
        <5> QED BY <5>1
      <4>2. h \in 1 .. l - i /\ j + h \in 1 .. Len(u)
        BY <1>7, <2>2
      <4> QED BY <1>7, <2>1, <4>1, <4>2
    <3> QED BY <3>1, <3>2
  <2> QED BY <1>5, <2>2, <2>3, PrefixPointwise
<1> QED BY <1>1, <1>8, <1>9

-----------------------------------------------------------------------------
(* What is in order says of the steps one by one.                          *)
LEMMA GoodRange ==
  ASSUME NEW t \in Seq(GoodSteps)
  PROVE  \A s \in Range(t) : Good(s) /\ ~Makes(s) /\ s[1] # "dropOriginal"
<1> SUFFICES ASSUME NEW i \in DOMAIN t PROVE Good(t[i]) /\ ~Makes(t[i]) /\ t[i][1] # "dropOriginal"
  BY DEF Range
<1>1. PICK s : s = t[i]
  OBVIOUS
<1>2. s \in GoodSteps
  <2>1. i \in 1 .. Len(t)
    BY LenProperties
  <2> QED BY <1>1, <2>1, ElementOfSeq
<1>3. Good(s)
  BY <1>2 DEF GoodSteps
<1> QED BY <1>1, <1>3, GoodHead DEF Makes

LEMMA TidyCons ==
  ASSUME Tidy, NEW U, NEW u \in Seq(U), NEW s, todo = Cons(s, u)
  PROVE  /\ Wants(s, Srcs) /\ Orderly(Left(Srcs, s), u)
         /\ Makes(s) => ~Occupied(Spot(s))
         /\ \A a \in Range(u) : Makes(a) => ~Occupied(Spot(a))
         /\ \A c \in Srcs : Occupied(Image(PathOf(c))) => (s[1] \in {"remove", "dropOriginal"} /\ s[2] = c) \/ Leaving(c, u)
         /\ Tail(todo) = u /\ (\A a : At(a) <=> a = s[1]) /\ \A k : Arg(k) = s[k]
<1>1. Orderly(Srcs, Cons(s, u))
  BY DEF Tidy
<1>2. Range(todo) = {s} \cup Range(u)
  BY ConsOne
<1>3. Wants(s, Srcs) /\ Orderly(Left(Srcs, s), u)
  BY <1>1, OrderCons
<1>4. Tail(todo) = u /\ (\A a : At(a) <=> a = s[1]) /\ \A k : Arg(k) = s[k]
  BY StepIs
<1> QED BY <1>2, <1>3, <1>4 DEF Tidy, Leaving

LEMMA LeavingCons ==
  ASSUME NEW U, NEW u \in Seq(U), NEW s
  PROVE  /\ \A c : Leaving(c, u) => Leaving(c, Cons(s, u))
         /\ \A c : s[1] \in {"remove", "dropOriginal"} /\ s[2] = c => Leaving(c, Cons(s, u))
BY ConsOne DEF Leaving

(* A node that is taken away later is still there now.                     *)
LEMMA TakenLater ==
  ASSUME NEW t \in Seq(GoodSteps), NEW P, Orderly(P, t), NEW c, Leaving(c, t)
  PROVE  c \in P
<1>1. PICK k \in DOMAIN t : t[k][1] \in {"remove", "dropOriginal"} /\ t[k][2] = c
  BY DEF Leaving, Range
<1>2. t[k] \in Range(t)
  BY DEF Range
<1>3. t[k][1] = "remove"
  BY <1>1, <1>2, GoodRange
<1>4. Wants(t[k], LeftAt(P, t, k))
  BY DEF Orderly
<1> QED BY <1>1, <1>3, <1>4 DEF Wants, LeftAt

LEMMA GoodAhead == ASSUME NEW t \in Seq(GoodSteps), todo' = t PROVE ~At("rename")' /\ ~At("sendFile")'
<1>1. SUFFICES ASSUME t # <<>>, Head(t)[1] \in {"rename", "sendFile"} PROVE FALSE
  BY DEF At
<1>2. Head(t) \in GoodSteps
  BY <1>1, ConsAgain
<1>3. Good(Head(t))
  BY <1>2 DEF GoodSteps
<1> QED BY <1>1, <1>3, GoodHead

-----------------------------------------------------------------------------
(* Steps that change nothing on the device.                                *)
LEMMA QuietTidy ==
  ASSUME Trying, objs' = objs, nextId' = nextId, \A n \in DOMAIN cache' : n \in DOMAIN cache \/ Live(n),
         NEW U, NEW w \in Seq(U), todo' = w, Orderly(Srcs, w),
         \A s \in Range(w) : Makes(s) => ~Occupied(Spot(s)),
         \A c \in Srcs : Occupied(Image(PathOf(c))) => Leaving(c, w),
         At("rename")' => Arg(2)'.id \notin Storages, ~At("sendFile"), ~At("sendFile")'
  PROVE  Tidy'
<1>0. Going /\ call' = call /\ pre' = pre /\ Base /\ Base' /\ Apart /\ Past /\ Past' /\ Roomy /\ \A i : Waits(i)' => Waits(i)
  BY TryingFacts
<1>1. PICK G, k : G = {} /\ k = nextId
  OBVIOUS
<1>2. Keeps(G) /\ k \notin DOMAIN objs'
  BY <1>0, <1>1, QuietKeeps, BaseFacts
<1>3. Srcs \ G = Srcs
  BY <1>1
<1>4. \A p : Occupied(p)' = Occupied(p)
  BY DEF Occupied, PathOf
<1>5. \A s : Spot(s)' = Spot(s)
  BY DEF Spot, NodePath, PathOf
<1>6. \A s \in Range(w) : Makes(s) => Spot(s)' = Spot(s) /\ ~Occupied(Spot(s))'
  BY <1>5 DEF Occupied, PathOf
<1>7. Orderly(Srcs \ G, w)
  BY <1>3
<1>8. \A c \in Srcs \ G : Occupied(Image(PathOf(c))) \/ (k \in DOMAIN objs' /\ PathOf(k)' = Image(PathOf(c))) => Leaving(c, w)
  BY <1>2, <1>3
<1>9. Roomy'
  <2>1. nextId \notin DOMAIN localFiles'
    BY <1>0 DEF Base, CopiesInv, Issued, TypeOK, DeviceTypeOK
  <2> QED BY <1>0, <1>2, <2>1, RoomOn
<1> QED BY <1>0, <1>1, <1>2, <1>6, <1>7, <1>8, <1>9, TidyOn

LEMMA TidyNext ==
  ASSUME Trying, objs' = objs, nextId' = nextId, \A n \in DOMAIN cache' : n \in DOMAIN cache \/ Live(n),
         NEW U, NEW u \in Seq(U), NEW s, todo = Cons(s, u), s[1] \notin {"remove", "dropOriginal"}, s[1] # "sendFile",
         NEW a, a[1] # "sendFile", todo' = Cons(a, u), Wants(a, Srcs), Left(Srcs, a) = Left(Srcs, s),
         Makes(a) => ~Occupied(Spot(a)), a[1] = "rename" => a[2].id \notin Storages
  PROVE  Tidy'
<1>1. Tidy
  BY DEF Trying
<1>2. PICK w : w = Cons(a, u)
  OBVIOUS
<1>3. w \in Seq(U \cup {a}) /\ Range(w) = {a} \cup Range(u)
  BY <1>2, ConsOne
<1>4. /\ Orderly(Left(Srcs, s), u) /\ (\A b \in Range(u) : Makes(b) => ~Occupied(Spot(b)))
      /\ \A c \in Srcs : Occupied(Image(PathOf(c))) => Leaving(c, u)
  BY <1>1, TidyCons
<1>5. Orderly(Srcs, w)
  BY <1>2, <1>4, OrderCons
<1>6. \A c \in Srcs : Occupied(Image(PathOf(c))) => Leaving(c, w)
  BY <1>2, <1>4, LeavingCons
<1>7. At("rename")' => Arg(2)'.id \notin Storages
  BY NextIs
<1>8. ~At("sendFile") /\ ~At("sendFile")'
  BY NextIs, StepIs
<1> QED BY <1>2, <1>3, <1>4, <1>5, <1>6, <1>7, <1>8, QuietTidy

LEMMA TidyTail ==
  ASSUME Trying, objs' = objs, nextId' = nextId, \A n \in DOMAIN cache' : n \in DOMAIN cache \/ Live(n),
         NEW U, NEW u \in Seq(U), NEW s, todo = Cons(s, u), s[1] \notin {"remove", "dropOriginal"},
         todo' = u, \A c : ~Takes(s, c), ~At("rename")', s[1] # "sendFile", ~At("sendFile")'
  PROVE  Tidy'
<1>1. Tidy
  BY DEF Trying
<1>2. Left(Srcs, s) = Srcs
  BY DEF Left
<1>3. /\ Orderly(Srcs, u) /\ (\A b \in Range(u) : Makes(b) => ~Occupied(Spot(b)))
      /\ \A c \in Srcs : Occupied(Image(PathOf(c))) => Leaving(c, u)
  BY <1>1, <1>2, TidyCons
<1>4. ~At("sendFile")
  BY StepIs
<1> QED BY <1>3, <1>4, QuietTidy

(* The source of what was moved goes away.                                 *)
LEMMA TidyGone ==
  ASSUME Trying, NEW n, Src(n), Removes(n), Subtree(objs, n) = {n}, n \notin DOMAIN cache',
         \A m \in DOMAIN cache' : m \in DOMAIN cache \/ Live(m),
         NEW u \in Seq(GoodSteps), NEW s, todo = Cons(s, u), s[1] \in {"remove", "dropOriginal"}, s[2] = n, todo' = u
  PROVE  Tidy'
<1>0. Going /\ call' = call /\ pre' = pre /\ Base /\ Base' /\ Apart /\ Past /\ Past' /\ Roomy /\ Tidy /\ \A i : Waits(i)' => Waits(i)
  BY TryingFacts
<1>1. PICK G, k : G = {n} /\ k = nextId
  OBVIOUS
<1>2. Keeps(G)
  BY <1>0, <1>1, RemoveKeeps
<1>3. k \notin DOMAIN objs'
  <2>1. k \notin DOMAIN objs
    BY <1>0, <1>1, BaseFacts
  <2> QED BY <2>1 DEF Removes, WithoutObject, Drop
<1>4. \A c : Takes(s, c) <=> c = n
  BY DEF Takes
<1>5. Left(Srcs, s) = Srcs \ G
  BY <1>1, <1>4 DEF Left
<1>6. /\ Orderly(Srcs \ G, u)
      /\ \A c \in Srcs \ G : Occupied(Image(PathOf(c))) => Leaving(c, u)
  <2>1. Orderly(Left(Srcs, s), u)
    BY <1>0, TidyCons
  <2>2. \A c \in Srcs : Occupied(Image(PathOf(c))) => (s[1] \in {"remove", "dropOriginal"} /\ s[2] = c) \/ Leaving(c, u)
    BY <1>0, TidyCons
  <2> QED BY <1>1, <1>5, <2>1, <2>2
<1>7. \A a \in Range(u) : Makes(a) => Spot(a)' = Spot(a) /\ ~Occupied(Spot(a))'
  BY GoodRange
<1>8. ~At("rename")' /\ ~At("sendFile")'
  BY GoodAhead
<1>9. \A c \in Srcs \ G : Occupied(Image(PathOf(c))) \/ (k \in DOMAIN objs' /\ PathOf(k)' = Image(PathOf(c))) => Leaving(c, u)
  BY <1>3, <1>6
<1>10. Roomy'
  <2>1. nextId' = nextId
    BY DEF Removes
  <2>2. nextId \notin DOMAIN localFiles'
    BY <1>0, <2>1 DEF Base, CopiesInv, Issued, TypeOK, DeviceTypeOK
  <2>3. ~At("sendFile")
    BY StepIs
  <2> QED BY <1>0, <1>2, <1>8, <2>1, <2>2, <2>3, RoomOn
<1> QED BY <1>0, <1>1, <1>2, <1>3, <1>6, <1>7, <1>8, <1>9, <1>10, TidyOn

-----------------------------------------------------------------------------
(* Between two nodes.                                                      *)
LEMMA ReadsWell ==
  ASSUME Trying, NEW n, Live(n), IF At("rename") THEN Arg(2).id = n ELSE Arg(2) = n
  PROVE  ~ReadFails
BY TryingFacts DEF ReadFails

LEMMA ChildSrc ==
  ASSUME Base, Apart, NEW n, Src(n), NEW i \in DOMAIN objs, ParentNode(i) = n
  PROVE  /\ i \in Srcs /\ PathOf(i) = Append(PathOf(n), objs[i].name)
         /\ Image(PathOf(i)) = Append(Image(PathOf(n)), objs[i].name)
<1>1. n \in DOMAIN objs /\ IsPrefix(call.path, PathOf(n))
  BY DEF Src
<1>2. PathOf(i) = Append(PathOf(n), objs[i].name) /\ PathOf(n) \in Seq(PathElem) /\ objs[i].name \in PathElem
  BY <1>1, PathNode, ChildPath
<1>3. PICK s, e : s = PathOf(n) /\ e = objs[i].name
  OBVIOUS
<1>4. Image(Append(s, e)) = Append(Image(s), e) /\ IsPrefix(call.path, Append(s, e))
  BY <1>1, <1>2, <1>3, ImageBelow
<1> QED BY <1>2, <1>3, <1>4 DEF Src, Srcs

LEMMA ElementName ==
  ASSUME NEW U, NEW s \in Seq(U), NEW e, Append(s, e) \in Seq(U)
  PROVE  e \in U
<1>1. PICK V : V = U \cup {e}
  OBVIOUS
<1>2. s \in Seq(V) /\ e \in V
  BY <1>1, SeqMonotonic
<1>3. PICK t : t = Append(s, e)
  OBVIOUS
<1>4. Len(t) = Len(s) + 1 /\ t[Len(s) + 1] = e /\ Len(s) \in Nat
  BY <1>2, <1>3, AppendProperties, LenProperties
<1>5. Len(s) + 1 \in 1 .. Len(t)
  BY <1>4
<1> QED BY <1>3, <1>4, <1>5, ElementOfSeq

LEMMA Siblings ==
  ASSUME NEW U, NEW s \in Seq(U), NEW a \in U, NEW b \in U, IsPrefix(Append(s, a), Append(s, b))
  PROVE  a = b
<1>1. PICK t : t = Append(s, a)
  OBVIOUS
<1>2. t \in Seq(U) /\ Len(t) = Len(s) + 1 /\ Len(s) \in Nat
  BY <1>1, AppendProperties, LenProperties
<1>3. IsPrefix(t, s) \/ t = Append(s, b)
  BY <1>1, <1>2, PrefixAppend
<1>4. ~IsPrefix(t, s)
  <2>1. IsPrefix(t, s) => Len(t) <= Len(s)
    BY <1>2, PrefixPointwise
  <2> QED BY <1>2, <2>1
<1> QED BY <1>1, <1>3, <1>4, AppendInjective

LEMMA ClearTidy ==
  ASSUME Trying, NEW u \in Seq(GoodSteps), NEW K, todo = Cons(<<"clearItems", K>>, u)
  PROVE  reply' = reply /\ Tidy'
<1>0. Going /\ Tidy
  BY TryingFacts
<1>1. PICK s : s = <<"clearItems", K>>
  OBVIOUS
<1>2. s[1] = "clearItems" /\ todo = Cons(s, u)
  BY <1>1
<1>3. At("clearItems") /\ Tail(todo) = u
  BY <1>0, <1>2, TidyCons
<1>4. ClearItems
  BY <1>0, <1>3, WhichStep DEF Going
<1>5. <<>> \o u = u
  BY ConsOne
<1>6. objs' = objs /\ nextId' = nextId /\ reply' = reply /\ todo' = u /\ \A n \in DOMAIN cache' : n \in DOMAIN cache
  BY <1>3, <1>4, <1>5 DEF ClearItems, NoDeviceChange, device, Goto, Drop
<1>7. \A c : ~Takes(s, c)
  BY <1>2 DEF Takes
<1>8. ~At("rename")' /\ ~At("sendFile")'
  BY <1>6, GoodAhead
<1>9. Tidy'
  BY <1>2, <1>6, <1>7, <1>8, TidyTail
<1> QED BY <1>6, <1>9

LEMMA ContentsTidy ==
  ASSUME Trying, Tells(cache, Off), NEW u \in Seq(GoodSteps), NEW n, NEW d, Copied(n, d), todo = Cons(<<"moveContents", n, d>>, u)
  PROVE  reply' = reply /\ Tidy'
<1>0. Going /\ Tidy /\ Base /\ Apart /\ NoTwins(objs) /\ IsStore(objs)
  BY TryingFacts
<1>1. PICK s : s = <<"moveContents", n, d>>
  OBVIOUS
<1>2. s[1] = "moveContents" /\ s[2] = n /\ s[3] = d /\ todo = Cons(s, u)
  BY <1>1
<1>3. At("moveContents") /\ ~At("rename") /\ Tail(todo) = u /\ Arg(2) = n /\ Arg(3) = d /\ Wants(s, Srcs)
  <2>1. Tail(todo) = u /\ (\A a : At(a) <=> a = s[1]) /\ (\A k : Arg(k) = s[k]) /\ Wants(s, Srcs)
    BY <1>0, <1>2, TidyCons
  <2>2. At("moveContents") /\ ~At("rename")
    BY <1>2, <2>1
  <2>3. Arg(2) = n /\ Arg(3) = d
    BY <1>2, <2>1
  <2> QED BY <2>1, <2>2, <2>3
<1>4. n \in Srcs /\ Src(n) /\ n \in DOMAIN objs /\ Live(n)
  BY <1>2, <1>3 DEF Wants, Srcs, Live
<1>5. MoveContents
  BY <1>0, <1>3, <1>4, WhichStep, ReadsWell DEF Going
<1>6. PICK r \in getItem(n) : Goto(<< <<"moveRest", n, d, r.md.children>> >>, r.cache, localFiles)
  BY <1>3, <1>5 DEF MoveContents
<1>7. PICK S, m : S = r.md.children /\ m = <<"moveRest", n, d, S>>
  OBVIOUS
<1>8. m[1] = "moveRest" /\ m[2] = n /\ m[3] = d /\ m[4] = S
  BY <1>7
<1>9. /\ r.md = getMetadata(n) /\ IsFolderNode(n)
      /\ \A k \in DOMAIN r.cache : k \in DOMAIN cache \/ Live(k)
  BY <1>0, <1>6, CopiedAlive
<1>10. objs' = objs /\ nextId' = nextId /\ reply' = reply /\ cache' = r.cache /\ todo' = Cons(m, u)
  <2>1. <<m>> \o u = Cons(m, u)
    BY ConsOne
  <2> QED BY <1>3, <1>5, <1>6, <1>7, <2>1 DEF MoveContents, NoDeviceChange, device, Goto
<1>11. S = {[id |-> i, name |-> objs[i].name, file |-> objs[i].file] : i \in {k \in DOMAIN objs : ParentNode(k) = n}}
  BY <1>0, <1>7, <1>9, FolderHolds
<1>12. ASSUME NEW e \in S
       PROVE  \E i \in DOMAIN objs : /\ ParentNode(i) = n /\ e = [id |-> i, name |-> objs[i].name, file |-> objs[i].file]
                                     /\ i \in Srcs /\ PathOf(i) = Append(PathOf(n), e.name)
  <2>1. PICK i \in DOMAIN objs : ParentNode(i) = n /\ e = [id |-> i, name |-> objs[i].name, file |-> objs[i].file]
    BY <1>11
  <2>2. e.name = objs[i].name
    BY <2>1
  <2> QED BY <1>0, <1>4, <2>1, <2>2, ChildSrc
<1>13. Wants(m, Srcs)
  <2>1. ASSUME NEW e \in S PROVE Has(Srcs, n, e.name)
    BY <1>12 DEF Has
  <2>2. ASSUME NEW e \in S, NEW f \in S, e.name = f.name PROVE e = f
    <3>1. PICK i \in DOMAIN objs : e = [id |-> i, name |-> objs[i].name, file |-> objs[i].file] /\ PathOf(i) = Append(PathOf(n), e.name)
      BY <1>12
    <3>2. PICK j \in DOMAIN objs : f = [id |-> j, name |-> objs[j].name, file |-> objs[j].file] /\ PathOf(j) = Append(PathOf(n), f.name)
      BY <1>12
    <3>3. i = j
      BY <1>0, <2>2, <3>1, <3>2, PathsUnique DEF PathOf
    <3> QED BY <3>1, <3>2, <3>3
  <2> QED BY <1>4, <1>8, <2>1, <2>2 DEF Wants
<1>14. ASSUME NEW c \in Srcs PROVE Takes(m, c) <=> Takes(s, c)
  <2>1. c \in DOMAIN objs
    BY DEF Srcs
  <2>2. Takes(s, c) <=> Inner(n, c)
    BY <1>2 DEF Takes
  <2>3. Takes(m, c) <=> \E e \in S : IsPrefix(Append(PathOf(n), e.name), PathOf(c))
    BY <1>8 DEF Takes, Under
  <2>4. ASSUME NEW i \in DOMAIN objs, ParentNode(i) = n, IsPrefix(PathOf(i), PathOf(c))
        PROVE  \E e \in S : IsPrefix(Append(PathOf(n), e.name), PathOf(c))
    <3>1. PICK e : e = [id |-> i, name |-> objs[i].name, file |-> objs[i].file]
      OBVIOUS
    <3>2. e \in S /\ e.name = objs[i].name
      BY <1>11, <2>4, <3>1
    <3>3. PathOf(i) = Append(PathOf(n), objs[i].name)
      BY <1>0, <1>4, <2>4, ChildSrc
    <3> QED BY <2>4, <3>2, <3>3
  <2>5. Inner(n, c) => \E i \in DOMAIN objs : ParentNode(i) = n /\ IsPrefix(PathOf(i), PathOf(c))
    BY <1>0, <1>4, <2>1, InnerDown
  <2>6. \A i \in DOMAIN objs : ParentNode(i) = n /\ IsPrefix(PathOf(i), PathOf(c)) => Inner(n, c)
    BY <1>0, <1>4, <2>1, InnerDown
  <2>7. ASSUME NEW e \in S, IsPrefix(Append(PathOf(n), e.name), PathOf(c)) PROVE Inner(n, c)
    BY <1>12, <2>6, <2>7
  <2> QED BY <2>2, <2>3, <2>4, <2>5, <2>7
<1>15. Left(Srcs, m) = Left(Srcs, s)
  BY <1>14 DEF Left
<1>16. ~Makes(m)
  BY <1>8 DEF Makes
<1>17. Tidy'
  BY <1>2, <1>8, <1>9, <1>10, <1>13, <1>15, <1>16, TidyNext
<1> QED BY <1>10, <1>17

LEMMA RestTidy ==
  ASSUME Trying, NEW u \in Seq(GoodSteps), NEW n, NEW d, NEW S, todo = Cons(<<"moveRest", n, d, S>>, u)
  PROVE  reply' = reply /\ Tidy'
<1>0. Going /\ Tidy /\ Base
  BY TryingFacts
<1>1. PICK s : s = <<"moveRest", n, d, S>>
  OBVIOUS
<1>2. s[1] = "moveRest" /\ s[2] = n /\ s[3] = d /\ s[4] = S /\ todo = Cons(s, u)
  BY <1>1
<1>3. /\ At("moveRest") /\ Tail(todo) = u /\ Arg(2) = n /\ Arg(3) = d /\ Arg(4) = S /\ Wants(s, Srcs)
      /\ Orderly(Left(Srcs, s), u)
      /\ \A c \in Srcs : Occupied(Image(PathOf(c))) => Leaving(c, u)
  <2>1. Tail(todo) = u /\ (\A a : At(a) <=> a = s[1]) /\ (\A k : Arg(k) = s[k]) /\ Wants(s, Srcs) /\ Orderly(Left(Srcs, s), u)
    BY <1>0, <1>2, TidyCons
  <2>2. \A c \in Srcs : Occupied(Image(PathOf(c))) => (s[1] \in {"remove", "dropOriginal"} /\ s[2] = c) \/ Leaving(c, u)
    BY <1>0, <1>2, TidyCons
  <2> QED BY <1>2, <2>1, <2>2
<1>4. /\ n \in Srcs /\ n \in DOMAIN objs /\ (\A e \in S : Has(Srcs, n, e.name))
      /\ \A e, f \in S : e.name = f.name => e = f
  BY <1>2, <1>3 DEF Wants, Srcs
<1>5. MoveRest
  BY <1>0, <1>3, WhichStep DEF Going
<1>6. /\ objs' = objs /\ nextId' = nextId /\ reply' = reply /\ cache' = cache
      /\ \/ todo' = <<>> \o u /\ S = {}
         \/ \E e \in S : todo' = << <<"getNode", n, <<e.name>>, <<"child", d, e.name>> >>, <<"moveRest", n, d, S \ {e}>> >> \o u
  BY <1>3, <1>5 DEF MoveRest, NoDeviceChange, device, Goto
<1>7. \A k \in DOMAIN cache' : k \in DOMAIN cache
  BY <1>6
<1>8. CASE todo' = <<>> \o u /\ S = {}
  <2>1. todo' = u
    BY <1>8, ConsOne
  <2>2. \A c : ~Takes(s, c)
    BY <1>2, <1>8 DEF Takes
  <2>3. ~At("rename")' /\ ~At("sendFile")'
    BY <2>1, GoodAhead
  <2>4. Tidy'
    BY <1>2, <1>6, <1>7, <2>1, <2>2, <2>3, TidyTail
  <2> QED BY <1>6, <2>4
<1>9. ASSUME NEW e \in S, todo' = << <<"getNode", n, <<e.name>>, <<"child", d, e.name>> >>, <<"moveRest", n, d, S \ {e}>> >> \o u
      PROVE  reply' = reply /\ Tidy'
  <2>1. PICK g, k, l, m, R : /\ k = <<"child", d, e.name>> /\ l = <<e.name>> /\ g = <<"getNode", n, l, k>>
                             /\ R = S \ {e} /\ m = <<"moveRest", n, d, R>>
    OBVIOUS
  <2>2. /\ g[1] = "getNode" /\ g[2] = n /\ g[3] = l /\ g[4] = k /\ k[1] = "child" /\ l[1] = e.name
        /\ m[1] = "moveRest" /\ m[2] = n /\ m[4] = R
    BY <2>1
  <2>3. PICK v, w : v = Cons(m, u) /\ w = Cons(g, v)
    OBVIOUS
  <2>4. v \in Seq(GoodSteps \cup {m}) /\ Range(v) = {m} \cup Range(u)
    BY <2>3, ConsOne
  <2>5. w \in Seq(GoodSteps \cup {m} \cup {g}) /\ Range(w) = {g} \cup Range(v)
    <3>1. PICK V : V = GoodSteps \cup {m}
      OBVIOUS
    <3>2. v \in Seq(V)
      BY <2>4, <3>1
    <3>3. w \in Seq(V \cup {g}) /\ Range(w) = {g} \cup Range(v)
      BY <2>3, <3>2, ConsOne
    <3> QED BY <3>1, <3>3
  <2>6. todo' = w
    <3>1. <<g, m>> \o u = Cons(g, Cons(m, u))
      BY ConsMore
    <3> QED BY <1>9, <2>1, <2>3, <3>1
  <2>7. PICK p, Q : p = PathOf(n) /\ Q = Left(Srcs, g)
    OBVIOUS
  <2>8. p \in Seq(PathElem)
    BY <1>0, <1>4, <2>7, PathNode
  <2>9. \A c : Takes(g, c) <=> IsPrefix(Append(p, e.name), PathOf(c))
    BY <2>2, <2>7 DEF Takes, Under
  <2>10. ASSUME NEW f \in S PROVE f.name \in PathElem /\ \E c \in Srcs : PathOf(c) = Append(p, f.name)
    <3>1. PICK c \in Srcs : PathOf(c) = Append(p, f.name)
      BY <1>4, <2>7 DEF Has
    <3>2. PathOf(c) \in Seq(PathElem)
      BY <1>0, PathNode DEF Srcs
    <3> QED BY <2>8, <3>1, <3>2, ElementName
  <2>11. n \in Q
    <3>1. PICK q : q = Append(p, e.name)
      OBVIOUS
    <3>2. q \in Seq(PathElem) /\ Len(q) = Len(p) + 1 /\ Len(p) \in Nat
      BY <2>8, <2>10, <3>1, AppendProperties, LenProperties
    <3>3. IsPrefix(q, p) => Len(q) <= Len(p)
      BY <2>8, <3>2, PrefixPointwise
    <3>4. ~Takes(g, n)
      BY <2>7, <2>9, <3>1, <3>2, <3>3
    <3> QED BY <1>4, <2>7, <3>4 DEF Left
  <2>12. ASSUME NEW f \in R PROVE Has(Q, n, f.name)
    <3>1. f \in S /\ f.name # e.name
      BY <1>4, <2>1
    <3>2. PICK c \in Srcs : PathOf(c) = Append(p, f.name)
      BY <2>10, <3>1
    <3>3. f.name \in PathElem /\ e.name \in PathElem
      BY <2>10, <3>1
    <3>4. ~Takes(g, c)
      BY <2>8, <2>9, <3>1, <3>2, <3>3, Siblings
    <3> QED BY <2>7, <3>2, <3>4 DEF Has, Left
  <2>13. Wants(g, Srcs)
    BY <1>4, <2>2 DEF Wants
  <2>14. Wants(m, Q)
    <3>1. \A f, h \in R : f.name = h.name => f = h
      BY <1>4, <2>1
    <3> QED BY <2>2, <2>11, <2>12, <3>1 DEF Wants
  <2>15. Left(Q, m) = Left(Srcs, s)
    <3>1. ASSUME NEW c PROVE c \in Left(Q, m) <=> c \in Left(Srcs, s)
      <4>1. Takes(m, c) <=> \E f \in R : Under(n, f.name, c)
        BY <2>2 DEF Takes
      <4>2. Takes(s, c) <=> \E f \in S : Under(n, f.name, c)
        BY <1>2 DEF Takes
      <4>3. Takes(g, c) <=> Under(n, e.name, c)
        BY <2>2 DEF Takes
      <4>4. Takes(s, c) <=> Takes(g, c) \/ Takes(m, c)
        BY <2>1, <4>1, <4>2, <4>3
      <4> QED BY <2>7, <4>4 DEF Left
    <3> QED BY <3>1 DEF Left
  <2>16. Orderly(Srcs, w)
    <3>1. Orderly(Q, v)
      BY <1>3, <2>3, <2>14, <2>15, OrderCons
    <3> QED BY <2>3, <2>4, <2>7, <2>13, <3>1, OrderCons
  <2>17. \A a \in Range(w) : ~Makes(a)
    BY <2>2, <2>4, <2>5, GoodRange DEF Makes
  <2>18. \A c \in Srcs : Occupied(Image(PathOf(c))) => Leaving(c, w)
    BY <1>3, <2>3, <2>4, LeavingCons
  <2>19. ~At("rename")' /\ ~At("sendFile")'
    BY <2>2, <2>3, <2>4, <2>6, NextIs
  <2>20. ~At("sendFile")
    BY <1>2, StepIs
  <2>21. Tidy'
    BY <1>6, <1>7, <2>5, <2>6, <2>16, <2>17, <2>18, <2>19, <2>20, QuietTidy
  <2> QED BY <1>6, <2>21
<1> QED BY <1>6, <1>8, <1>9

LEMMA ChildTidy ==
  ASSUME Trying, Tells(cache, Off), NEW u \in Seq(GoodSteps),
         NEW n, NEW d, NEW name, Copied(n, d), todo = Cons(<<"getNode", n, <<name>>, <<"child", d, name>> >>, u)
  PROVE  reply' = reply /\ Tidy'
<1>0. Going /\ Tidy /\ Base /\ Apart /\ NoTwins(objs) /\ IsStore(objs)
  BY TryingFacts
<1>1. PICK s, k, rest : s = <<"getNode", n, rest, k>> /\ k = <<"child", d, name>> /\ rest = <<name>>
  OBVIOUS
<1>2. /\ s[1] = "getNode" /\ s[2] = n /\ s[3] = rest /\ s[4] = k /\ k[1] = "child" /\ k[2] = d /\ todo = Cons(s, u)
      /\ rest # <<>> /\ Len(rest) = 1 /\ Head(rest) = name /\ rest[1] = name
  BY <1>1
<1>3. /\ Tail(todo) = u /\ (\A a : At(a) <=> a = s[1]) /\ (\A j : Arg(j) = s[j]) /\ Wants(s, Srcs) /\ Orderly(Left(Srcs, s), u)
      /\ \A c \in Srcs : Occupied(Image(PathOf(c))) => Leaving(c, u)
  <2>1. Tail(todo) = u /\ (\A a : At(a) <=> a = s[1]) /\ (\A j : Arg(j) = s[j]) /\ Wants(s, Srcs) /\ Orderly(Left(Srcs, s), u)
    BY <1>0, <1>2, TidyCons
  <2>2. \A c \in Srcs : Occupied(Image(PathOf(c))) => (s[1] \in {"remove", "dropOriginal"} /\ s[2] = c) \/ Leaving(c, u)
    BY <1>0, <1>2, TidyCons
  <2> QED BY <1>2, <2>1, <2>2
<1>4. At("getNode") /\ ~At("rename")
  BY <1>2, <1>3
<1>5. Arg(2) = n /\ Arg(3) = rest /\ Arg(4) = k
  BY <1>2, <1>3
<1>6. n \in Srcs /\ Src(n) /\ n \in DOMAIN objs /\ Live(n) /\ Has(Srcs, n, name)
  BY <1>2, <1>3 DEF Wants, Srcs, Live
<1>7. GetNode
  BY <1>0, <1>4, <1>5, <1>6, WhichStep, ReadsWell DEF Going
<1>8. /\ objs' = objs /\ nextId' = nextId
      /\ \E r \in getItem(n) :
           \/ (\A e \in r.md.children : e.name # name) /\ Throw("ENOENT", r.cache, localFiles)
           \/ \E e \in r.md.children : /\ e.name = name
                                       /\ Goto(Then(k, [id |-> e.id, file |-> e.file]), r.cache, localFiles)
  BY <1>2, <1>5, <1>7 DEF GetNode, NoDeviceChange, device
<1>9. PICK r \in getItem(n) :
           \/ (\A e \in r.md.children : e.name # name) /\ Throw("ENOENT", r.cache, localFiles)
           \/ \E e \in r.md.children : /\ e.name = name
                                       /\ Goto(Then(k, [id |-> e.id, file |-> e.file]), r.cache, localFiles)
  BY <1>8
<1>10. /\ r.md = getMetadata(n) /\ IsFolderNode(n) /\ NodePath(d) = Image(PathOf(n)) /\ NodePath(n) = PathOf(n)
       /\ \A m \in DOMAIN r.cache : m \in DOMAIN cache \/ Live(m)
  BY <1>0, CopiedAlive
<1>11. r.md.children =
         {[id |-> i, name |-> objs[i].name, file |-> objs[i].file] : i \in {j \in DOMAIN objs : ParentNode(j) = n}}
  BY <1>0, <1>10, FolderHolds
<1>12. \E e \in r.md.children : e.name = name
  <2>1. PICK i \in Srcs : PathOf(i) = Append(PathOf(n), name)
    BY <1>6 DEF Has
  <2>2. i \in DOMAIN objs /\ objs[i].name \in Names
    BY <1>0, <2>1, ChildPath DEF Srcs
  <2>3. PICK p, q : p = PathOf(n) /\ q = ParentNode(i)
    OBVIOUS
  <2>4. /\ PathOf(i) = Append(NodePath(q), objs[i].name) /\ NodePath(q) \in Seq(PathElem) /\ Live(q)
        /\ objs[i].name \in PathElem /\ PathOf(i) \in Seq(PathElem) /\ p \in Seq(PathElem)
    <3>1. NodePath(i) = Append(NodePath(q), objs[i].name) /\ Live(q) /\ objs[i].name \in PathElem
      BY <1>0, <2>2, <2>3, ChildPath
    <3> QED BY <1>0, <1>6, <2>2, <2>3, <3>1, PathNode, NodePathType
  <2>5. name \in PathElem
    BY <2>1, <2>3, <2>4, ElementName
  <2>6. NodePath(q) = p /\ name = objs[i].name
    <3>1. PICK a, b : a = NodePath(q) /\ b = objs[i].name
      OBVIOUS
    <3>2. a \in Seq(PathElem) /\ b \in PathElem /\ Append(a, b) = Append(p, name)
      BY <2>1, <2>3, <2>4, <3>1
    <3>3. p \in Seq(PathElem)
      BY <2>4
    <3>4. a = p /\ b = name
      BY <2>5, <3>2, <3>3, AppendInjective
    <3> QED BY <3>1, <3>4
  <2>7. q = n
    BY <1>0, <1>6, <1>10, <2>3, <2>4, <2>6, NodesUnique
  <2>8. PICK e : e = [id |-> i, name |-> objs[i].name, file |-> objs[i].file]
    OBVIOUS
  <2>9. e \in r.md.children
    BY <1>11, <2>2, <2>3, <2>7, <2>8
  <2>10. e.name = name
    BY <2>6, <2>8
  <2> QED BY <2>9, <2>10
<1>13. PICK e \in r.md.children : e.name = name /\ Goto(Then(k, [id |-> e.id, file |-> e.file]), r.cache, localFiles)
  BY <1>9, <1>12
<1>14. PICK i \in DOMAIN objs : ParentNode(i) = n /\ e = [id |-> i, name |-> objs[i].name, file |-> objs[i].file]
  BY <1>11, <1>13
<1>15. e.id = i /\ e.file = objs[i].file /\ objs[i].name = name
  BY <1>13, <1>14
<1>16. PICK node, m : node = [id |-> i, file |-> objs[i].file] /\ m = <<"rename", node, d, name>>
  OBVIOUS
<1>17. m[1] = "rename" /\ m[2] = node /\ node.id = i /\ m[3] = d /\ m[4] = name
  BY <1>16
<1>18. reply' = reply /\ cache' = r.cache /\ todo' = Cons(m, u)
  <2>1. <<m>> \o u = Cons(m, u)
    BY ConsOne
  <2>2. Then(k, [id |-> e.id, file |-> e.file]) = <<m>>
    BY <1>1, <1>15, <1>16 DEF Then
  <2> QED BY <1>3, <1>13, <2>1, <2>2 DEF Goto
<1>19. i \in Srcs /\ PathOf(i) = Append(PathOf(n), name) /\ Spot(m) = Image(PathOf(i))
  BY <1>0, <1>6, <1>10, <1>14, <1>15, <1>17, ChildSrc DEF Spot
<1>20. ASSUME NEW c \in Srcs PROVE Takes(m, c) <=> Takes(s, c)
  <2>1. Takes(m, c) <=> IsPrefix(Image(PathOf(i)), Image(PathOf(c)))
    BY <1>17, <1>19 DEF Takes
  <2>2. Takes(s, c) <=> IsPrefix(PathOf(i), PathOf(c))
    BY <1>2, <1>19 DEF Takes, Under
  <2>3. PICK p, q : p = PathOf(i) /\ q = PathOf(c)
    OBVIOUS
  <2>4. p \in Seq(PathElem) /\ q \in Seq(PathElem) /\ IsPrefix(call.path, p) /\ IsPrefix(call.path, q)
    BY <1>0, <1>19, <2>3, PathNode DEF Srcs, Src
  <2>5. IsPrefix(Image(p), Image(q)) <=> IsPrefix(p, q)
    BY <1>0, <2>4, ImagePrefix
  <2> QED BY <2>1, <2>2, <2>3, <2>5
<1>21. Left(Srcs, m) = Left(Srcs, s)
  BY <1>20 DEF Left
<1>22. ~Occupied(Spot(m))
  <2>1. SUFFICES ASSUME Occupied(Spot(m)) PROVE FALSE
    OBVIOUS
  <2>2. Leaving(i, u)
    BY <1>3, <1>19, <2>1
  <2>3. PICK P : P = Left(Srcs, s)
    OBVIOUS
  <2>4. i \in P
    BY <1>3, <2>2, <2>3, TakenLater
  <2>5. ~Takes(s, i)
    BY <2>3, <2>4 DEF Left
  <2>6. Takes(s, i)
    <3>1. IsPrefix(PathOf(i), PathOf(i))
      BY <1>0, PathNode
    <3> QED BY <1>2, <1>19, <3>1 DEF Takes, Under
  <2> QED BY <2>5, <2>6
<1>23. Wants(m, Srcs)
  BY <1>17 DEF Wants
<1>24. node.id \notin Storages
  <2>1. Live(i)
    BY DEF Live
  <2> QED BY <1>0, <1>17, <2>1, NodePathType
<1>25. Tidy'
  <2>1. s[1] \notin {"remove", "dropOriginal"}
    BY <1>2
  <2>2. \A j \in DOMAIN cache' : j \in DOMAIN cache \/ Live(j)
    BY <1>10, <1>18
  <2> QED BY <1>2, <1>8, <1>17, <1>18, <1>21, <1>22, <1>23, <1>24, <2>1, <2>2, TidyNext
<1> QED BY <1>18, <1>25

LEMMA RemoveTidy ==
  ASSUME Trying, Tells(cache, Off), NEW u \in Seq(GoodSteps),
         NEW n, NEW d, Copied(n, d), todo = Cons(<<"remove", n, FALSE>>, u)
  PROVE  reply' = reply /\ Tidy'
<1>0. Going /\ Tidy /\ Base /\ Apart /\ NoTwins(objs) /\ IsStore(objs) /\ faults' # faults - 1
  BY TryingFacts
<1>1. PICK s : s = <<"remove", n, FALSE>>
  OBVIOUS
<1>2. s[1] = "remove" /\ s[2] = n /\ s[3] = FALSE /\ todo = Cons(s, u)
  BY <1>1
<1>3. Tail(todo) = u /\ (\A a : At(a) <=> a = s[1]) /\ (\A j : Arg(j) = s[j]) /\ Wants(s, Srcs)
  BY <1>0, <1>2, TidyCons
<1>4. At("remove") /\ ~At("rename")
  BY <1>2, <1>3
<1>5. Arg(2) = n /\ Arg(3) = FALSE
  BY <1>2, <1>3
<1>6. n \in Srcs /\ Src(n) /\ n \in DOMAIN objs /\ Live(n) /\ \A c \in Srcs : ~Inner(n, c)
  BY <1>2, <1>3 DEF Wants, Srcs, Live
<1>7. RemoveNode
  BY <1>0, <1>4, <1>5, <1>6, WhichStep, ReadsWell DEF Going
<1>8. PICK r \in getItem(n) :
       \/ r.md.children # {}
       \/ /\ r.md.children = {}
          /\ DeviceCall(n \in DOMAIN objs, WithoutObject(n), nextId,
               Goto(<<>>, Drop(r.cache, {n, GetParentNodeId(r.md)}), localFiles),
               Throw("EIO", r.cache, localFiles))
  BY <1>5, <1>7 DEF RemoveNode
<1>9. /\ r.md = getMetadata(n) /\ IsFolderNode(n) /\ ~objs[n].file
      /\ \A m \in DOMAIN r.cache : m \in DOMAIN cache \/ Live(m)
  BY <1>0, CopiedAlive
<1>10. r.md.children = {}
  <2>1. r.md.children =
         {[id |-> i, name |-> objs[i].name, file |-> objs[i].file] : i \in {j \in DOMAIN objs : ParentNode(j) = n}}
    BY <1>0, <1>9, FolderHolds
  <2>2. ASSUME NEW i \in DOMAIN objs, ParentNode(i) = n PROVE FALSE
    <3>1. i \in Srcs /\ IsPrefix(PathOf(i), PathOf(i))
      BY <1>0, <1>6, <2>2, ChildSrc, PathNode
    <3>2. Inner(n, i)
      BY <1>0, <1>6, <2>2, <3>1, InnerDown
    <3> QED BY <1>6, <3>1, <3>2
  <2> QED BY <2>1, <2>2
<1>11. Subtree(objs, n) = {n}
  BY <1>0, <1>6, <1>9, <1>10, FolderEmpty
<1>12. Removes(n) /\ Goto(<<>>, Drop(r.cache, {n, GetParentNodeId(r.md)}), localFiles)
  BY <1>0, <1>6, <1>8, <1>10 DEF DeviceCall, Removes
<1>13. <<>> \o u = u
  BY ConsOne
<1>14. todo' = u /\ reply' = reply /\ cache' = Drop(r.cache, {n, GetParentNodeId(r.md)})
  BY <1>3, <1>12, <1>13 DEF Goto
<1>15. n \notin DOMAIN cache' /\ \A m \in DOMAIN cache' : m \in DOMAIN cache \/ Live(m)
  BY <1>9, <1>14 DEF Drop
<1>16. s[1] \in {"remove", "dropOriginal"}
  BY <1>2
<1>17. Tidy'
  BY <1>2, <1>6, <1>11, <1>12, <1>14, <1>15, <1>16, TidyGone
<1> QED BY <1>14, <1>17

LEMMA DroppingTidy ==
  ASSUME Trying, NEW t \in Seq(GoodSteps), Dropping(t)
  PROVE  reply' = reply /\ Tidy'
<1>0. Going /\ Tidy /\ Base /\ Apart /\ IsStore(objs) /\ faults' # faults - 1
  BY TryingFacts
<1>1. PICK n, f : /\ todo = Cons(<<"dropOriginal", n, f>>, t) /\ Src(n) /\ n \notin DOMAIN cache /\ objs[n].file
  BY DEF Dropping
<1>2. PICK s : s = <<"dropOriginal", n, f>>
  OBVIOUS
<1>3. s[1] = "dropOriginal" /\ s[2] = n /\ s[3] = f /\ todo = Cons(s, t)
  BY <1>1, <1>2
<1>4. Tail(todo) = t /\ (\A a : At(a) <=> a = s[1]) /\ (\A j : Arg(j) = s[j])
  BY <1>3, StepIs
<1>5. At("dropOriginal") /\ Arg(2) = n /\ Arg(3) = f
  BY <1>3, <1>4
<1>6. DropOriginal
  BY <1>0, <1>5, WhichStep DEF Going
<1>7. n \in DOMAIN objs /\ Subtree(objs, n) = {n}
  BY <1>0, <1>1, NothingInAFile DEF Src
<1>8. Removes(n) /\ Goto(<<>>, Drop(cache, {f}), localFiles)
  BY <1>0, <1>5, <1>6, <1>7 DEF DropOriginal, DeviceCall, Removes
<1>9. <<>> \o t = t
  BY ConsOne
<1>10. todo' = t /\ reply' = reply /\ cache' = Drop(cache, {f})
  BY <1>4, <1>8, <1>9 DEF Goto
<1>11. n \notin DOMAIN cache' /\ \A m \in DOMAIN cache' : m \in DOMAIN cache \/ Live(m)
  BY <1>1, <1>10 DEF Drop
<1>12. s[1] \in {"remove", "dropOriginal"}
  BY <1>3
<1>13. Tidy'
  BY <1>1, <1>3, <1>7, <1>8, <1>10, <1>11, <1>12, TidyGone
<1> QED BY <1>10, <1>13

LEMMA ReadyTidy ==
  ASSUME Trying, Tells(cache, Off), NEW t \in Seq(GoodSteps), Ready(t)
  PROVE  reply' = reply /\ Tidy'
<1>1. todo = t /\ t # <<>>
  BY TryingFacts DEF Ready
<1>2. PICK s, u : s = Head(t) /\ u = Tail(t)
  OBVIOUS
<1>3. s \in GoodSteps /\ u \in Seq(GoodSteps) /\ todo = Cons(s, u)
  BY <1>1, <1>2, ConsAgain
<1>4. Good(s)
  BY <1>3 DEF GoodSteps
<1>5. ASSUME NEW K, s = <<"clearItems", K>> PROVE reply' = reply /\ Tidy'
  BY <1>3, <1>5, ClearTidy
<1>6. ASSUME NEW n, NEW d, s = <<"moveContents", n, d>>, Copied(n, d) PROVE reply' = reply /\ Tidy'
  BY <1>3, <1>6, ContentsTidy
<1>7. ASSUME NEW n, NEW d, NEW S, s = <<"moveRest", n, d, S>>, Copied(n, d) PROVE reply' = reply /\ Tidy'
  BY <1>3, <1>7, RestTidy
<1>8. ASSUME NEW n, NEW d, NEW name, s = <<"getNode", n, <<name>>, <<"child", d, name>> >>, Copied(n, d) PROVE reply' = reply /\ Tidy'
  BY <1>3, <1>8, ChildTidy
<1>9. ASSUME NEW n, NEW d, s = <<"remove", n, FALSE>>, Copied(n, d) PROVE reply' = reply /\ Tidy'
  BY <1>3, <1>9, RemoveTidy
<1> QED BY <1>4, <1>5, <1>6, <1>7, <1>8, <1>9 DEF Good

-----------------------------------------------------------------------------
(* A node arrives where nothing is.                                        *)
LEMMA ArrivingPlace ==
  ASSUME Trying, NEW s, NEW n, NEW d, NEW name, Goes(n, d, name), Spot(s) = Append(NodePath(d), name),
         s[1] \in {"rename", "copyTo"}
  PROVE  /\ n \in Srcs /\ n \in DOMAIN objs /\ Spot(s) = Image(PathOf(n))
         /\ \A c \in Srcs : Takes(s, c) <=> IsPrefix(PathOf(n), PathOf(c))
         /\ \A c \in Srcs : Takes(s, c) <=> c = n \/ Inner(n, c)
<1>0. Base /\ Apart
  BY TryingFacts
<1>1. n \in Srcs /\ n \in DOMAIN objs /\ Spot(s) = Image(PathOf(n))
  BY DEF Goes, Src, Srcs
<1>2. ASSUME NEW c \in Srcs PROVE Takes(s, c) <=> IsPrefix(PathOf(n), PathOf(c))
  <2>1. Takes(s, c) <=> IsPrefix(Image(PathOf(n)), Image(PathOf(c)))
    BY <1>1 DEF Takes
  <2>2. PICK p, q : p = PathOf(n) /\ q = PathOf(c)
    OBVIOUS
  <2>3. p \in Seq(PathElem) /\ q \in Seq(PathElem) /\ IsPrefix(call.path, p) /\ IsPrefix(call.path, q)
    BY <1>0, <1>1, <2>2, PathNode DEF Srcs, Src
  <2>4. IsPrefix(Image(p), Image(q)) <=> IsPrefix(p, q)
    BY <1>0, <2>3, ImagePrefix
  <2> QED BY <2>1, <2>2, <2>4
<1>3. IsPrefix(PathOf(n), PathOf(n))
  BY <1>0, <1>1, PathNode
<1> QED BY <1>1, <1>2, <1>3 DEF Inner

LEMMA ArrivingTidy ==
  ASSUME Trying, Tells(cache, Off), NEW t \in Seq(GoodSteps), Arriving(t)
  PROVE  reply' = reply /\ (todo' = <<>> \/ Tidy')
<1>0. Going /\ Tidy /\ Base /\ Apart /\ NoTwins(objs) /\ IsStore(objs) /\ faults' # faults - 1 /\ Len(call.path) > 1
  BY TryingFacts
<1>1. PICK node, d, name : /\ todo = Cons(<<"rename", node, d, name>>, t)
                           /\ Goes(node.id, d, name) /\ node.file = objs[node.id].file /\ Ends(PathOf(node.id), t)
  BY DEF Arriving
<1>2. PICK s, n : s = <<"rename", node, d, name>> /\ n = node.id
  OBVIOUS
<1>3. s[1] = "rename" /\ s[2] = node /\ s[3] = d /\ s[4] = name /\ todo = Cons(s, t)
  BY <1>1, <1>2
<1>4. /\ Tail(todo) = t /\ (\A a : At(a) <=> a = s[1]) /\ (\A j : Arg(j) = s[j]) /\ Orderly(Left(Srcs, s), t)
      /\ Makes(s) => ~Occupied(Spot(s))
      /\ \A c \in Srcs : Occupied(Image(PathOf(c))) => Leaving(c, t)
  <2>1. /\ Tail(todo) = t /\ (\A a : At(a) <=> a = s[1]) /\ (\A j : Arg(j) = s[j]) /\ Orderly(Left(Srcs, s), t)
        /\ Makes(s) => ~Occupied(Spot(s))
    BY <1>0, <1>3, TidyCons
  <2>2. \A c \in Srcs : Occupied(Image(PathOf(c))) => (s[1] \in {"remove", "dropOriginal"} /\ s[2] = c) \/ Leaving(c, t)
    BY <1>0, <1>3, TidyCons
  <2> QED BY <1>3, <2>1, <2>2
<1>5. At("rename") /\ ~At("throw")
  BY <1>3, <1>4
<1>6. Arg(2) = node /\ Arg(3) = d /\ Arg(4) = name
  BY <1>3, <1>4
<1>7. Goes(n, d, name) /\ node.file = objs[n].file /\ Ends(PathOf(n), t) /\ n \notin Storages /\ Arg(2).id = n
  BY <1>0, <1>1, <1>2, <1>5, <1>6 DEF Tidy
<1>8. Live(n) /\ n \notin Off
  BY <1>0, <1>7, GoesThere
<1>9. /\ n \in Srcs /\ n \in DOMAIN objs /\ Spot(s) = Image(PathOf(n)) /\ Spot(s) = Append(NodePath(d), name)
      /\ \A c \in Srcs : Takes(s, c) <=> c = n \/ Inner(n, c)
  <2>1. Spot(s) = Append(NodePath(d), name)
    BY <1>3 DEF Spot
  <2> QED BY <1>3, <1>7, <2>1, ArrivingPlace
<1>10. ~Occupied(Spot(s))
  BY <1>3, <1>4 DEF Makes
<1>11. RenameFile \/ RenameFolder
  <2>1. RenameFile \/ RenameFolder \/ Refuse \/ ReadFails
    BY <1>0, <1>5, WhichStep DEF Going
  <2>2. ~Refuse
    BY <1>5, <1>7 DEF Refuse
  <2>3. ~ReadFails
    BY <1>5, <1>7, <1>8, ReadsWell
  <2> QED BY <2>1, <2>2, <2>3
<1>12. CASE RenameFile
  <2>1. PICK a, b : a = <<"fsync", n>> /\ b = <<"copyTo", n, d, name>>
    OBVIOUS
  <2>2. a[1] = "fsync" /\ b[1] = "copyTo" /\ b[3] = d /\ b[4] = name
    BY <2>1
  <2>3. PICK v, w : v = Cons(b, t) /\ w = Cons(a, v)
    OBVIOUS
  <2>4. v \in Seq(GoodSteps \cup {b}) /\ Range(v) = {b} \cup Range(t)
    BY <2>3, ConsOne
  <2>5. w \in Seq(GoodSteps \cup {b} \cup {a}) /\ Range(w) = {a} \cup Range(v)
    <3>1. PICK V : V = GoodSteps \cup {b}
      OBVIOUS
    <3>2. v \in Seq(V)
      BY <2>4, <3>1
    <3>3. w \in Seq(V \cup {a}) /\ Range(w) = {a} \cup Range(v)
      BY <2>3, <3>2, ConsOne
    <3> QED BY <3>1, <3>3
  <2>6. objs' = objs /\ nextId' = nextId /\ reply' = reply /\ cache' = cache /\ todo' = w
    <3>1. <<a, b>> \o t = Cons(a, Cons(b, t))
      BY ConsMore
    <3> QED BY <1>4, <1>6, <1>7, <1>12, <2>1, <2>3, <3>1 DEF RenameFile, NoDeviceChange, device, Goto
  <2>7. Left(Srcs, a) = Srcs /\ Left(Srcs, b) = Left(Srcs, s) /\ Wants(a, Srcs) /\ Wants(b, Srcs) /\ Spot(b) = Spot(s)
    BY <1>3, <2>2 DEF Left, Takes, Wants, Spot
  <2>8. Orderly(Srcs, w)
    <3>1. Orderly(Srcs, v)
      BY <1>4, <2>3, <2>7, OrderCons
    <3> QED BY <2>3, <2>4, <2>7, <3>1, OrderCons
  <2>9. \A x \in Range(w) : Makes(x) => ~Occupied(Spot(x))
    BY <1>10, <2>2, <2>4, <2>5, <2>7, GoodRange DEF Makes
  <2>10. \A c \in Srcs : Occupied(Image(PathOf(c))) => Leaving(c, w)
    BY <1>4, <2>3, <2>4, LeavingCons
  <2>11. ~At("rename")' /\ ~At("sendFile")' /\ ~At("sendFile")
    BY <1>3, <2>2, <2>3, <2>4, <2>6, NextIs, StepIs
  <2>12. \A c \in DOMAIN cache' : c \in DOMAIN cache
    BY <2>6
  <2>13. Tidy'
    BY <2>5, <2>6, <2>8, <2>9, <2>10, <2>11, <2>12, QuietTidy
  <2> QED BY <2>6, <2>13
<1>13. CASE RenameFolder
  <2>1. PICK r \in getItem(n) :
         LET inPlace == FolderId(d) = r.md.parent /\ Head(call.new) = Head(call.path)
             stale   == {d, GetParentNodeId(r.md)}
         IN  \/ /\ inPlace
                /\ DeviceCall(MaySetName(n, name), WithName(n, name), nextId,
                     Goto(<<>>, Drop(r.cache, stale), localFiles),
                     Throw("EIO", r.cache, localFiles))
             \/ /\ ~inPlace /\ NoDeviceChange
                /\ Goto(<< <<"mkdir", d, name>>,
                           <<"getNode", d, <<name>>, <<"destDir", n>> >>,
                           <<"remove", n, FALSE>>,
                           <<"clearItems", stale>> >>, r.cache, localFiles)
    BY <1>6, <1>7, <1>13 DEF RenameFolder
  <2>2. PICK c, K : c = r.cache /\ K = {d, GetParentNodeId(r.md)}
    OBVIOUS
  <2>3. r.md = getMetadata(n) /\ DOMAIN c = DOMAIN cache \cup {n}
    BY <1>8, <2>2, ItemTells
  <2>4. ASSUME FolderId(d) = r.md.parent, Head(call.new) = Head(call.path),
               DeviceCall(MaySetName(n, name), WithName(n, name), nextId,
                     Goto(<<>>, Drop(c, K), localFiles),
                     Throw("EIO", c, localFiles))
        PROVE  reply' = reply /\ todo' = <<>>
    <3>1. ParentNode(n) = d /\ t = <<>>
      BY <1>0, <1>7, <2>3, <2>4, InPlace
    <3>2. MaySetName(n, name)
      <4>1. SUFFICES ASSUME NEW j \in DOMAIN objs, objs[j].parent = objs[n].parent, objs[j].storage = objs[n].storage,
                            objs[j].name = name
                     PROVE  FALSE
        BY <1>9 DEF MaySetName, Inside
      <4>2. ParentNode(j) = d
        BY <3>1, <4>1 DEF ParentNode
      <4>3. NodePath(j) = Append(NodePath(d), name)
        BY <1>0, <4>1, <4>2, ChildPath
      <4>4. PathOf(j) = Spot(s)
        BY <1>0, <1>9, <4>3, PathNode
      <4> QED BY <1>10, <4>4 DEF Occupied
    <3>3. Goto(<<>>, Drop(c, K), localFiles)
      BY <1>0, <2>4, <3>2 DEF DeviceCall
    <3>4. <<>> \o t = t
      BY ConsOne
    <3> QED BY <1>4, <3>1, <3>3, <3>4 DEF Goto
  <2>5. ASSUME NoDeviceChange,
               Goto(<< <<"mkdir", d, name>>,
                       <<"getNode", d, <<name>>, <<"destDir", n>> >>,
                       <<"remove", n, FALSE>>,
                       <<"clearItems", K>> >>, c, localFiles)
        PROVE  reply' = reply /\ Tidy'
    <3>1. PICK m, g, k, h, l, e : /\ m = <<"mkdir", d, name>> /\ e = <<name>> /\ g = <<"getNode", d, e, k>> /\ k = <<"destDir", n>>
                                  /\ h = <<"remove", n, FALSE>> /\ l = <<"clearItems", K>>
      OBVIOUS
    <3>2. PICK t1, t2, t3, w : t1 = Cons(l, t) /\ t2 = Cons(h, t1) /\ t3 = Cons(g, t2) /\ w = Cons(m, t3)
      OBVIOUS
    <3>3. PICK V1, V2, V3, V4 : V1 = GoodSteps \cup {l} /\ V2 = V1 \cup {h} /\ V3 = V2 \cup {g} /\ V4 = V3 \cup {m}
      OBVIOUS
    <3>4. t1 \in Seq(V1) /\ Range(t1) = {l} \cup Range(t)
      BY <3>2, <3>3, ConsOne
    <3>5. t2 \in Seq(V2) /\ Range(t2) = {h} \cup Range(t1)
      <4>1. t2 = Cons(h, t1) /\ t1 \in Seq(V1)
        BY <3>2, <3>4
      <4>2. t2 \in Seq(V1 \cup {h}) /\ Range(t2) = {h} \cup Range(t1)
        BY <4>1, ConsOne
      <4> QED BY <3>3, <4>2
    <3>6. t3 \in Seq(V3) /\ Range(t3) = {g} \cup Range(t2)
      <4>1. t3 = Cons(g, t2) /\ t2 \in Seq(V2)
        BY <3>2, <3>5
      <4>2. t3 \in Seq(V2 \cup {g}) /\ Range(t3) = {g} \cup Range(t2)
        BY <4>1, ConsOne
      <4> QED BY <3>3, <4>2
    <3>7. w \in Seq(V4) /\ Range(w) = {m} \cup Range(t3)
      <4>1. w = Cons(m, t3) /\ t3 \in Seq(V3)
        BY <3>2, <3>6
      <4>2. w \in Seq(V3 \cup {m}) /\ Range(w) = {m} \cup Range(t3)
        BY <4>1, ConsOne
      <4> QED BY <3>3, <4>2
    <3>8. <<m, g, h, l>> \o t = w
      BY <3>2, ConsFour
    <3>9. objs' = objs /\ nextId' = nextId /\ reply' = reply /\ cache' = c /\ todo' = w
      BY <1>4, <2>5, <3>1, <3>8 DEF NoDeviceChange, device, Goto
    <3>10. /\ m[1] = "mkdir" /\ m[2] = d /\ m[3] = name /\ g[1] = "getNode" /\ g[4] = k /\ k[1] = "destDir" /\ k[2] = n
           /\ h[1] = "remove" /\ h[2] = n /\ l[1] = "clearItems"
      BY <3>1
    <3>11. PICK Q, R : Q = Left(Srcs, g) /\ R = Left(Q, h)
      OBVIOUS
    <3>12. /\ \A x : ~Takes(m, x) /\ ~Takes(l, x)
           /\ \A x : Takes(g, x) <=> Inner(n, x)
           /\ \A x : Takes(h, x) <=> x = n
      BY <3>10 DEF Takes
    <3>13. Left(Srcs, m) = Srcs /\ Left(R, l) = R
      BY <3>12 DEF Left
    <3>14. R = Left(Srcs, s)
      <4>1. ASSUME NEW x PROVE x \in R <=> x \in Left(Srcs, s)
        BY <1>9, <3>11, <3>12 DEF Left
      <4> QED BY <4>1
    <3>15. Wants(m, Srcs) /\ Wants(g, Srcs) /\ Wants(l, R)
      BY <1>9, <3>10 DEF Wants
    <3>16. Wants(h, Q)
      <4>1. n \in Q /\ \A x \in Q : ~Inner(n, x)
        BY <1>9, <3>11, <3>12 DEF Left, Inner
      <4> QED BY <3>10, <4>1 DEF Wants
    <3>17. Orderly(R, t1)
      BY <1>4, <3>2, <3>13, <3>14, <3>15, OrderCons
    <3>18. Orderly(Q, t2)
      BY <3>2, <3>4, <3>11, <3>16, <3>17, OrderCons
    <3>19. Orderly(Srcs, t3)
      BY <3>2, <3>5, <3>11, <3>15, <3>18, OrderCons
    <3>20. Orderly(Srcs, w)
      BY <3>2, <3>6, <3>13, <3>15, <3>19, OrderCons
    <3>21. \A x \in Range(w) : Makes(x) => ~Occupied(Spot(x))
      <4>1. Spot(m) = Spot(s)
        BY <1>9, <3>10 DEF Spot
      <4>2. ~Makes(g) /\ ~Makes(h) /\ ~Makes(l)
        BY <3>10 DEF Makes
      <4> QED BY <1>10, <3>4, <3>5, <3>6, <3>7, <4>1, <4>2, GoodRange
    <3>22. \A x \in Srcs : Occupied(Image(PathOf(x))) => Leaving(x, w)
      <4>1. \A x : Leaving(x, t) => Leaving(x, t1)
        BY <3>2, LeavingCons
      <4>2. \A x : Leaving(x, t1) => Leaving(x, t2)
        BY <3>2, <3>4, LeavingCons
      <4>3. \A x : Leaving(x, t2) => Leaving(x, t3)
        BY <3>2, <3>5, LeavingCons
      <4>4. \A x : Leaving(x, t3) => Leaving(x, w)
        BY <3>2, <3>6, LeavingCons
      <4> QED BY <1>4, <4>1, <4>2, <4>3, <4>4
    <3>23. ~At("rename")' /\ ~At("sendFile")' /\ ~At("sendFile")
      BY <1>3, <3>2, <3>6, <3>9, <3>10, NextIs, StepIs
    <3>24. \A x \in DOMAIN cache' : x \in DOMAIN cache \/ Live(x)
      BY <1>8, <2>3, <3>9
    <3>25. Tidy'
      BY <3>7, <3>9, <3>20, <3>21, <3>22, <3>23, <3>24, QuietTidy
    <3> QED BY <3>9, <3>25
  <2> QED BY <2>1, <2>2, <2>4, <2>5
<1> QED BY <1>11, <1>12, <1>13

-----------------------------------------------------------------------------
(* A file is written back, copied to its new place, and dropped.           *)
LEMMA FlushTidy ==
  ASSUME Trying, Tells(cache, Off), NEW t \in Seq(GoodSteps),
         NEW n, NEW d, NEW name, todo = Cons(<<"fsync", n>>, Cons(<<"copyTo", n, d, name>>, t)), Goes(n, d, name)
  PROVE  reply' = reply /\ Tidy'
<1>0. Base /\ Going /\ Apart
  BY TryingFacts
<1>1. PICK s, b, u, V : s = <<"fsync", n>> /\ b = <<"copyTo", n, d, name>> /\ u = Cons(b, t) /\ V = GoodSteps \cup {b}
  OBVIOUS
<1>2. u \in Seq(V) /\ todo = Cons(s, u)
  BY <1>1, ConsOne
<1>3. s[1] = "fsync" /\ s[2] = n
  BY <1>1
<1>4. Tail(todo) = u /\ (\A a : At(a) <=> a = s[1]) /\ \A j : Arg(j) = s[j]
  BY <1>2, StepIs
<1>5. At("fsync") /\ ~At("rename") /\ Arg(2) = n
  BY <1>3, <1>4
<1>6. Live(n) /\ n \notin Off
  BY <1>0, GoesThere
<1>7. Fsync
  BY <1>0, <1>5, <1>6, WhichStep, ReadsWell DEF Going
<1>8. PICK r \in getItem(n) : Goto(<< <<"closeFile", n, {GetParentNodeId(r.md)}>> >>, Drop(r.cache, {n}), localFiles)
  BY <1>5, <1>7 DEF Fsync
<1>9. PICK m, c : m = <<"closeFile", n, {GetParentNodeId(r.md)}>> /\ c = Drop(r.cache, {n})
  OBVIOUS
<1>10. objs' = objs /\ nextId' = nextId /\ reply' = reply /\ cache' = c /\ todo' = Cons(m, u)
  <2>1. <<m>> \o u = Cons(m, u)
    BY <1>2, ConsOne
  <2> QED BY <1>4, <1>7, <1>8, <1>9, <2>1 DEF Fsync, NoDeviceChange, device, Goto
<1>11. \A k \in DOMAIN cache' : k \in DOMAIN cache \/ Live(k)
  <2>1. PICK K : K = Off
    OBVIOUS
  <2>2. DOMAIN r.cache \subseteq DOMAIN cache \cup {n}
    BY <1>6, <2>1, ItemKeeps
  <2> QED BY <1>6, <1>9, <1>10, <2>2 DEF Drop
<1>12. m[1] = "closeFile"
  BY <1>9
<1>13. Left(Srcs, m) = Left(Srcs, s) /\ Wants(m, Srcs) /\ ~Makes(m)
  BY <1>3, <1>12 DEF Left, Takes, Wants, Makes
<1>14. m[1] # "sendFile" /\ m[1] # "rename" /\ s[1] # "sendFile" /\ s[1] \notin {"remove", "dropOriginal"}
  BY <1>3, <1>12
<1>15. Tidy'
  BY <1>2, <1>10, <1>11, <1>13, <1>14, TidyNext
<1> QED BY <1>10, <1>15

LEMMA CloseTidy ==
  ASSUME Trying, NEW t \in Seq(GoodSteps), CloseFile,
         NEW n, NEW d, NEW name, NEW K, todo = Cons(<<"closeFile", n, K>>, Cons(<<"copyTo", n, d, name>>, t))
  PROVE  reply' = reply /\ Tidy'
<1>1. PICK s, b, u, V : s = <<"closeFile", n, K>> /\ b = <<"copyTo", n, d, name>> /\ u = Cons(b, t) /\ V = GoodSteps \cup {b}
  OBVIOUS
<1>2. u \in Seq(V) /\ todo = Cons(s, u)
  BY <1>1, ConsOne
<1>3. s[1] = "closeFile" /\ b[1] = "copyTo"
  BY <1>1
<1>4. Tail(todo) = u
  BY <1>2, StepIs
<1>5. objs' = objs /\ nextId' = nextId /\ reply' = reply /\ cache' = Drop(cache, Arg(3)) /\ todo' = u
  <2>1. <<>> \o u = u
    BY <1>2, ConsOne
  <2> QED BY <1>4, <2>1 DEF CloseFile, NoDeviceChange, device, Goto
<1>6. \A m \in DOMAIN cache' : m \in DOMAIN cache
  BY <1>5 DEF Drop
<1>7. \A c : ~Takes(s, c)
  BY <1>3 DEF Takes
<1>8. ~At("rename")' /\ ~At("sendFile")'
  <2>1. \A a : At(a)' <=> a = "copyTo"
    BY <1>1, <1>3, <1>5, NextIs
  <2> QED BY <2>1
<1>9. s[1] \notin {"remove", "dropOriginal"} /\ s[1] # "sendFile"
  BY <1>3
<1>10. Tidy'
  BY <1>2, <1>5, <1>6, <1>7, <1>8, <1>9, TidyTail
<1> QED BY <1>5, <1>10

-----------------------------------------------------------------------------
(* Where nothing is, the device takes a new object.                        *)
LEMMA MayAddThere ==
  ASSUME Trying, ~AcceptsDuplicates, Parts(View, {}), NEW t \in Seq(GoodSteps), NEW n, NEW d, NEW name, Goes(n, d, name),
         Ends(PathOf(n), t), ~Occupied(Image(PathOf(n))), ~At("sendFile"),
         NEW x, x.parent = FolderId(d), x.storage = Head(call.new), x.name = name
  PROVE  MayAdd(x)
<1>0. Going /\ Base /\ NoTwins(objs) /\ Apart /\ Past /\ IsStore(objs) /\ Roomy
  BY TryingFacts
<1>1. PICK w, p, q : w = PathOf(n) /\ p = Image(w) /\ q = call.new
  OBVIOUS
<1>2. /\ w \in Seq(PathElem) /\ IsPrefix(call.path, w) /\ IsFolderNode(d) /\ Live(d) /\ n \in DOMAIN objs
      /\ name \in Names /\ name \in PathElem /\ Append(NodePath(d), name) = p /\ NodePath(d) \in Seq(PathElem)
  BY <1>0, <1>1, GoesThere, NodePathType DEF Goes, Src, PathElem
<1>3. FolderFor(x) = d
  BY <1>0, NewThere
<1>4. nextId \in ObjIds
  <2>1. PICK v : v = Item(n)
    OBVIOUS
  <2>2. v \in Due
    <3>1. v \in pre.view /\ Below(v, call.path)
      BY <1>0, <2>1, SourceWas DEF Goes
    <3>2. v.path = w
      BY <1>1, <2>1 DEF Item
    <3> QED BY <1>1, <3>1, <3>2 DEF Due, Occupied
  <2>3. IsFiniteSet(Due) /\ Cardinality(Due) \in Nat /\ Cardinality(Unsent) \in Nat /\ nextId \in Nat /\ MaxId \in Nat
    BY <1>0, RoomSets
  <2>4. Cardinality(Due) # 0
    BY <2>2, <2>3, FS_EmptySet
  <2>5. PICK a \in Nat, b \in Nat, M \in Nat, N \in Nat : a = Cardinality(Due) /\ b = Cardinality(Unsent) /\ M = MaxId /\ N = nextId
    BY <2>3
  <2>6. N + a + b + 0 <= M + 1
    BY <1>0, <2>5 DEF Roomy, Taken
  <2>7. a # 0 /\ N # 0
    BY <1>0, <2>4, <2>5, BaseFacts DEF DeviceTypeOK
  <2>8. N \in 1 .. M
    BY <2>6, <2>7
  <2> QED BY <2>5, <2>8 DEF ObjIds
<1>5. p[1] = Head(q) /\ p \in Seq(PathElem) /\ Len(p) > 0
  <2>1. p \in Seq(PathElem) /\ IsPrefix(q, p) /\ q \in Seq(PathElem) /\ Len(q) > 1
    BY <1>0, <1>1, <1>2, ImageParts DEF Apart
  <2>2. Len(q) <= Len(p) /\ Len(q) \in Nat /\ Len(p) \in Nat /\ \A k \in 1 .. Len(q) : q[k] = p[k]
    BY <2>1, PrefixPointwise
  <2>3. 1 \in 1 .. Len(q) /\ Len(p) > 0
    BY <2>1, <2>2
  <2> QED BY <2>1, <2>2, <2>3
<1>6. x.parent = 0 \/ (x.parent \in DOMAIN objs /\ ~objs[x.parent].file /\ objs[x.parent].storage = x.storage)
  <2>1. CASE d \in Storages
    BY <2>1 DEF FolderId
  <2>2. CASE d \notin Storages
    <3>1. x.parent = d /\ d \in DOMAIN objs /\ ~objs[d].file
      BY <1>2, <2>2 DEF FolderId, IsFolderNode
    <3>2. PICK z : z = NodePath(d)
      OBVIOUS
    <3>3. z = PathOf(d) /\ z[1] = objs[d].storage /\ Len(z) > 1 /\ Len(z) \in Nat /\ z \in Seq(PathElem)
      BY <1>0, <3>1, <3>2, PathLen, NodePathType DEF Live, PathOf
    <3>4. Append(z, name)[1] = z[1]
      <4>1. 1 \in 1 .. Len(z)
        BY <3>3
      <4> QED BY <1>2, <3>3, <4>1, AppendProperties
    <3> QED BY <1>1, <1>2, <1>5, <3>1, <3>2, <3>3, <3>4
  <2> QED BY <2>1, <2>2
<1>7. \A i \in Inside(x.parent, x.storage) : objs[i].name # x.name
  <2>1. SUFFICES ASSUME NEW i \in DOMAIN objs, objs[i].parent = x.parent, objs[i].storage = x.storage, objs[i].name = name
                 PROVE  FALSE
    BY DEF Inside
  <2>2. ParentNode(i) = d
    BY <1>3, <2>1 DEF ParentNode, FolderFor
  <2>3. NodePath(i) = p
    BY <1>0, <1>2, <2>1, <2>2, ChildPath
  <2>4. PathOf(i) = p
    BY <1>0, <2>3, PathNode
  <2> QED BY <1>1, <2>4 DEF Occupied
<1> QED BY <1>4, <1>6, <1>7 DEF MayAdd

(* An image is made, of a node that is on its way out.                     *)
LEMMA MadeTidy ==
  ASSUME Trying, Parts(View, {}), ~At("sendFile"), ~At("sendFile")', ~At("rename")',
         NEW n, Src(n), ~Occupied(Image(PathOf(n))), NEW x, Adds(x), PathFor(x) = Image(PathOf(n)),
         nextId \notin DOMAIN localFiles', \A m \in DOMAIN cache' : m \in DOMAIN cache \/ Live(m),
         NEW U, NEW w \in Seq(U), todo' = w, Orderly(Srcs, w), \A a \in Range(w) : ~Makes(a),
         \A c \in Srcs : Occupied(Image(PathOf(c))) => Leaving(c, w), Leaving(n, w)
  PROVE  Tidy'
<1>0. /\ Going /\ Base /\ Base' /\ NoTwins(objs) /\ Apart /\ Past /\ Past' /\ IsStore(objs) /\ Roomy
      /\ call' = call /\ pre' = pre /\ \A i : Waits(i)' => Waits(i)
  BY TryingFacts
<1>1. PICK G, k, p, v : G = {} /\ k = nextId /\ p = Image(PathOf(n)) /\ v = Item(n)
  OBVIOUS
<1>2. Keeps(G) /\ PathOf(k)' = p /\ k \in DOMAIN objs'
  <2>1. /\ Keeps({})
        /\ \A j : j = nextId => PathOf(j)' = PathFor(x) /\ j \in DOMAIN objs' /\ objs'[j] = x
    BY <1>0, AddKeeps
  <2> QED BY <1>1, <2>1
<1>3. n \in DOMAIN objs /\ PathOf(n) \in Seq(PathElem) /\ IsPrefix(call.path, PathOf(n))
  BY <1>0, PathNode DEF Src
<1>4. ~IsPrefix(call.path, PathOf(k)')
  <2>1. p \in Seq(PathElem) /\ IsPrefix(call.new, p)
    BY <1>0, <1>1, <1>3, ImageParts
  <2> QED BY <1>0, <1>2, <2>1, ImageApart
<1>5. ASSUME NEW c \in Srcs, PathOf(k)' = Image(PathOf(c)) PROVE c = n
  <2>1. PICK a, b : a = PathOf(c) /\ b = PathOf(n)
    OBVIOUS
  <2>2. c \in DOMAIN objs /\ a \in Seq(PathElem) /\ IsPrefix(call.path, a)
    BY <1>0, <2>1, PathNode DEF Srcs, Src
  <2>3. Image(a) = Image(b) /\ b \in Seq(PathElem) /\ IsPrefix(call.path, b)
    BY <1>1, <1>2, <1>3, <1>5, <2>1
  <2>4. a = b
    BY <1>0, <2>2, <2>3, ImageDiffers
  <2> QED BY <1>0, <1>3, <2>1, <2>2, <2>4, PathsUnique DEF PathOf
<1>6. Roomy'
  <2>1. v \in Due
    <3>1. v \in pre.view /\ Below(v, call.path)
      BY <1>0, <1>1, SourceWas
    <3>2. v.path = PathOf(n)
      BY <1>1 DEF Item
    <3> QED BY <3>1, <3>2 DEF Due, Occupied
  <2>2. v \notin Due'
    <3>1. \A s : Image(s)' = Image(s)
      BY <1>0, PartsAfter
    <3>2. PICK z : z = v.path /\ Image(z) = p
      BY <1>1 DEF Item
    <3>3. Image(z)' = p
      BY <3>1, <3>2
    <3>4. Image(v.path)' = p
      BY <3>2, <3>3 DEF Image
    <3> QED BY <1>2, <3>4 DEF Due
  <2>3. nextId' = nextId + 1
    BY DEF Adds
  <2>4. \A z \in Due \ Due' : nextId' = nextId + 1 /\ ~At("sendFile") /\ ~At("sendFile")' => Roomy'
    BY <1>0, <1>2, RoomOn
  <2> QED BY <2>1, <2>2, <2>3, <2>4
<1>7. Srcs \ G = Srcs
  BY <1>1
<1>8. Orderly(Srcs \ G, w)
  BY <1>7
<1>9. \A a \in Range(w) : Makes(a) => Spot(a)' = Spot(a) /\ ~Occupied(Spot(a))'
  OBVIOUS
<1>10. \A c \in Srcs \ G : Occupied(Image(PathOf(c))) \/ (k \in DOMAIN objs' /\ PathOf(k)' = Image(PathOf(c))) => Leaving(c, w)
  BY <1>5, <1>7
<1>11. k \in DOMAIN objs' => ~IsPrefix(call.path, PathOf(k)')
  BY <1>4
<1> QED BY <1>0, <1>1, <1>2, <1>6, <1>8, <1>9, <1>10, <1>11, TidyOn

LEMMA CopyTidy ==
  ASSUME Trying, ~AcceptsDuplicates, Parts(View, {}), Tells(cache, Off), NEW t \in Seq(GoodSteps),
         NEW n, NEW d, NEW name, todo = Cons(<<"copyTo", n, d, name>>, t), Goes(n, d, name), objs[n].file, Ends(PathOf(n), t)
  PROVE  reply' = reply /\ Tidy'
<1>0. Base /\ NoTwins(objs) /\ Apart /\ Going /\ Tidy /\ IsStore(objs) /\ WellFormed(call) /\ faults' # faults - 1
  BY TryingFacts, GoingFacts
<1>1. PICK s : s = <<"copyTo", n, d, name>>
  OBVIOUS
<1>2. s[1] = "copyTo" /\ s[2] = n /\ s[3] = d /\ s[4] = name /\ todo = Cons(s, t)
  BY <1>1
<1>3. /\ Tail(todo) = t /\ (\A a : At(a) <=> a = s[1]) /\ (\A j : Arg(j) = s[j]) /\ Orderly(Left(Srcs, s), t)
      /\ Makes(s) => ~Occupied(Spot(s))
      /\ \A c \in Srcs : Occupied(Image(PathOf(c))) => Leaving(c, t)
  <2>1. /\ Tail(todo) = t /\ (\A a : At(a) <=> a = s[1]) /\ (\A j : Arg(j) = s[j]) /\ Orderly(Left(Srcs, s), t)
        /\ Makes(s) => ~Occupied(Spot(s))
    BY <1>0, <1>2, TidyCons
  <2>2. \A c \in Srcs : Occupied(Image(PathOf(c))) => (s[1] \in {"remove", "dropOriginal"} /\ s[2] = c) \/ Leaving(c, t)
    BY <1>0, <1>2, TidyCons
  <2> QED BY <1>2, <2>1, <2>2
<1>4. At("copyTo") /\ ~At("rename") /\ ~At("sendFile") /\ Arg(2) = n /\ Arg(3) = d /\ Arg(4) = name
  <2>1. At("copyTo") /\ ~At("rename") /\ ~At("sendFile")
    BY <1>2, <1>3
  <2> QED BY <1>2, <1>3, <2>1
<1>5. /\ n \in DOMAIN objs /\ Live(n) /\ d \in NodeIds /\ name \in Names /\ n \notin Off /\ Src(n) /\ n \in Srcs
  <2>1. n \in Srcs
    BY DEF Goes, Srcs, Src
  <2> QED BY <1>0, <2>1, GoesThere DEF Goes, Off
<1>6. CopyTo
  BY <1>0, <1>4, <1>5, WhichStep, ReadsWell DEF Going
<1>7. /\ Spot(s) = Image(PathOf(n)) /\ \A c \in Srcs : Takes(s, c) <=> c = n \/ Inner(n, c)
  <2>1. Spot(s) = Append(NodePath(d), name)
    BY <1>2 DEF Spot
  <2> QED BY <1>2, <2>1, ArrivingPlace
<1>8. ~Occupied(Image(PathOf(n)))
  BY <1>2, <1>3, <1>7 DEF Makes
<1>9. PICK r \in getItem(n), files \in openFile(n) :
       LET new == NewObject(d, name, TRUE, files[n].data)
       IN  DeviceCall(MayAdd(new), WithObject(new), nextId + 1,
                Goto(<< <<"dropOriginal", n, GetParentNodeId(r.md)>> >>,
                     Drop(r.cache, {n, nextId}), files),
                Throw("EIO", r.cache, files))
  BY <1>4, <1>6 DEF CopyTo
<1>10. PICK x, c, a : /\ x = NewObject(d, name, TRUE, files[n].data) /\ c = Drop(r.cache, {n, nextId})
                      /\ a = <<"dropOriginal", n, GetParentNodeId(r.md)>>
  OBVIOUS
<1>11. files[n].data \in Data /\ DOMAIN files = DOMAIN localFiles \cup {n}
  BY <1>0, OpenContents
<1>12. x \in Object /\ x.file = TRUE /\ x.parent = FolderId(d) /\ x.storage = Head(call.new) /\ x.name = name
  <2>1. x \in Object
    BY <1>0, <1>5, <1>10, <1>11, NewObjectType
  <2> QED BY <1>10, <2>1 DEF NewObject
<1>13. PathFor(x) = Image(PathOf(n)) /\ MayAdd(x)
  BY <1>0, <1>4, <1>8, <1>12, NewThere, MayAddThere
<1>14. Adds(x) /\ Goto(<<a>>, c, files)
  BY <1>0, <1>9, <1>10, <1>12, <1>13 DEF DeviceCall, device, Adds
<1>15. todo' = Cons(a, t) /\ reply' = reply /\ localFiles' = files /\ cache' = c
  <2>1. <<a>> \o t = Cons(a, t)
    BY ConsOne
  <2> QED BY <1>3, <1>14, <2>1 DEF Goto
<1>16. \A m \in DOMAIN cache' : m \in DOMAIN cache \/ Live(m)
  <2>1. PICK K : K = Off
    OBVIOUS
  <2>2. DOMAIN r.cache \subseteq DOMAIN cache \cup {n}
    BY <1>5, <2>1, ItemKeeps
  <2> QED BY <1>5, <1>10, <1>15, <2>2 DEF Drop
<1>17. nextId \notin DOMAIN localFiles'
  BY <1>0, <1>5, <1>11, <1>15, BaseFacts
<1>18. a[1] = "dropOriginal" /\ a[2] = n
  BY <1>10
<1>19. PICK w : w = Cons(a, t)
  OBVIOUS
<1>20. w \in Seq(GoodSteps \cup {a}) /\ Range(w) = {a} \cup Range(t)
  BY <1>19, ConsOne
<1>21. ~At("sendFile")' /\ ~At("rename")'
  <2>1. \A z : At(z)' <=> z = a[1]
    BY <1>15, NextIs
  <2> QED BY <1>18, <2>1
<1>22. \A b \in Range(w) : ~Makes(b)
  <2>1. ~Makes(a)
    BY <1>18 DEF Makes
  <2> QED BY <1>20, <2>1, GoodRange
<1>23. /\ \A b \in Srcs : Occupied(Image(PathOf(b))) => Leaving(b, w)
       /\ Leaving(n, w)
  BY <1>3, <1>18, <1>19, LeavingCons
<1>24. Orderly(Srcs, w)
  <2>1. Left(Srcs, a) = Left(Srcs, s)
    <3>1. ASSUME NEW b \in Srcs, Inner(n, b) PROVE FALSE
      <4>1. b \in DOMAIN objs
        BY DEF Srcs
      <4>2. PICK i \in DOMAIN objs : ParentNode(i) = n
        BY <1>0, <1>5, <3>1, <4>1, InnerDown
      <4>3. IsFolderNode(n)
        BY <1>0, <4>2, ChildPath
      <4>4. n \notin Storages
        BY <1>0, <1>5, NodePathType
      <4> QED BY <4>3, <4>4 DEF IsFolderNode
    <3>2. \A b : Takes(a, b) <=> b = n
      BY <1>18 DEF Takes
    <3>3. \A b \in Srcs : Takes(a, b) <=> Takes(s, b)
      BY <1>7, <3>1, <3>2
    <3> QED BY <3>3 DEF Left
  <2>2. Wants(a, Srcs)
    BY <1>18 DEF Wants
  <2> QED BY <1>3, <1>19, <2>1, <2>2, OrderCons
<1>25. Tidy'
  <2>1. todo' = w
    BY <1>15, <1>19
  <2> QED BY <1>4, <1>5, <1>8, <1>13, <1>14, <1>16, <1>17, <1>20, <1>21, <1>22, <1>23, <1>24, <2>1, MadeTidy
<1> QED BY <1>15, <1>25

-----------------------------------------------------------------------------
LEMMA DeleteTidy ==
  ASSUME Trying, NEW t \in Seq(GoodSteps), DeleteOld,
         NEW n, NEW d, NEW name, NEW K, todo = Cons(<<"closeFile", n, K>>, Cons(<<"copyTo", n, d, name>>, t)),
         n \notin DOMAIN cache, Goes(n, d, name), objs[n].file
  PROVE  reply' = reply /\ Tidy'
<1>0. /\ Base /\ Base' /\ NoTwins(objs) /\ Apart /\ Past /\ Past' /\ Roomy /\ Going /\ call' = call /\ pre' = pre
      /\ IsStore(objs) /\ faults' # faults - 1 /\ Tidy /\ \A i : Waits(i)' => Waits(i)
  BY TryingFacts, GoingFacts
<1>1. PICK s, b, u, V : /\ s = <<"closeFile", n, K>> /\ b = <<"copyTo", n, d, name>> /\ u = Cons(b, t) /\ V = GoodSteps \cup {b}
  OBVIOUS
<1>2. u \in Seq(V) /\ todo = Cons(s, u) /\ Range(u) = {b} \cup Range(t)
  BY <1>1, ConsOne
<1>3. s[1] = "closeFile" /\ s[2] = n /\ s[3] = K /\ b[1] = "copyTo" /\ b[2] = n /\ b[3] = d /\ b[4] = name
  BY <1>1
<1>4. /\ Tail(todo) = u /\ (\A a : At(a) <=> a = s[1]) /\ (\A j : Arg(j) = s[j]) /\ Orderly(Left(Srcs, s), u)
      /\ \A a \in Range(u) : Makes(a) => ~Occupied(Spot(a))
  BY <1>0, <1>2, TidyCons
<1>5. \A c \in Srcs : Occupied(Image(PathOf(c))) => Leaving(c, u)
  <2>1. \A c \in Srcs : Occupied(Image(PathOf(c))) => (s[1] \in {"remove", "dropOriginal"} /\ s[2] = c) \/ Leaving(c, u)
    BY <1>0, <1>2, TidyCons
  <2> QED BY <1>3, <2>1
<1>6. ~At("sendFile") /\ Arg(2) = n /\ Arg(3) = K
  <2>1. ~At("sendFile")
    BY <1>3, <1>4
  <2> QED BY <1>3, <1>4, <2>1
<1>7. PICK x, files, k, G : /\ x = [objs[n] EXCEPT !.data = localFiles[n].data] /\ files = [localFiles EXCEPT ![n].dirty = FALSE]
                            /\ k = nextId /\ G = {n}
  OBVIOUS
<1>8. /\ n \in DOMAIN localFiles /\ localFiles[n].dirty
      /\ DeviceCall(n \in DOMAIN objs, WithoutObject(n), nextId,
               Goto(<< <<"sendFile", n, K, x>> >>, cache, files),
               Throw("EIO", cache, Broken(n)))
  BY <1>6, <1>7 DEF DeleteOld
<1>9. /\ n \in DOMAIN objs /\ Src(n) /\ n \in Srcs /\ n \in DOMAIN objs \cap DOMAIN localFiles /\ Live(d) /\ n # d
      /\ localFiles[n] \in Copy /\ Subtree(objs, n) = {n} /\ ~localFiles[n].broken
  <2>1. n \in DOMAIN objs /\ Src(n) /\ n \in Srcs
    BY DEF Goes, Src, Srcs
  <2> QED BY <1>0, <1>8, <2>1, CopiedIsFile, NothingInAFile, GoesThere DEF Going, Whole
<1>10. Removes(n) /\ Goto(<< <<"sendFile", n, K, x>> >>, cache, files)
  BY <1>0, <1>8, <1>9 DEF DeviceCall, device, Removes
<1>11. PICK m, w : m = <<"sendFile", n, K, x>> /\ w = Cons(m, u)
  OBVIOUS
<1>12. m[1] = "sendFile" /\ m[4] = x
  BY <1>11
<1>13. todo' = w /\ reply' = reply /\ localFiles' = files /\ cache' = cache /\ w \in Seq(V \cup {m}) /\ Range(w) = {m} \cup Range(u)
  <2>1. <<m>> \o u = Cons(m, u) /\ w \in Seq(V \cup {m}) /\ Range(w) = {m} \cup Range(u)
    BY <1>2, <1>11, ConsOne
  <2> QED BY <1>4, <1>10, <1>11, <2>1 DEF Goto
<1>14. ~At("rename")' /\ Arg(4)' = x
  <2>1. (\A a : At(a)' <=> a = m[1]) /\ \A j : Arg(j)' = m[j]
    BY <1>2, <1>11, <1>13, NextIs
  <2>2. ~At("rename")'
    BY <1>12, <2>1
  <2> QED BY <1>12, <2>1, <2>2
<1>15. Keeps(G) /\ k \notin DOMAIN objs'
  <2>1. n \notin DOMAIN cache' /\ \A j \in DOMAIN cache' : j \in DOMAIN cache \/ Live(j)
    BY <1>13
  <2>2. Keeps({n})
    BY <1>0, <1>9, <1>10, <2>1, RemoveKeeps
  <2>3. k \notin DOMAIN objs
    BY <1>0, <1>7, BaseFacts
  <2>4. k \notin DOMAIN objs'
    BY <1>10, <2>3 DEF Removes, WithoutObject, Drop
  <2> QED BY <1>7, <2>2, <2>4
<1>16. Roomy' /\ nextId \in ObjIds
  <2>1. DOMAIN files = DOMAIN localFiles /\ files[n].dirty = FALSE
    BY <1>7, <1>8, <1>9 DEF Copy
  <2>2. nextId \notin DOMAIN localFiles' /\ nextId' = nextId
    <3>1. nextId \notin DOMAIN localFiles
      BY <1>0 DEF Base, CopiesInv, Issued, TypeOK, DeviceTypeOK
    <3> QED BY <1>10, <1>13, <2>1, <3>1 DEF Removes
  <2>3. n \in Unsent \ Unsent'
    BY <1>8, <1>9, <1>13, <2>1 DEF Unsent, Waits
  <2>4. \A i \in Unsent \ Unsent' : nextId' = nextId /\ ~At("sendFile") => Roomy' /\ nextId \in ObjIds
    BY <1>0, <1>15, <2>2, RoomOn
  <2> QED BY <1>6, <2>2, <2>3, <2>4
<1>17. MayAdd(Arg(4))'
  <2>1. MayAdd(x)'
    BY <1>0, <1>7, <1>9, <1>10, <1>16, SentAgain
  <2> QED BY <1>14, <2>1 DEF MayAdd, Inside
<1>18. \A c \in Srcs : Takes(b, c) <=> c = n \/ Inner(n, c)
  <2>1. Spot(b) = Append(NodePath(d), name)
    BY <1>3 DEF Spot
  <2> QED BY <1>3, <2>1, ArrivingPlace
<1>19. Orderly(Srcs \ G, w)
  <2>1. PICK P : P = Srcs \ G
    OBVIOUS
  <2>2. Left(Srcs, s) = Srcs /\ Left(P, m) = P
    BY <1>3, <1>12 DEF Left, Takes
  <2>3. Left(P, b) = Left(Srcs, b)
    BY <1>7, <1>18, <2>1 DEF Left
  <2>4. Wants(b, P) /\ Wants(m, P)
    BY <1>3, <1>12 DEF Wants
  <2>5. Orderly(Left(Srcs, b), t)
    <3>1. Orderly(Srcs, Cons(b, t))
      BY <1>1, <1>4, <2>2
    <3> QED BY <3>1, OrderCons
  <2>6. Orderly(P, u)
    BY <1>1, <2>3, <2>4, <2>5, OrderCons
  <2>7. Orderly(P, w)
    BY <1>2, <1>11, <2>2, <2>4, <2>6, OrderCons
  <2> QED BY <2>1, <2>7
<1>20. \A a \in Range(w) : Makes(a) => Spot(a)' = Spot(a) /\ ~Occupied(Spot(a))'
  <2>1. ~Makes(m)
    BY <1>12 DEF Makes
  <2>2. \A a \in Range(t) : ~Makes(a)
    BY GoodRange
  <2>3. NodePath(d)' = NodePath(d)
    BY <1>7, <1>9, <1>15, NodeOn
  <2>4. Spot(b)' = Spot(b)
    BY <1>3, <2>3 DEF Spot
  <2>5. ~Occupied(Spot(b))
    BY <1>2, <1>3, <1>4 DEF Makes
  <2>6. ~Occupied(Spot(b))'
    <3>1. PICK p : p = Spot(b)
      OBVIOUS
    <3>2. ~Occupied(p)'
      BY <1>7, <1>15, <2>5, <3>1, OccupiedOn
    <3> QED BY <2>4, <3>1, <3>2 DEF Occupied
  <2> QED BY <1>2, <1>13, <2>1, <2>2, <2>4, <2>6
<1>21. \A c \in Srcs \ G : Occupied(Image(PathOf(c))) \/ (k \in DOMAIN objs' /\ PathOf(k)' = Image(PathOf(c))) => Leaving(c, w)
  BY <1>2, <1>5, <1>11, <1>15, LeavingCons
<1>22. k \in DOMAIN objs' => ~IsPrefix(call.path, PathOf(k)')
  BY <1>15
<1>23. Tidy'
  BY <1>0, <1>7, <1>13, <1>14, <1>15, <1>16, <1>17, <1>19, <1>20, <1>21, <1>22, TidyOn
<1> QED BY <1>13, <1>23

LEMMA FlushingTidy ==
  ASSUME Trying, ~AcceptsDuplicates, Parts(View, {}), Tells(cache, Off), NEW t \in Seq(GoodSteps), Flushing(t)
  PROVE  reply' = reply /\ Tidy'
<1>1. PICK n, d, name :
        /\ \/ todo = Cons(<<"fsync", n>>, Cons(<<"copyTo", n, d, name>>, t))
           \/ n \notin DOMAIN cache /\ todo = Cons(<<"closeFile", n, {ParentNode(n)}>>, Cons(<<"copyTo", n, d, name>>, t))
           \/ Clean(n) /\ todo = Cons(<<"copyTo", n, d, name>>, t)
        /\ Goes(n, d, name) /\ objs[n].file /\ Ends(PathOf(n), t)
  BY DEF Flushing
<1>2. CASE todo = Cons(<<"fsync", n>>, Cons(<<"copyTo", n, d, name>>, t))
  BY <1>1, <1>2, FlushTidy
<1>3. CASE Clean(n) /\ todo = Cons(<<"copyTo", n, d, name>>, t)
  BY <1>1, <1>3, CopyTidy
<1>4. CASE n \notin DOMAIN cache /\ todo = Cons(<<"closeFile", n, {ParentNode(n)}>>, Cons(<<"copyTo", n, d, name>>, t))
  <2>1. PICK s, b, u, K : s = <<"closeFile", n, K>> /\ b = <<"copyTo", n, d, name>> /\ u = Cons(b, t) /\ K = {ParentNode(n)}
    OBVIOUS
  <2>2. u \in Seq(GoodSteps \cup {b}) /\ todo = Cons(s, u)
    BY <1>4, <2>1, ConsOne
  <2>3. \A a : At(a) <=> a = s[1]
    BY <2>2, StepIs
  <2>4. s[1] = "closeFile"
    BY <2>1
  <2>5. Going
    BY TryingFacts
  <2>6. CloseFile \/ DeleteOld
    BY <2>3, <2>4, <2>5, WhichStep DEF Going
  <2>7. todo = Cons(<<"closeFile", n, K>>, Cons(<<"copyTo", n, d, name>>, t))
    BY <2>1, <2>2
  <2> QED BY <1>1, <1>4, <2>6, <2>7, CloseTidy, DeleteTidy
<1> QED BY <1>1, <1>2, <1>3, <1>4

-----------------------------------------------------------------------------
(* A folder is made where nothing is, and entered.                         *)
LEMMA MakingTidy ==
  ASSUME Trying, ~AcceptsDuplicates, Parts(View, {}), NEW t \in Seq(GoodSteps), Making(t)
  PROVE  reply' = reply /\ Tidy'
<1>0. Base /\ NoTwins(objs) /\ Apart /\ Going /\ Tidy /\ IsStore(objs) /\ WellFormed(call) /\ faults' # faults - 1
  BY TryingFacts, GoingFacts
<1>1. PICK n, d, name, K :
        /\ todo = Cons(<<"mkdir", d, name>>, Cons(<<"getNode", d, <<name>>, <<"destDir", n>> >>,
                       Cons(<<"remove", n, FALSE>>, Cons(<<"clearItems", K>>, t))))
        /\ Goes(n, d, name) /\ ~objs[n].file /\ Ends(PathOf(n), t)
  BY DEF Making
<1>2. PICK s, g, r, q, u, v, w, k :
        /\ s = <<"mkdir", d, name>> /\ g = <<"getNode", d, <<name>>, k>> /\ k = <<"destDir", n>> /\ r = <<"remove", n, FALSE>>
        /\ q = <<"clearItems", K>> /\ w = Cons(q, t) /\ v = Cons(r, w) /\ u = Cons(g, v)
  OBVIOUS
<1>3. PICK U : U = GoodSteps \cup {g, r, q}
  OBVIOUS
<1>4. /\ w \in Seq(U) /\ v \in Seq(U) /\ u \in Seq(U)
      /\ Range(w) = {q} \cup Range(t) /\ Range(v) = {r} \cup Range(w) /\ Range(u) = {g} \cup Range(v)
  <2>1. t \in Seq(U) /\ g \in U /\ r \in U /\ q \in U
    BY <1>3, SeqMonotonic
  <2>2. w \in Seq(U) /\ Range(w) = {q} \cup Range(t)
    BY <1>2, <2>1, ConsOne
  <2>3. v \in Seq(U) /\ Range(v) = {r} \cup Range(w)
    <3>1. v = Cons(r, w) /\ w \in Seq(U) /\ r \in U
      BY <1>2, <2>1, <2>2
    <3> QED BY <3>1, ConsOne
  <2>4. u \in Seq(U) /\ Range(u) = {g} \cup Range(v)
    <3>1. u = Cons(g, v) /\ v \in Seq(U) /\ g \in U
      BY <1>2, <2>1, <2>3
    <3> QED BY <3>1, ConsOne
  <2> QED BY <2>2, <2>3, <2>4
<1>5. /\ s[1] = "mkdir" /\ s[2] = d /\ s[3] = name /\ g[1] = "getNode" /\ r[1] = "remove" /\ r[2] = n /\ q[1] = "clearItems"
      /\ todo = Cons(s, u)
  BY <1>1, <1>2
<1>6. /\ Tail(todo) = u /\ (\A a : At(a) <=> a = s[1]) /\ (\A j : Arg(j) = s[j]) /\ Orderly(Left(Srcs, s), u)
      /\ Makes(s) => ~Occupied(Spot(s))
      /\ \A c \in Srcs : Occupied(Image(PathOf(c))) => Leaving(c, u)
  <2>1. /\ Tail(todo) = u /\ (\A a : At(a) <=> a = s[1]) /\ (\A j : Arg(j) = s[j]) /\ Orderly(Left(Srcs, s), u)
        /\ Makes(s) => ~Occupied(Spot(s))
    BY <1>0, <1>4, <1>5, TidyCons
  <2>2. \A c \in Srcs : Occupied(Image(PathOf(c))) => (s[1] \in {"remove", "dropOriginal"} /\ s[2] = c) \/ Leaving(c, u)
    BY <1>0, <1>4, <1>5, TidyCons
  <2> QED BY <1>5, <2>1, <2>2
<1>7. At("mkdir") /\ ~At("sendFile") /\ Arg(2) = d /\ Arg(3) = name
  <2>1. At("mkdir") /\ ~At("sendFile")
    BY <1>5, <1>6
  <2> QED BY <1>5, <1>6, <2>1
<1>8. Mkdir
  BY <1>0, <1>7, WhichStep DEF Going
<1>9. n \in DOMAIN objs /\ Src(n) /\ d \in NodeIds /\ name \in Names
  BY <1>0, <1>1, GoesThere DEF Goes, Off
<1>10. ~Occupied(Image(PathOf(n)))
  <2>1. Spot(s) = Append(NodePath(d), name)
    BY <1>5 DEF Spot
  <2>2. Spot(s) = Image(PathOf(n))
    BY <1>1, <2>1 DEF Goes
  <2> QED BY <1>5, <1>6, <2>2 DEF Makes
<1>11. PICK x, c : x = NewObject(d, name, FALSE, <<>>) /\ c = Drop(cache, {d})
  OBVIOUS
<1>12. x \in Object /\ x.file = FALSE /\ x.data = <<>> /\ x.parent = FolderId(d) /\ x.storage = Head(call.new) /\ x.name = name
  <2>1. x \in Object
    BY <1>0, <1>9, <1>11, NewObjectType, EmptyIsData
  <2> QED BY <1>11, <2>1 DEF NewObject
<1>13. PathFor(x) = Image(PathOf(n)) /\ MayAdd(x)
  BY <1>0, <1>1, <1>7, <1>10, <1>12, NewThere, MayAddThere
<1>14. Adds(x) /\ Goto(<<>>, c, localFiles)
  BY <1>0, <1>7, <1>8, <1>11, <1>12, <1>13 DEF Mkdir, DeviceCall, device, Adds
<1>15. todo' = u /\ reply' = reply /\ localFiles' = localFiles /\ cache' = c
  <2>1. <<>> \o u = u
    BY <1>4, ConsOne
  <2> QED BY <1>6, <1>14, <2>1 DEF Goto
<1>16. /\ \A m \in DOMAIN cache' : m \in DOMAIN cache \/ Live(m)
       /\ nextId \notin DOMAIN localFiles'
  <2>1. nextId \notin DOMAIN localFiles
    BY <1>0, BaseFacts
  <2> QED BY <1>11, <1>15, <2>1 DEF Drop
<1>17. ~At("sendFile")' /\ ~At("rename")'
  <2>1. \A z : At(z)' <=> z = g[1]
    BY <1>2, <1>4, <1>15, NextIs
  <2> QED BY <1>5, <2>1
<1>18. \A b \in Range(u) : ~Makes(b)
  <2>1. ~Makes(g) /\ ~Makes(r) /\ ~Makes(q)
    BY <1>5 DEF Makes
  <2> QED BY <1>4, <2>1, GoodRange
<1>19. Leaving(n, u)
  BY <1>4, <1>5 DEF Leaving
<1>20. Orderly(Srcs, u)
  <2>1. Left(Srcs, s) = Srcs
    BY <1>5 DEF Left, Takes
  <2> QED BY <1>6, <2>1
<1>21. Tidy'
  BY <1>4, <1>6, <1>7, <1>9, <1>10, <1>13, <1>14, <1>15, <1>16, <1>17, <1>18, <1>19, <1>20, MadeTidy
<1> QED BY <1>15, <1>21

LEMMA EnteringTidy ==
  ASSUME Trying, NEW t \in Seq(GoodSteps), Entering(t), Tells(cache, Off)
  PROVE  reply' = reply /\ Tidy'
<1>0. Base /\ NoTwins(objs) /\ Apart /\ Going /\ Tidy
  BY TryingFacts
<1>1. PICK n, d, name, e :
        /\ Fresh /\ todo = Cons(<<"getNode", d, <<name>>, <<"destDir", n>> >>, t)
        /\ Goes(n, d, name) /\ d \notin DOMAIN cache /\ Copied(n, e) /\ Leaves(t)
  BY DEF Entering
<1>2. PICK s, k, rest : s = <<"getNode", d, rest, k>> /\ k = <<"destDir", n>> /\ rest = <<name>>
  OBVIOUS
<1>3. s[1] = "getNode" /\ s[2] = d /\ s[3] = rest /\ s[4] = k /\ k[1] = "destDir" /\ k[2] = n /\ todo = Cons(s, t)
  BY <1>1, <1>2
<1>4. Tail(todo) = t /\ (\A a : At(a) <=> a = s[1]) /\ (\A j : Arg(j) = s[j]) /\ Wants(s, Srcs)
  BY <1>0, <1>3, TidyCons
<1>5. At("getNode") /\ ~At("rename") /\ Arg(2) = d /\ Arg(3) = rest /\ Arg(4) = k
  <2>1. At("getNode") /\ ~At("rename")
    BY <1>3, <1>4
  <2> QED BY <1>3, <1>4, <2>1
<1>6. rest # <<>> /\ Len(rest) = 1 /\ Head(rest) = name
  BY <1>2
<1>7. PICK md, p : md = getMetadata(d) /\ p = Image(PathOf(n))
  OBVIOUS
<1>8. /\ IsFolderNode(d) /\ Live(d) /\ NodePath(d) \in Seq(PathElem) /\ name \in Names
      /\ Append(NodePath(d), name) = p /\ IsFolderNode(e) /\ NodePath(e) = p /\ Live(e)
      /\ e \in DOMAIN objs /\ PathOf(e) = p
  <2>1. Live(e)
    BY <1>1 DEF Copied, IsFolderNode, Live
  <2>2. NodePath(e) = p
    BY <1>1, <1>7 DEF Copied, Goes, Src
  <2>3. e \in DOMAIN objs
    BY <1>0, <1>1, NotSource DEF Copied
  <2>4. PathOf(e) = p
    BY <1>0, <2>2, <2>3, PathNode
  <2> QED BY <1>0, <1>1, <1>7, <2>1, <2>2, <2>3, <2>4, GoesThere, NodePathType DEF Goes, Copied
<1>9. GetNode
  BY <1>0, <1>5, <1>8, WhichStep, ReadsWell DEF Going
<1>10. /\ objs' = objs /\ nextId' = nextId
       /\ \E r \in getItem(d) :
           \/ (\A a \in r.md.children : a.name # name) /\ Throw("ENOENT", r.cache, localFiles)
           \/ \E a \in r.md.children : /\ a.name = name
                                       /\ Goto(Then(k, [id |-> a.id, file |-> a.file]), r.cache, localFiles)
  BY <1>5, <1>6, <1>9 DEF GetNode, NoDeviceChange, device
<1>11. PICK r \in getItem(d) :
           \/ (\A a \in r.md.children : a.name # name) /\ Throw("ENOENT", r.cache, localFiles)
           \/ \E a \in r.md.children : /\ a.name = name
                                       /\ Goto(Then(k, [id |-> a.id, file |-> a.file]), r.cache, localFiles)
  BY <1>10
<1>12. r.md = md
  BY <1>1, <1>7 DEF getItem
<1>13. md.children =
         {[id |-> i, name |-> objs[i].name, file |-> objs[i].file] : i \in {j \in DOMAIN objs : ParentNode(j) = d}}
  BY <1>0, <1>7, <1>8, FolderHolds
<1>14. ParentNode(e) = d /\ objs[e].name = name
  BY <1>0, <1>8, PathUnder
<1>15. \E a \in md.children : a.name = name
  <2>1. PICK a : a = [id |-> e, name |-> objs[e].name, file |-> objs[e].file]
    OBVIOUS
  <2>2. a \in md.children
    BY <1>8, <1>13, <1>14, <2>1
  <2>3. a.name = name
    BY <1>14, <2>1
  <2> QED BY <2>2, <2>3
<1>16. PICK a \in md.children : a.name = name /\ Goto(Then(k, [id |-> a.id, file |-> a.file]), r.cache, localFiles)
  BY <1>11, <1>12, <1>15
<1>17. PICK node, m : node = [id |-> a.id, file |-> a.file] /\ m = <<"moveContents", n, node.id>>
  OBVIOUS
<1>18. Then(k, node) = <<m>>
  BY <1>2, <1>17 DEF Then
<1>19. reply' = reply /\ cache' = r.cache /\ todo' = Cons(m, t)
  <2>1. <<m>> \o t = Cons(m, t)
    BY ConsOne
  <2> QED BY <1>4, <1>16, <1>17, <1>18, <2>1 DEF Goto
<1>20. m[1] = "moveContents" /\ m[2] = n
  BY <1>17
<1>21. \A j \in DOMAIN cache' : j \in DOMAIN cache \/ Live(j)
  <2>1. d \in Off
    BY <1>0, <1>1, GoesThere
  <2>2. DOMAIN r.cache \subseteq DOMAIN cache \cup {d}
    <3>1. r = [md |-> md, cache |-> Put(cache, d, md)]
      BY <1>1, <1>7 DEF getItem
    <3>2. r.cache = Put(cache, d, md)
      BY <3>1
    <3> QED BY <3>2 DEF Put
  <2> QED BY <1>8, <1>19, <2>2
<1>22. Left(Srcs, m) = Left(Srcs, s) /\ Wants(m, Srcs) /\ ~Makes(m)
  <2>1. \A c : Takes(m, c) <=> Takes(s, c)
    BY <1>3, <1>20 DEF Takes
  <2>2. n \in Srcs
    BY <1>3, <1>4 DEF Wants
  <2> QED BY <1>20, <2>1, <2>2 DEF Left, Wants, Makes
<1>23. m[1] # "sendFile" /\ m[1] # "rename" /\ s[1] # "sendFile" /\ s[1] \notin {"remove", "dropOriginal"}
  BY <1>3, <1>20
<1>24. Tidy'
  BY <1>3, <1>10, <1>19, <1>21, <1>22, <1>23, TidyNext
<1> QED BY <1>19, <1>24

-----------------------------------------------------------------------------
(* The file is sent as a new object, which takes its place in the order.   *)
LEMMA OrderAhead ==
  ASSUME NEW U, NEW t \in Seq(U), NEW a, NEW P
  PROVE  (Orderly(P, Cons(a, t)) <=> Wants(a, P) /\ Orderly(Left(P, a), t))'
<1>1. Orderly(P, Cons(a, t)) <=> Wants(a, P) /\ Orderly(Left(P, a), t)
  BY OrderCons
<1> QED BY <1>1, PTL

LEMMA ReplacingTidy ==
  ASSUME Trying, NEW t \in Seq(GoodSteps), Replacing(t)
  PROVE  reply' = reply /\ Tidy'
<1>0. /\ Base /\ Base' /\ Apart /\ Past /\ Past' /\ Roomy /\ Going /\ Tidy /\ call' = call /\ pre' = pre
      /\ faults' # faults - 1 /\ \A i : Waits(i)' => Waits(i)
  BY TryingFacts
<1>1. PICK n, x, d, name :
        /\ todo = Cons(<<"sendFile", n, {FolderFor(x)}, x>>, Cons(<<"copyTo", n, d, name>>, t))
        /\ n \in DOMAIN localFiles \ DOMAIN objs /\ x \in Object /\ x.file /\ IsFolderNode(FolderFor(x))
        /\ PathFor(x) \in Seq(PathElem) /\ IsPrefix(call.path, PathFor(x))
        /\ IsFolderNode(d) /\ Append(NodePath(d), name) = Image(PathFor(x))
  BY DEF Replacing
<1>2. PICK s, b, u, V, k, G, p, z :
        /\ s = <<"sendFile", n, {FolderFor(x)}, x>> /\ b = <<"copyTo", n, d, name>> /\ u = Cons(b, t) /\ V = GoodSteps \cup {b}
        /\ k = nextId /\ G = {} /\ p = Image(PathFor(x)) /\ z = <<"copyTo", k, d, name>>
  OBVIOUS
<1>3. u \in Seq(V) /\ todo = Cons(s, u) /\ Range(u) = {b} \cup Range(t)
  BY <1>1, <1>2, ConsOne
<1>4. /\ s[1] = "sendFile" /\ s[2] = n /\ s[4] = x /\ b[1] = "copyTo" /\ b[3] = d /\ b[4] = name
      /\ z[1] = "copyTo" /\ z[3] = d /\ z[4] = name
  BY <1>2
<1>5. /\ Tail(todo) = u /\ (\A a : At(a) <=> a = s[1]) /\ (\A j : Arg(j) = s[j]) /\ Orderly(Left(Srcs, s), u)
      /\ \A a \in Range(u) : Makes(a) => ~Occupied(Spot(a))
  BY <1>0, <1>3, TidyCons
<1>6. \A c \in Srcs : Occupied(Image(PathOf(c))) => Leaving(c, t)
  <2>1. \A c \in Srcs : Occupied(Image(PathOf(c))) => (s[1] \in {"remove", "dropOriginal"} /\ s[2] = c) \/ Leaving(c, u)
    BY <1>0, <1>3, TidyCons
  <2> QED BY <1>3, <1>4, <2>1 DEF Leaving
<1>7. At("sendFile") /\ Arg(2) = n /\ Arg(4) = x
  <2>1. At("sendFile")
    BY <1>4, <1>5
  <2> QED BY <1>4, <1>5, <2>1
<1>8. SendFile /\ MayAdd(x)
  BY <1>0, <1>7, WhichStep DEF Going, Tidy
<1>9. /\ Adds(x) /\ todo' = Renumber(u, n, k) /\ DOMAIN cache' \subseteq DOMAIN cache
      /\ localFiles' = Drop(localFiles, {n}) /\ reply' = reply
  <2>1. /\ MayAdd(x) /\ objs' = WithObject(x) /\ nextId' = nextId + 1
        /\ todo' = Renumber(Tail(todo), n, nextId)
        /\ \E K : cache' = Drop(cache, K)
        /\ localFiles' = Drop(localFiles, {n}) /\ reply' = reply
    BY <1>0, <1>7, <1>8 DEF SendFile, DeviceCall
  <2>2. DOMAIN cache' \subseteq DOMAIN cache
    BY <2>1 DEF Drop
  <2> QED BY <1>1, <1>2, <1>5, <2>1, <2>2 DEF Adds
<1>10. PICK w : w = Cons(z, t)
  OBVIOUS
<1>11. todo' = w /\ Range(w) = {z} \cup Range(t)
  <2>1. todo' = w
    BY <1>2, <1>9, <1>10, RenumberRest
  <2> QED BY <1>10, <2>1, ConsOne
<1>12. ~At("rename")' /\ ~At("sendFile")'
  <2>1. \A a : At(a)' <=> a = "copyTo"
    BY <1>4, <1>10, <1>11, NextIs
  <2> QED BY <2>1
<1>13. Keeps(G) /\ k \in DOMAIN objs' /\ PathOf(k)' = PathFor(x) /\ k \notin DOMAIN objs
  <2>1. \A m \in DOMAIN cache' : m \in DOMAIN cache \/ Live(m)
    BY <1>9
  <2>2. Keeps({}) /\ \A j : j = nextId => PathOf(j)' = PathFor(x) /\ j \in DOMAIN objs' /\ objs'[j] = x
    BY <1>0, <1>9, <2>1, AddKeeps
  <2>3. nextId \notin DOMAIN objs
    BY <1>0, BaseFacts
  <2> QED BY <1>2, <2>2, <2>3
<1>14. Roomy'
  <2>1. nextId \notin DOMAIN localFiles'
    <3>1. nextId \notin DOMAIN localFiles
      BY <1>0, BaseFacts
    <3> QED BY <1>9, <3>1 DEF Drop
  <2>2. nextId' = nextId + 1
    BY <1>9 DEF Adds
  <2>3. nextId' = nextId + 1 /\ At("sendFile") /\ ~At("sendFile")' => Roomy'
    BY <1>0, <1>13, <2>1, RoomOn
  <2> QED BY <1>7, <1>12, <2>2, <2>3
<1>15. PICK S, Q : S = Srcs /\ Q = Srcs \cup {k}
  OBVIOUS
<1>16. \A c \in S : c \in DOMAIN objs' /\ PathOf(c)' = PathOf(c) /\ c # k
  BY <1>2, <1>13, <1>15 DEF Keeps, Srcs
<1>17. Srcs' = Q
  <2>1. ASSUME NEW c, c \in DOMAIN objs', Src(c)' PROVE c \in Q
    <3>1. CASE c = k
      BY <1>15, <3>1
    <3>2. CASE c # k
      <4>1. c \in DOMAIN objs /\ PathOf(c)' = PathOf(c)
        BY <1>2, <1>13, <2>1, <3>2 DEF Keeps
      <4>2. Src(c)
        BY <1>0, <2>1, <4>1 DEF Src
      <4> QED BY <1>15, <4>1, <4>2 DEF Srcs
    <3> QED BY <3>1, <3>2
  <2>2. ASSUME NEW c \in Q PROVE c \in DOMAIN objs' /\ Src(c)'
    <3>1. CASE c = k
      BY <1>0, <1>1, <1>13, <3>1 DEF Src
    <3>2. CASE c \in S
      BY <1>0, <1>15, <1>16, <3>2 DEF Src, Srcs
    <3> QED BY <1>15, <2>2, <3>1, <3>2
  <2> QED BY <2>1, <2>2 DEF Srcs
<1>18. \A q : Image(q)' = Image(q)
  BY <1>0, PartsAfter
<1>19. Spot(b) = p /\ Spot(z)' = p
  <2>1. Live(d)
    BY <1>1 DEF IsFolderNode, Live
  <2>2. NodePath(d)' = NodePath(d)
    BY <1>2, <1>13, <2>1, NodeOn
  <2> QED BY <1>1, <1>2, <1>4, <2>2 DEF Spot
<1>20. p \in Seq(PathElem) /\ IsPrefix(p, p) /\ IsPrefix(call.new, p)
  <2>1. p \in Seq(PathElem) /\ IsPrefix(call.new, p)
    BY <1>0, <1>1, <1>2, ImageParts
  <2>2. Len(p) \in Nat
    BY <2>1, LenProperties
  <2>3. Len(p) <= Len(p)
    BY <2>2
  <2> QED BY <2>1, <2>3, PrefixPointwise
<1>21. PICK R : R = Left(S, b)
  OBVIOUS
<1>22. Left(Q, z)' = R
  <2>1. ASSUME NEW c \in S PROVE Takes(z, c)' <=> Takes(b, c)
    <3>1. PathOf(c)' = PathOf(c)
      BY <1>16
    <3>2. Image(PathOf(c))' = Image(PathOf(c))
      <4>1. PICK q : q = PathOf(c)
        OBVIOUS
      <4>2. Image(PathOf(c))' = Image(q)'
        BY <3>1, <4>1 DEF Image
      <4> QED BY <1>18, <4>1, <4>2
    <3> QED BY <1>4, <1>19, <3>2 DEF Takes
  <2>2. Takes(z, k)'
    <3>1. Image(PathOf(k))' = p
      <4>1. PICK q : q = PathFor(x)
        OBVIOUS
      <4>2. Image(PathOf(k))' = Image(q)'
        BY <1>13, <4>1 DEF Image
      <4> QED BY <1>2, <1>18, <4>1, <4>2
    <3> QED BY <1>4, <1>19, <1>20, <3>1 DEF Takes
  <2> QED BY <1>15, <1>21, <2>1, <2>2 DEF Left
<1>23. Orderly(R, t)'
  <2>1. Left(Srcs, s) = Srcs
    BY <1>4 DEF Left, Takes
  <2>2. Orderly(R, t)
    <3>1. Orderly(S, Cons(b, t))
      BY <1>2, <1>5, <1>15, <2>1
    <3> QED BY <1>21, <3>1, OrderCons
  <2>3. \A c \in R : PathOf(c)' = PathOf(c)
    BY <1>16, <1>21 DEF Left
  <2>4. \A a \in Range(t) : Makes(a) => Spot(a)' = Spot(a)
    BY GoodRange
  <2> QED BY <1>0, <2>2, <2>3, <2>4, OrderlyOn
<1>24. Orderly(Srcs, todo)'
  <2>1. Wants(z, Q)'
    BY <1>4 DEF Wants
  <2>2. Orderly(Left(Q, z), t)'
    <3>1. PICK L : L = Left(Q, z)'
      OBVIOUS
    <3>2. Orderly(L, t)'
      BY <1>22, <1>23, <3>1
    <3> QED BY <3>1, <3>2 DEF Orderly, LeftAt
  <2>3. Orderly(Q, Cons(z, t))'
    BY <2>1, <2>2, OrderAhead
  <2> QED BY <1>10, <1>11, <1>17, <2>3 DEF Orderly, LeftAt
<1>25. ~Occupied(p)'
  <2>1. ~Occupied(p)
    BY <1>3, <1>4, <1>5, <1>19 DEF Makes
  <2>2. PathOf(k)' # p
    BY <1>0, <1>1, <1>13, <1>20, ImageApart
  <2> QED BY <1>2, <1>13, <2>1, <2>2, OccupiedOn
<1>26. ASSUME NEW c \in Q, Occupied(Image(PathOf(c)))' PROVE Leaving(c, w)
  <2>1. PICK q, y : q = PathOf(c)' /\ y = Image(q)
    OBVIOUS
  <2>2. Occupied(y)'
    <3>1. Image(PathOf(c))' = Image(q)'
      BY <2>1 DEF Image
    <3>2. Image(PathOf(c))' = y
      BY <1>18, <2>1, <3>1
    <3> QED BY <1>26, <3>2 DEF Occupied
  <2>3. c # k
    BY <1>2, <1>13, <1>25, <2>1, <2>2
  <2>4. c \in Srcs /\ q = PathOf(c)
    BY <1>15, <1>16, <1>26, <2>1, <2>3
  <2>5. PathOf(k)' # y
    <3>1. q \in Seq(PathElem) /\ IsPrefix(call.path, q)
      BY <1>0, <2>4, PathNode DEF Srcs, Src
    <3>2. y \in Seq(PathElem) /\ IsPrefix(call.new, y)
      BY <1>0, <2>1, <3>1, ImageParts
    <3> QED BY <1>0, <1>1, <1>13, <3>2, ImageApart
  <2>6. Occupied(y)
    BY <1>2, <1>13, <2>2, <2>5, OccupiedOn
  <2> QED BY <1>6, <1>11, <2>1, <2>4, <2>6 DEF Leaving
<1>27. \A a \in Range(w) : Makes(a) => ~Occupied(Spot(a))'
  <2>1. \A a \in Range(t) : ~Makes(a)
    BY GoodRange
  <2>2. ~Occupied(Spot(z))'
    BY <1>19, <1>25 DEF Occupied
  <2> QED BY <1>11, <2>1, <2>2
<1>28. Tidy'
  <2>1. \A c \in Srcs' : Occupied(Image(PathOf(c)))' => Leaving(c, todo')
    BY <1>11, <1>17, <1>26
  <2>2. \A a \in Range(todo') : Makes(a) => ~Occupied(Spot(a))'
    BY <1>11, <1>27
  <2>3. \A c \in Srcs' : Occupied(Image(PathOf(c)))' => Leaving(c, todo)'
    BY <2>1 DEF Leaving
  <2> QED BY <1>12, <1>14, <1>24, <2>2, <2>3 DEF Tidy
<1> QED BY <1>9, <1>28

-----------------------------------------------------------------------------
(* The paths are looked up, and found.                                     *)
LEMMA NoEntry ==
  ASSUME Trying, Tells(cache, {}), NEW dir, NEW rest, NEW k, NEW p, Walking(dir, rest, p),
         todo = << <<"getNode", dir, rest, k>> >>, NEW m, Live(m), NodePath(m) = p
  PROVE  reply' = reply /\ ~ReadFails
<1>0. Going /\ Base /\ NoTwins(objs)
  BY TryingFacts
<1>1. PICK s : s = <<"getNode", dir, rest, k>>
  OBVIOUS
<1>2. s[1] = "getNode" /\ s[2] = dir /\ s[3] = rest /\ s[4] = k /\ todo = <<s>> /\ Head(todo) = s /\ todo # <<>>
  BY <1>1, ShortConcat
<1>3. At("getNode") /\ ~At("rename") /\ Arg(2) = dir /\ Arg(3) = rest /\ Arg(4) = k
  BY <1>2 DEF At, Arg
<1>4. Live(dir)
  BY DEF Walking, IsFolderNode, Live
<1>5. ~ReadFails
  BY <1>3, <1>4, ReadsWell
<1>6. GetNode
  BY <1>0, <1>3, <1>5, WhichStep DEF Going
<1>7. \/ reply' = reply
      \/ rest # <<>> /\ \E r \in getItem(dir) : {e \in r.md.children : e.name = Head(rest)} = {}
  BY <1>3, <1>6 DEF GetNode, Goto
<1>8. ASSUME rest # <<>>, NEW r \in getItem(dir), {e \in r.md.children : e.name = Head(rest)} = {} PROVE FALSE
  <2>1. PICK K : K = {}
    OBVIOUS
  <2>2. r.md = getMetadata(dir)
    BY <1>4, <2>1, ItemTells
  <2>3. Missing(p) /\ Len(p) > 1
    BY <1>0, <1>8, <2>2, WalkFails
  <2>4. CASE m \in DOMAIN objs
    BY <1>0, <2>3, <2>4, PathNode DEF Missing
  <2>5. CASE m \in Storages
    <3>1. Len(p) = 1
      BY <1>0, <2>5, NodePathType
    <3> QED BY <2>3, <3>1
  <2> QED BY <2>4, <2>5 DEF Live
<1> QED BY <1>5, <1>7, <1>8

LEMMA OneTidy ==
  ASSUME Trying, objs' = objs, nextId' = nextId, \A n \in DOMAIN cache' : n \in DOMAIN cache \/ Live(n),
         NEW s, todo = <<s>>, s[1] = "getNode", NEW a, todo' = <<a>>,
         \/ a[1] = "getNode" /\ a[4][1] \in {"source", "newParent"}
         \/ a[1] = "rename" /\ a[2].id \notin Storages /\ ~Occupied(Spot(a))
  PROVE  Tidy'
<1>0. Tidy
  BY TryingFacts
<1>1. PICK w : w = <<a>>
  OBVIOUS
<1>2. w \in Seq({a}) /\ Range(w) = {a} /\ Range(todo) = {s}
  BY <1>1 DEF Range
<1>3. Wants(a, Srcs)
  BY DEF Wants
<1>4. Orderly(Srcs, w)
  BY <1>1, <1>3, OrderOne
<1>5. \A c \in Srcs : ~Occupied(Image(PathOf(c)))
  <2>1. \A c : ~Leaving(c, todo)
    BY <1>2 DEF Leaving
  <2> QED BY <1>0, <2>1 DEF Tidy
<1>6. \A b \in Range(w) : Makes(b) => ~Occupied(Spot(b))
  BY <1>2 DEF Makes
<1>7. Head(todo) = s /\ Head(todo') = a
  BY ShortConcat
<1>8. ~At("sendFile") /\ ~At("sendFile")' /\ (At("rename")' => Arg(2)'.id \notin Storages)
  BY <1>7 DEF At, Arg
<1> QED BY <1>1, <1>2, <1>4, <1>5, <1>6, <1>8, QuietTidy

LEMMA LookingTidy ==
  ASSUME Trying, Looking
  PROVE  reply' = reply /\ Tidy'
<1>0. Going /\ Base /\ NoTwins(objs) /\ Apart /\ call.new \in LongPath /\ reply.code = "ok" /\ Tidy /\ Len(call.path) > 1
  BY TryingFacts, GoingFacts DEF Going
<1>1. PICK m : Live(m) /\ NodePath(m) = call.path
  BY DEF Looking
<1>2. PICK f : IsFolderNode(f) /\ NodePath(f) = Front(call.new)
  BY DEF Looking
<1>3. Tells(cache, {}) /\ View = pre.view
  BY DEF Looking
<1>4. PICK p, q : p = call.path /\ q = call.new
  OBVIOUS
<1>5. Front(q) \in Seq(PathElem) /\ Append(Front(q), Last(q)) = q
  BY <1>0, <1>4, FrontLast DEF Apart
<1>6. ~Occupied(q)
  <2>1. SUFFICES ASSUME NEW i \in DOMAIN objs, PathOf(i) = q PROVE FALSE
    BY DEF Occupied
  <2>2. PICK v : v = Item(i)
    OBVIOUS
  <2>3. v \in pre.view /\ v.path = q
    BY <1>3, <2>1, <2>2, ViewItems DEF Item
  <2> QED BY <1>4, <2>3 DEF Trying
<1>7. ASSUME NEW dir, NEW rest, NEW k, NEW r, Walking(dir, rest, r), todo = << <<"getNode", dir, rest, k>> >>,
             NEW j, Live(j), NodePath(j) = r
      PROVE  /\ objs' = objs /\ nextId' = nextId /\ reply' = reply
             /\ \A n \in DOMAIN cache' : n \in DOMAIN cache \/ Live(n)
             /\ \/ \E d, t : todo' = << <<"getNode", d, t, k>> >>
                \/ \E node : FoundAt(node, r) /\ todo' = Then(k, node) \o <<>>
  <2>1. reply' = reply /\ ~ReadFails
    BY <1>3, <1>7, NoEntry
  <2>2. ~ \E c : Throw("ENOENT", c, localFiles)
    <3>1. ASSUME NEW c, Throw("ENOENT", c, localFiles) PROVE FALSE
      <4>1. reply'.code = "ENOENT"
        BY <3>1 DEF Throw
      <4> QED BY <1>0, <2>1, <4>1
    <3> QED BY <3>1
  <2>3. \/ ReadFails
        \/ objs' = objs /\ \E c : Tells(c, {}) /\ Throw("ENOENT", c, localFiles)
        \/ /\ objs' = objs /\ nextId' = nextId /\ reply' = reply /\ localFiles' = localFiles
           /\ \E c : cache' = c /\ Tells(c, {}) /\ \A n \in DOMAIN c : n \in DOMAIN cache \/ Live(n)
           /\ \/ \E d, t : Walking(d, t, r) /\ todo' = << <<"getNode", d, t, k>> >>
              \/ \E node : FoundAt(node, r) /\ todo' = Then(k, node) \o <<>>
    BY <1>0, <1>3, <1>7, Walks
  <2> QED BY <2>1, <2>2, <2>3
<1>8. ASSUME NEW dir, NEW rest, Walking(dir, rest, p), todo = << <<"getNode", dir, rest, <<"source", q>> >> >>
      PROVE  reply' = reply /\ Tidy'
  <2>1. PICK k, s : k = <<"source", q>> /\ s = <<"getNode", dir, rest, k>>
    OBVIOUS
  <2>2. k[1] = "source" /\ k[2] = q /\ todo = <<s>> /\ s[1] = "getNode"
    BY <1>8, <2>1
  <2>3. /\ objs' = objs /\ nextId' = nextId /\ reply' = reply
        /\ \A n \in DOMAIN cache' : n \in DOMAIN cache \/ Live(n)
        /\ \/ \E d, t : todo' = << <<"getNode", d, t, k>> >>
           \/ \E node : FoundAt(node, p) /\ todo' = Then(k, node) \o <<>>
    BY <1>1, <1>4, <1>7, <1>8, <2>1
  <2>4. ASSUME NEW d, NEW t, todo' = << <<"getNode", d, t, k>> >> PROVE Tidy'
    <3>1. PICK a : a = <<"getNode", d, t, k>>
      OBVIOUS
    <3>2. a[1] = "getNode" /\ a[4] = k /\ todo' = <<a>>
      BY <2>4, <3>1
    <3>3. a[4][1] \in {"source", "newParent"}
      BY <2>2, <3>2
    <3> QED BY <2>2, <2>3, <3>2, <3>3, OneTidy
  <2>5. ASSUME NEW node, todo' = Then(k, node) \o <<>> PROVE Tidy'
    <3>1. PICK d, t, k2, a : /\ d = Head(Front(q)) /\ t = Tail(Front(q)) /\ k2 = <<"newParent", node, Last(q)>>
                             /\ a = <<"getNode", d, t, k2>>
      OBVIOUS
    <3>2. Then(k, node) = <<a>>
      BY <2>1, <3>1 DEF Then, Lookup
    <3>3. todo' = <<a>>
      BY <2>5, <3>2, ShortConcat
    <3>4. a[1] = "getNode" /\ a[4] = k2 /\ k2[1] = "newParent"
      BY <3>1
    <3>5. a[4][1] \in {"source", "newParent"}
      BY <3>4
    <3> QED BY <2>2, <2>3, <3>3, <3>4, <3>5, OneTidy
  <2> QED BY <2>3, <2>4, <2>5
<1>9. ASSUME NEW dir, NEW rest, NEW node, Walking(dir, rest, Front(q)), FoundAt(node, p),
             todo = << <<"getNode", dir, rest, <<"newParent", node, Last(q)>> >> >>
      PROVE  reply' = reply /\ Tidy'
  <2>1. PICK k, s, r : k = <<"newParent", node, Last(q)>> /\ s = <<"getNode", dir, rest, k>> /\ r = Front(q)
    OBVIOUS
  <2>2. k[1] = "newParent" /\ k[2] = node /\ k[3] = Last(q) /\ todo = <<s>> /\ s[1] = "getNode"
    BY <1>9, <2>1
  <2>3. Live(f) /\ NodePath(f) = r
    BY <1>2, <1>4, <2>1 DEF IsFolderNode, Live
  <2>4. /\ objs' = objs /\ nextId' = nextId /\ reply' = reply
        /\ \A n \in DOMAIN cache' : n \in DOMAIN cache \/ Live(n)
        /\ \/ \E d, t : todo' = << <<"getNode", d, t, k>> >>
           \/ \E to : FoundAt(to, r) /\ todo' = Then(k, to) \o <<>>
    BY <1>7, <1>9, <2>1, <2>3
  <2>5. ASSUME NEW d, NEW t, todo' = << <<"getNode", d, t, k>> >> PROVE Tidy'
    <3>1. PICK a : a = <<"getNode", d, t, k>>
      OBVIOUS
    <3>2. a[1] = "getNode" /\ a[4] = k /\ todo' = <<a>>
      BY <2>5, <3>1
    <3>3. a[4][1] \in {"source", "newParent"}
      BY <2>2, <3>2
    <3> QED BY <2>2, <2>4, <3>2, <3>3, OneTidy
  <2>6. ASSUME NEW to, FoundAt(to, r), todo' = Then(k, to) \o <<>> PROVE Tidy'
    <3>1. PICK d, a : d = to.id /\ a = <<"rename", node, d, Last(q)>>
      OBVIOUS
    <3>2. Then(k, to) = <<a>>
      BY <2>1, <3>1 DEF Then
    <3>3. todo' = <<a>>
      BY <2>6, <3>2, ShortConcat
    <3>4. a[1] = "rename" /\ a[2] = node /\ a[3] = d /\ a[4] = Last(q)
      BY <3>1
    <3>5. node.id \notin Storages
      <4>1. SUFFICES ASSUME node.id \in Storages PROVE FALSE
        OBVIOUS
      <4>2. ~node.file
        BY <1>0, <1>1, <1>4, <1>9, <4>1, SourceFound
      <4>3. NodePath(node.id) = p /\ Live(node.id)
        BY <1>9, <4>2 DEF FoundAt
      <4>4. Len(p) = 1
        BY <1>0, <4>1, <4>3, NodePathType
      <4> QED BY <1>0, <1>4, <4>4
    <3>6. NodePath(d) = r
      BY <1>0, <1>2, <1>4, <1>5, <2>1, <2>6, <3>1, FolderFound
    <3>7. Spot(a) = q
      BY <1>5, <2>1, <3>4, <3>6 DEF Spot
    <3> QED BY <1>6, <2>2, <2>4, <3>3, <3>4, <3>5, <3>7, OneTidy
  <2> QED BY <2>4, <2>5, <2>6
<1>10. ASSUME NEW node, NEW d, NEW name, node.id \in Storages, ~node.file, todo = << <<"rename", node, d, name>> >>
       PROVE  FALSE
  <2>1. PICK s : s = <<"rename", node, d, name>>
    OBVIOUS
  <2>2. Head(todo) = s /\ todo # <<>> /\ s[1] = "rename" /\ s[2] = node
    BY <1>10, <2>1, ShortConcat
  <2>3. At("rename") /\ Arg(2) = node
    BY <2>2 DEF At, Arg
  <2> QED BY <1>0, <1>10, <2>3 DEF Tidy
<1> QED BY <1>4, <1>8, <1>9, <1>10 DEF Looking

LEMMA MovingTidy ==
  ASSUME Trying, ~AcceptsDuplicates, Moving
  PROVE  reply' = reply /\ (todo' = <<>> \/ Tidy')
<1>1. PICK t \in Seq(GoodSteps) : (Parts(View, {}) /\ Tells(cache, Off) /\ Midway(t)) \/ Replacing(t)
  BY DEF Moving
<1>2. CASE Replacing(t)
  BY <1>2, ReplacingTidy
<1>3. CASE Parts(View, {}) /\ Tells(cache, Off) /\ Midway(t)
  <2>1. CASE Ready(t)
    BY <1>3, <2>1, ReadyTidy
  <2>2. CASE Arriving(t)
    BY <1>3, <2>2, ArrivingTidy
  <2>3. CASE Flushing(t)
    BY <1>3, <2>3, FlushingTidy
  <2>4. CASE Dropping(t)
    BY <2>4, DroppingTidy
  <2>5. CASE Making(t)
    BY <1>3, <2>5, MakingTidy
  <2>6. CASE Entering(t)
    BY <1>3, <2>6, EnteringTidy
  <2> QED BY <1>3, <2>1, <2>2, <2>3, <2>4, <2>5, <2>6 DEF Midway
<1> QED BY <1>1, <1>2, <1>3

-----------------------------------------------------------------------------
(* A rename to where nothing was that began with a right cache: a request  *)
(* has failed, or its steps are in order.                                  *)
ErrInv ==
  call.op = "rename" /\ pre.coherent /\ Len(call.path) > 1 /\ (\A v \in pre.view : v.path # call.new) =>
    \/ reply.code # "ok" /\ faults < pre.faults
    \/ reply.code = "ok" /\ (todo # <<>> => Tidy)

LEMMA Unoccupied ==
  ASSUME Base, Apart, View = pre.view, \A v \in pre.view : v.path # call.new, NEW c \in Srcs
  PROVE  ~Occupied(Image(PathOf(c)))
<1>1. PICK s, p, q : s = PathOf(c) /\ p = Image(PathOf(c)) /\ q = call.new
  OBVIOUS
<1>2. s \in Seq(PathElem) /\ IsPrefix(call.path, s)
  BY <1>1, PathNode DEF Srcs, Src
<1>3. p = Image(s)
  BY <1>1
<1>4. IsPrefix(q, p) /\ q \in Seq(PathElem) /\ Len(q) > 1
  BY <1>1, <1>2, <1>3, ImageParts DEF Apart
<1>5. SUFFICES ASSUME NEW i \in DOMAIN objs, PathOf(i) = p PROVE FALSE
  BY <1>1 DEF Occupied
<1>6. \E j \in DOMAIN objs : PathIn(objs, j) = q
  <2>1. IsPrefix(q, PathIn(objs, i)) /\ IsStore(objs)
    BY <1>4, <1>5, BaseFacts DEF PathOf
  <2> QED BY <1>4, <2>1, AncestorAt
<1>7. PICK j \in DOMAIN objs : PathOf(j) = q
  BY <1>6 DEF PathOf
<1>8. Item(j) \in pre.view /\ Item(j).path = q
  BY <1>7, ViewItems DEF Item
<1> QED BY <1>1, <1>8

LEMMA UnoccupiedAhead ==
  (Base /\ Apart /\ View = pre.view /\ (\A v \in pre.view : v.path # call.new)
     => \A c \in Srcs : ~Occupied(Image(PathOf(c))))'
<1>1. Base /\ Apart /\ View = pre.view /\ (\A v \in pre.view : v.path # call.new)
        => \A c \in Srcs : ~Occupied(Image(PathOf(c)))
  BY Unoccupied
<1> QED BY <1>1, PTL

LEMMA OrderOneAhead == ASSUME NEW s, NEW P, s[1] = "getNode", s[4][1] = "source" PROVE Orderly(P, <<s>>)'
<1>1. Orderly(P, <<s>>)
  BY OrderOne DEF Wants
<1> QED BY <1>1, PTL

LEMMA ErrBegun ==
  ASSUME Base, Base', RenameInv', ReplyInv, call.op = "none", NEW p \in Path, p # <<>>, NEW q,
         NEW off, NEW byte, NEW h, Begin("rename", p, q, off, byte, h)
  PROVE  ErrInv'
<1> DEFINE c == [op |-> "rename", path |-> p, new |-> q, off |-> off, byte |-> byte, h |-> h]
<1>1. /\ call' = c /\ todo' = Handler(c)
      /\ pre' = [view |-> View, coherent |-> Coherent, faults |-> faults,
                 saved |-> \A i \in DOMAIN localFiles : ~localFiles[i].dirty, owned |-> Owned]
      /\ objs' = objs /\ nextId' = nextId /\ cache' = cache /\ localFiles' = localFiles /\ reply' = reply
      /\ nextId + NewIds(c) <= MaxId + 1
  BY DEF Begin, device
<1>2. c.op = "rename" /\ c.path = p /\ c.new = q
  OBVIOUS
<1> HIDE DEF c
<1>3. call'.op = "rename" /\ call'.path = p /\ pre'.view = View /\ pre'.coherent = Coherent
  BY <1>1, <1>2
<1> SUFFICES ASSUME Coherent, \A v \in pre'.view : v.path # call'.new PROVE ErrInv'
  BY <1>3 DEF ErrInv
<1>4. reply'.code = "ok"
  BY <1>1 DEF ReplyInv, Okay
<1>5. PICK s, k, u : s = <<"getNode", Head(p), Tail(p), k>> /\ k = <<"source", q>> /\ u = <<>>
  OBVIOUS
<1>6. todo' = <<s>>
  BY <1>1, <1>2, <1>5 DEF Handler, Lookup
<1>7. s[1] = "getNode" /\ s[4] = k /\ k[1] = "source"
  BY <1>5
<1>8. u \in Seq({}) /\ todo' = Cons(s, u) /\ Range(<<s>>) = {s}
  <2>1. u \in Seq({}) /\ Range(u) = {}
    BY <1>5 DEF Range
  <2>2. <<s>> \o u = Cons(s, u) /\ <<s>> \o <<>> = <<s>> /\ Range(Cons(s, u)) = {s} \cup Range(u)
    BY <2>1, ConsOne, ShortConcat
  <2> QED BY <1>5, <1>6, <2>1, <2>2
<1>9. At("getNode")' /\ ~At("sendFile")' /\ ~At("rename")'
  BY <1>7, <1>8, NextIs
<1>10. Apart'
  BY <1>1, <1>3 DEF RenameInv
<1>11. \A i \in Srcs' : ~Occupied(Image(PathOf(i)))'
  <2>1. View' = pre'.view
    <3>1. \A i : PathOf(i)' = PathOf(i) /\ Content(i)' = Content(i)
      BY <1>1 DEF PathOf, Content
    <3>2. View' = View
      BY <1>1, <3>1, ViewSame
    <3> QED BY <1>3, <3>2
  <2> QED BY <1>10, <2>1, UnoccupiedAhead
<1>12. Orderly(Srcs, todo)'
  <2>1. PICK P : P = Srcs'
    OBVIOUS
  <2>2. Orderly(P, <<s>>)'
    BY <1>7, OrderOneAhead
  <2> QED BY <1>6, <2>1, <2>2 DEF Orderly, LeftAt
<1>13. \A a \in Range(todo') : ~Makes(a)'
  BY <1>6, <1>7, <1>8 DEF Makes
<1>14. Roomy'
  <2>1. PICK moved : moved = {i \in DOMAIN objs : IsPrefix(p, PathOf(i))}
    OBVIOUS
  <2>2. NewIds(c) = Cardinality(moved) + Cardinality(moved \cap DOMAIN localFiles)
    BY <1>2, <2>1 DEF NewIds
  <2> QED BY <1>1, <1>3, <1>9, <2>1, <2>2, RoomBegins
<1>15. Tidy'
  BY <1>9, <1>11, <1>12, <1>13, <1>14 DEF Tidy
<1> QED BY <1>4, <1>15 DEF ErrInv

LEMMA ErrKernel ==
  ASSUME Base, Base', RenameInv', ReplyInv, call.op = "none", Kernel
  PROVE  ErrInv'
<1>0. \A p \in Paths : p \in Path /\ p # <<>>
  BY PathsType
<1>1. SUFFICES ASSUME call'.op = "rename" PROVE ErrInv'
  BY DEF ErrInv
<1>2. \E p, q \in Paths : Begin("rename", p, q, 0, 0, call.h)
  <2>1. \A op, path, new, off, byte, h : Begin(op, path, new, off, byte, h) => op = "rename"
    BY <1>1 DEF Begin
  <2> QED BY <2>1 DEF Kernel
<1> QED BY <1>0, <1>2, ErrBegun

LEMMA ErrStands ==
  ASSUME ErrInv, UNCHANGED vars
  PROVE  ErrInv'
<1>1. /\ objs' = objs /\ nextId' = nextId /\ cache' = cache /\ localFiles' = localFiles /\ todo' = todo
      /\ reply' = reply /\ call' = call /\ pre' = pre /\ faults' = faults
  BY DEF vars, device, process
<1>2. \A i : PathOf(i)' = PathOf(i) /\ Src(i)' = Src(i) /\ NodePath(i)' = NodePath(i) /\ Waits(i)' = Waits(i)
  BY <1>1 DEF PathOf, Src, NodePath, Waits
<1>3. (\A a : At(a)' = At(a)) /\ (\A k : Arg(k)' = Arg(k)) /\ \A s : Image(s)' = Image(s)
  BY <1>1 DEF At, Arg, Image
<1>4. Roomy' = Roomy
  <2>1. Due' = Due
    BY <1>1, <1>2, <1>3 DEF Due, Below
  <2>2. Unsent' = Unsent
    BY <1>1, <1>2 DEF Unsent
  <2>3. Taken' = Taken
    BY <1>3 DEF Taken
  <2> QED BY <1>1, <2>1, <2>2, <2>3 DEF Roomy
<1>5. MayAdd(Arg(4))' = MayAdd(Arg(4))
  BY <1>1, <1>3 DEF MayAdd, Inside
<1>6. Srcs' = Srcs /\ \A s : Spot(s)' = Spot(s)
  BY <1>1, <1>2 DEF Srcs, Spot
<1>7. \A p : Occupied(p)' = Occupied(p)
  BY <1>1, <1>2 DEF Occupied
<1>8. Orderly(Srcs, todo)' = Orderly(Srcs, todo)
  <2>1. \A s, e : Takes(s, e)' = Takes(s, e)
    BY <1>2, <1>3, <1>6 DEF Takes, Under, Inner
  <2>2. \A s, P : Wants(s, P)' = Wants(s, P)
    <3>1. \A P, n, name : Has(P, n, name)' = Has(P, n, name)
      BY <1>2 DEF Has
    <3>2. \A n, c : Inner(n, c)' = Inner(n, c)
      BY <1>2 DEF Inner
    <3> QED BY <3>1, <3>2 DEF Wants
  <2> QED BY <1>1, <1>6, <2>1, <2>2 DEF Orderly, LeftAt
<1>9. Tidy' = Tidy
  BY <1>1, <1>2, <1>3, <1>4, <1>5, <1>6, <1>7, <1>8 DEF Tidy, Leaving, Makes
<1> QED BY <1>1, <1>9 DEF ErrInv

LEMMA NextErr ==
  ASSUME Renamed, ErrInv, ~AcceptsDuplicates, [Next]_vars
  PROVE  ErrInv'
<1>0. Base /\ ReplyInv /\ FaultsInv /\ RenameInv /\ NoTwins(objs) /\ Base' /\ RenameInv'
  BY NextCalled, NextRename DEF Renamed, Called, Base, StoreInv
<1>1. CASE UNCHANGED vars
  BY <1>1, ErrStands
<1>2. CASE call'.op = "none"
  BY <1>2 DEF ErrInv
<1>3. CASE call.op = "none" /\ Kernel
  BY <1>0, <1>3, ErrKernel
<1>4. CASE todo # <<>> /\ Step /\ ~Crash /\ call' = call /\ pre' = pre
  <2>1. SUFFICES ASSUME call.op = "rename", pre.coherent, Len(call.path) > 1, \A v \in pre.view : v.path # call.new
                 PROVE  ErrInv'
    BY <1>4 DEF ErrInv
  <2>2. /\ Apart /\ Past /\ reply.code = "ok" /\ Whole(localFiles) /\ (pre.saved => Settled)
        /\ Looking \/ Moving
    BY <1>0, <1>4, <2>1 DEF RenameInv
  <2>3. Going
    BY <1>0, <1>4, <2>1, <2>2 DEF Going
  <2>4. Tidy
    BY <1>4, <2>1, <2>2 DEF ErrInv
  <2>5. CASE faults' = faults
    <3>1. Trying
      BY <2>1, <2>2, <2>3, <2>4, <2>5 DEF Trying
    <3>2. reply' = reply /\ (todo' = <<>> \/ Tidy')
      BY <2>2, <3>1, LookingTidy, MovingTidy
    <3> QED BY <2>2, <3>2 DEF ErrInv
  <2>6. CASE faults' # faults
    <3>1. faults > 0 /\ faults' = faults - 1 /\ reply'.code = "EIO"
      BY <1>0, <1>4, <2>6, FaultsShow
    <3>2. faults \in Nat /\ pre.faults \in Nat /\ faults <= pre.faults
      BY <1>0, <2>1 DEF FaultsInv
    <3>3. faults' < pre.faults
      BY <3>1, <3>2
    <3>4. pre'.faults = pre.faults
      BY <1>4
    <3> QED BY <3>1, <3>3, <3>4 DEF ErrInv
  <2> QED BY <2>5, <2>6
<1> QED BY <1>0, <1>1, <1>2, <1>3, <1>4, CallFrame

(* A rename that fails had a reason.                                       *)
LEMMA ErrDone ==
  ASSUME Renamed, ErrInv, call.op = "rename"
  PROVE  NoSpuriousError
<1> SUFFICES ASSUME Failed, pre.coherent, NoFaultYet, ~Excused PROVE FALSE
  BY DEF NoSpuriousError
<1>1. faults \in Nat /\ pre.faults \in Nat /\ faults <= pre.faults /\ pre.faults <= MaxFaults /\ faults = MaxFaults
  BY DEF Renamed, Called, FaultsInv, Failed, Done, NoFaultYet
<1>2. ~(faults < pre.faults)
  BY <1>1, JmtpfsAssumption
<1>3. \A v \in pre.view : v.path # call.new
  BY DEF Excused
<1>4. Len(call.path) # 1
  BY DEF Excused
<1>5. Len(call.path) > 1
  <2>1. call.path \in Seq(PathElem) /\ call.path # <<>>
    BY DEF Renamed, RenameInv, Apart
  <2>2. Len(call.path) \in Nat /\ Len(call.path) # 0
    BY <2>1, LenProperties, EmptySeq
  <2>3. PICK l \in Nat : l = Len(call.path)
    BY <2>2
  <2>4. l # 0 /\ l # 1
    BY <1>4, <2>2, <2>3
  <2>5. l > 1
    BY <2>4
  <2> QED BY <2>3, <2>5
<1> QED BY <1>2, <1>3, <1>5 DEF ErrInv, Failed

LEMMA AlwaysErr == ASSUME ~AcceptsDuplicates PROVE Spec => [](Renamed /\ LeavingInv /\ ErrInv)
<1>1. Init => Renamed /\ LeavingInv /\ ErrInv
  <2>1. Init => call.op = "none"
    BY DEF Init, NoCall
  <2> QED BY <2>1, InitCalled DEF Renamed, RenameInv, LeavingInv, ErrInv
<1>2. Renamed /\ LeavingInv /\ ErrInv /\ [Next]_vars => (Renamed /\ LeavingInv /\ ErrInv)'
  BY NextCalled, NextRename, NextLeaving, NextErr DEF Renamed, Called
<1> QED BY <1>1, <1>2, PTL DEF Spec

(* With a device that answers and a cache that is right, no call fails     *)
(* without a reason: what it names is not there, a folder to remove is not *)
(* empty, what a rename would make is there already, or the file is gone   *)
(* under its handle.  A rename that takes a tree apart finds every node    *)
(* where it looks, makes every image where nothing is and has ids for all  *)
(* of them; an unmount that is to write only the contents of files that    *)
(* are open writes all of them.                                            *)
THEOREM ErrorsHaveReasons == ASSUME ~AcceptsDuplicates PROVE Spec => []NoSpuriousError
<1>1. Renamed /\ LeavingInv /\ ErrInv => NoSpuriousError
  <2>1. ASSUME Renamed, LeavingInv, call.op = "unmount" PROVE NoSpuriousError
    BY <2>1, LeavingDone DEF Renamed
  <2>2. ASSUME Renamed, ErrInv, call.op = "rename" PROVE NoSpuriousError
    BY <2>2, ErrDone
  <2>3. ASSUME Renamed, call.op \notin {"rename", "unmount"} PROVE NoSpuriousError
    BY <2>3, ErrorDone DEF Renamed
  <2> QED BY <2>1, <2>2, <2>3
<1> QED BY <1>1, AlwaysErr, PTL
=============================================================================
