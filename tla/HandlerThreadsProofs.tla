------------------------ MODULE HandlerThreadsProofs ------------------------
(***************************************************************************)
(* Proofs about HandlerThreads for any number of threads, calls and nested *)
(* scopes: the types, the balance of scopes and mutexes, and that the      *)
(* cache, the local copies and the device have one user at a time.         *)
(***************************************************************************)
EXTENDS HandlerThreads, TLAPS

(* A mutex is free exactly when its count is zero.                         *)
Counts == \A l \in Locks : owner[l] = NoThread <=> depth[l] = 0

(* A thread between two calls neither holds nor waits for a lock.          *)
IdleHoldsNothing ==
  \A t \in Threads : pc[t] = "idle" => scopes[t] = NoScope /\ wants[t] = "none"

(* The main thread never takes the global lock and throws nothing it       *)
(* survives.                                                               *)
MainIsPlain == /\ scopes[Main]["global"] = 0 /\ wants[Main] # "global"
               /\ pc[Main] \in {"idle", "run"}

(* Workers run only between the start and the end of fuse_main, the main   *)
(* thread only outside, and mutexes are destroyed only by exit.            *)
NoWorkers ==
  phase \in {"gone", "starting", "ending"} => \A t \in Workers : pc[t] = "idle"
NoMain == /\ phase \in {"gone", "mounted", "exiting"} => pc[Main] = "idle"
          /\ destroyed # {} => phase = "exiting"

(* The inductive invariant.                                                *)
IInv == TypeOK /\ Balanced /\ Counts /\ IdleHoldsNothing /\ MainIsPlain /\ NoWorkers
        /\ NoMain

-----------------------------------------------------------------------------
(* Nothing is open, locked or waited for in a process that is gone.        *)
LEMMA InitIInv == Init => IInv
  BY ThreadsAssumption
  DEF Init, Fresh, IInv, TypeOK, Balanced, Counts, IdleHoldsNothing, MainIsPlain,
      NoWorkers, NoMain, NoScope, Threads, Locks

(* The innermost scope of a thread that has one is open, and its mutex is  *)
(* the thread's.                                                           *)
LEMMA InnermostOpen ==
  ASSUME IInv, NEW t \in Threads, scopes[t] # NoScope
  PROVE  /\ Innermost(t) \in Locks
         /\ scopes[t][Innermost(t)] \in Nat \ {0}
         /\ owner[Innermost(t)] = t
         /\ depth[Innermost(t)] = scopes[t][Innermost(t)]
<1>1. scopes[t] \in [Locks -> Nat] BY DEF IInv, TypeOK
<1>2. PICK l \in Locks : scopes[t][l] # 0 BY <1>1 DEF NoScope
<1>3. /\ Innermost(t) \in Locks
      /\ scopes[t][Innermost(t)] \in Nat \ {0}
  BY <1>1, <1>2 DEF Innermost, Locks
<1> QED BY <1>3 DEF IInv, Balanced

(* A lock that is granted.                                                 *)
LEMMA AcquireIInv == ASSUME IInv, NEW t \in Threads, Acquire(t) PROVE IInv'
<1> DEFINE l == wants[t]
<1>1. l \in Locks /\ pc[t] # "idle" /\ phase # "gone"
  BY DEF Acquire, IInv, TypeOK, IdleHoldsNothing
<1>2. /\ owner[l] \in {NoThread, t}
      /\ owner' = [owner EXCEPT ![l] = t]
      /\ depth' = [depth EXCEPT ![l] = @ + 1]
      /\ scopes' = [scopes EXCEPT ![t][l] = @ + 1]
      /\ wants' = [wants EXCEPT ![t] = "none"]
      /\ UNCHANGED <<destroyed, pc, work, calls, phase>>
  BY DEF Acquire, Locked
<1>3. t # NoThread BY ThreadsAssumption
<1> HIDE DEF l
<1>4. TypeOK' BY <1>1, <1>2 DEF IInv, TypeOK
<1>5. Balanced'
  <2> SUFFICES ASSUME NEW u \in Threads, NEW k \in Locks
               PROVE  scopes'[u][k] = IF owner'[k] = u THEN depth'[k] ELSE 0
    BY DEF Balanced
  <2>1. scopes[u][k] = IF owner[k] = u THEN depth[k] ELSE 0 BY DEF IInv, Balanced
  <2>2. owner[k] = NoThread => depth[k] = 0 BY DEF IInv, Counts
  <2>3. u # NoThread BY ThreadsAssumption
  <2> QED BY <1>1, <1>2, <1>3, <2>1, <2>2, <2>3 DEF IInv, TypeOK
<1>6. Counts' BY <1>1, <1>2, <1>3 DEF IInv, TypeOK, Counts
<1>7. IdleHoldsNothing' BY <1>1, <1>2 DEF IInv, TypeOK, IdleHoldsNothing
<1>8. MainIsPlain'
  BY <1>1, <1>2 DEF IInv, TypeOK, MainIsPlain, Threads, Locks, l
<1>9. NoWorkers' BY <1>1, <1>2 DEF IInv, NoWorkers
<1>10. NoMain' BY <1>2 DEF IInv, NoMain
<1> QED BY <1>4, <1>5, <1>6, <1>7, <1>8, <1>9, <1>10 DEF IInv

(* A scope that closes, by return or by an exception.                      *)
LEMMA CloseScopeIInv == ASSUME IInv, NEW t \in Threads, CloseScope(t) PROVE IInv'
<1> DEFINE l == Innermost(t)
<1>1. /\ l \in Locks /\ scopes[t][l] \in Nat \ {0}
      /\ owner[l] = t /\ depth[l] = scopes[t][l]
  BY InnermostOpen DEF CloseScope
<1>2. /\ owner' = [owner EXCEPT ![l] = IF depth[l] = 1 THEN NoThread ELSE @]
      /\ depth' = [depth EXCEPT ![l] = @ - 1]
      /\ scopes' = [scopes EXCEPT ![t][l] = @ - 1]
      /\ UNCHANGED <<destroyed, wants, pc, work, calls, phase>>
      /\ pc[t] # "idle"
  BY DEF CloseScope, Unlocked, Active
<1>3. t # NoThread BY ThreadsAssumption
<1> HIDE DEF l
<1>4. TypeOK'
  <2>1. depth[l] - 1 \in Nat /\ scopes[t][l] - 1 \in Nat BY <1>1
  <2>2. owner' \in [Locks -> Threads \cup {NoThread}]
    BY <1>2 DEF IInv, TypeOK
  <2>3. depth' \in [Locks -> Nat] BY <1>2, <2>1 DEF IInv, TypeOK
  <2>4. scopes' \in [Threads -> [Locks -> Nat]]
    <3>1. [scopes[t] EXCEPT ![l] = @ - 1] \in [Locks -> Nat]
      BY <2>1 DEF IInv, TypeOK
    <3> QED BY <1>2, <3>1 DEF IInv, TypeOK
  <2> QED BY <1>2, <2>2, <2>3, <2>4 DEF IInv, TypeOK
<1>5. Balanced'
  <2> SUFFICES ASSUME NEW u \in Threads, NEW k \in Locks
               PROVE  scopes'[u][k] = IF owner'[k] = u THEN depth'[k] ELSE 0
    BY DEF Balanced
  <2>1. scopes[u][k] = IF owner[k] = u THEN depth[k] ELSE 0 BY DEF IInv, Balanced
  <2>2. u # NoThread BY ThreadsAssumption
  <2> QED BY <1>1, <1>2, <1>3, <2>1, <2>2 DEF IInv, TypeOK
<1>6. Counts' BY <1>1, <1>2, <1>3 DEF IInv, TypeOK, Counts
<1>7. IdleHoldsNothing' BY <1>1, <1>2 DEF IInv, TypeOK, IdleHoldsNothing
<1>8. MainIsPlain'
  <2>1. scopes[Main]["global"] = 0 BY DEF IInv, MainIsPlain
  <2>2. t = Main => l # "global" BY <1>1, <2>1
  <2>3. scopes'[Main]["global"] = 0
    BY <1>1, <1>2, <2>1, <2>2 DEF IInv, TypeOK, Threads, Locks
  <2> QED BY <1>2, <2>3 DEF IInv, MainIsPlain
<1>9. NoWorkers' BY <1>2 DEF IInv, NoWorkers
<1>10. NoMain' BY <1>2 DEF IInv, NoMain
<1> QED BY <1>4, <1>5, <1>6, <1>7, <1>8, <1>9, <1>10 DEF IInv

(* The steps that leave the scopes and the mutexes' counts alone.          *)
Quiet == UNCHANGED <<owner, depth, scopes>>

LEMMA QuietKeepsBalance == ASSUME IInv, Quiet PROVE Balanced' /\ Counts'
  BY DEF IInv, Quiet, Balanced, Counts

LEMMA QuietIInv ==
  ASSUME IInv,
         \/ \E t \in Threads : \/ LockFails(t) \/ EnterLib(t) \/ Throw(t) \/ Return(t)
                               \/ CatchDisconnected(t) \/ Call(t)
         \/ \E l \in Locks : DestroyMutex(l)
         \/ Start \/ FuseMain \/ Unmount
  PROVE  IInv'
<1> DEFINE Rest == TypeOK /\ IdleHoldsNothing /\ MainIsPlain /\ NoWorkers /\ NoMain
<1>1. ASSUME NEW t \in Threads, LockFails(t) PROVE Quiet /\ Rest'
  <2>1. t # Main /\ wants[t] \in Locks /\ pc[t] # "idle"
    BY <1>1 DEF LockFails, IInv, TypeOK, NoMain, IdleHoldsNothing, Locks, Threads
  <2>2. TypeOK' BY <1>1 DEF LockFails, IInv, TypeOK, mutexes
  <2>3. IdleHoldsNothing'
    BY <1>1, <2>1 DEF LockFails, IInv, TypeOK, IdleHoldsNothing
  <2> QED BY <1>1, <2>1, <2>2, <2>3
       DEF LockFails, IInv, TypeOK, MainIsPlain, NoWorkers, NoMain, Quiet, mutexes, Threads
<1>2. ASSUME NEW t \in Threads, EnterLib(t) PROVE Quiet /\ Rest'
  <2>1. TypeOK'
    <3>1. work[t] - 1 \in 0 .. MaxWork
      BY <1>2, ThreadsAssumption DEF EnterLib, IInv, TypeOK
    <3> QED BY <1>2, <3>1 DEF EnterLib, IInv, TypeOK, mutexes, Locks
  <2>2. IdleHoldsNothing'
    BY <1>2 DEF EnterLib, Active, IInv, TypeOK, IdleHoldsNothing
  <2>3. MainIsPlain'
    BY <1>2 DEF EnterLib, IInv, TypeOK, MainIsPlain, Threads, Locks
  <2> QED BY <1>2, <2>1, <2>2, <2>3 DEF EnterLib, IInv, NoWorkers, NoMain, Quiet, mutexes
<1>3. ASSUME NEW t \in Threads, Throw(t) PROVE Quiet /\ Rest'
  <2>1. t # Main /\ pc[t] = "run" /\ t \in Workers
    BY <1>3, ThreadsAssumption DEF Throw
  <2>2. PICK e \in {"error", "disconnected"} : pc' = [pc EXCEPT ![t] = e]
    BY <1>3 DEF Throw
  <2>3. TypeOK' BY <1>3, <2>2 DEF Throw, IInv, TypeOK, mutexes
  <2>4. IdleHoldsNothing'
    BY <1>3, <2>1, <2>2 DEF Throw, IInv, TypeOK, IdleHoldsNothing
  <2> QED BY <1>3, <2>1, <2>2, <2>3, <2>4
       DEF Throw, IInv, TypeOK, MainIsPlain, NoWorkers, NoMain, Quiet, mutexes, Threads
<1>4. ASSUME NEW t \in Threads, Return(t) PROVE Quiet /\ Rest'
  <2>1. t # Main BY <1>4, ThreadsAssumption DEF Return
  <2>2. TypeOK' BY <1>4, ThreadsAssumption DEF Return, IInv, TypeOK, mutexes
  <2>3. IdleHoldsNothing'
    BY <1>4 DEF Return, Active, IInv, TypeOK, IdleHoldsNothing
  <2> QED BY <1>4, <2>1, <2>2, <2>3
       DEF Return, IInv, TypeOK, MainIsPlain, NoWorkers, NoMain, Quiet, mutexes, Threads
<1>5. ASSUME NEW t \in Threads, CatchDisconnected(t) PROVE Quiet /\ Rest'
  <2>1. t # Main /\ pc[t] # "idle" /\ pc[Main] = "idle"
    BY <1>5 DEF CatchDisconnected, IInv, MainIsPlain, NoWorkers, NoMain, TypeOK, Threads
  <2>2. IdleHoldsNothing'
    BY <1>5 DEF CatchDisconnected, Active, IInv, TypeOK, IdleHoldsNothing
  <2> QED BY <1>5, <2>1, <2>2
       DEF CatchDisconnected, IInv, TypeOK, MainIsPlain, NoWorkers, NoMain, Quiet,
           mutexes, Threads
<1>6. ASSUME NEW t \in Threads, Call(t) PROVE Quiet /\ Rest'
  <2>1. t # Main /\ phase \in {"mounted", "exiting"} BY <1>6, ThreadsAssumption DEF Call
  <2>2. TypeOK'
    <3>1. PICK n \in 0 .. MaxWork : work' = [work EXCEPT ![t] = n] BY <1>6 DEF Call
    <3> QED BY <1>6, <3>1, ThreadsAssumption DEF Call, IInv, TypeOK, mutexes, Locks
  <2>3. IdleHoldsNothing'
    BY <1>6 DEF Call, IInv, TypeOK, IdleHoldsNothing
  <2> QED BY <1>6, <2>1, <2>2, <2>3
       DEF Call, IInv, TypeOK, MainIsPlain, NoWorkers, NoMain, Quiet, mutexes, Threads
<1>7. ASSUME NEW l \in Locks, DestroyMutex(l) PROVE Quiet /\ Rest'
  BY <1>7 DEF DestroyMutex, IInv, TypeOK, IdleHoldsNothing, MainIsPlain, NoWorkers, NoMain,
              Quiet
<1>8. ASSUME Start PROVE Quiet /\ Rest'
  <2>1. Main \in Threads BY DEF Threads
  <2> QED BY <1>8, <2>1, ThreadsAssumption
       DEF Start, IInv, TypeOK, IdleHoldsNothing, MainIsPlain, NoWorkers, NoMain, Quiet,
           mutexes
<1>9. ASSUME FuseMain PROVE Quiet /\ Rest'
  <2>1. Main \in Threads BY DEF Threads
  <2> QED BY <1>9, <2>1, ThreadsAssumption
       DEF FuseMain, MainWaits, IInv, TypeOK, IdleHoldsNothing, MainIsPlain, NoWorkers,
           NoMain, Quiet, mutexes
<1>10. ASSUME Unmount PROVE Quiet /\ Rest'
  <2>1. Main \in Threads BY DEF Threads
  <2> QED BY <1>10, <2>1, ThreadsAssumption
       DEF Unmount, IInv, TypeOK, IdleHoldsNothing, MainIsPlain, NoWorkers, NoMain, Quiet,
           mutexes
<1>11. Quiet /\ Rest'
  BY <1>1, <1>2, <1>3, <1>4, <1>5, <1>6, <1>7, <1>8, <1>9, <1>10
<1> QED BY <1>11, QuietKeepsBalance DEF IInv

(* The end of the process takes everything with it.                        *)
LEMMA GoneIInv == ASSUME Gone PROVE IInv'
  BY ThreadsAssumption
  DEF Gone, ProcessEnds, IInv, TypeOK, Balanced, Counts, IdleHoldsNothing, MainIsPlain,
      NoWorkers, NoMain, NoScope, Threads, Locks

LEMMA StepIInv == IInv /\ [Next]_vars => IInv'
<1> SUFFICES ASSUME IInv, [Next]_vars PROVE IInv'
  OBVIOUS
<1>1. CASE UNCHANGED vars
  BY <1>1 DEF vars, IInv, TypeOK, Balanced, Counts, IdleHoldsNothing, MainIsPlain,
               NoWorkers, NoMain
<1>2. CASE Next
  BY <1>2, AcquireIInv, CloseScopeIInv, QuietIInv, GoneIInv DEF Next, ThreadStep
<1> QED BY <1>1, <1>2

THEOREM Invariance == Spec => []IInv
  BY InitIInv, StepIInv, PTL DEF Spec

(* The variables keep their types: no mutex is unlocked more often than it *)
(* was locked.                                                             *)
THEOREM TypeCorrect == Spec => []TypeOK
<1>1. IInv => TypeOK BY DEF IInv
<1> QED BY <1>1, Invariance, PTL

(* RecursiveMutex and the scope objects agree at every moment, whatever    *)
(* returns, exceptions and nested calls happen.                            *)
THEOREM ScopesBalanced == Spec => []Balanced
<1>1. IInv => Balanced BY DEF IInv
<1> QED BY <1>1, Invariance, PTL

-----------------------------------------------------------------------------
LEMMA UsersAgree == IInv => ExclusiveUse
<1> SUFFICES ASSUME IInv, NEW t \in Users, NEW u \in Users PROVE t = u
  BY DEF ExclusiveUse
<1>1. ASSUME NEW w \in Workers, scopes[w]["global"] > 0
      PROVE  ~MainUses /\ owner["global"] = w
  <2>1. w \in Threads /\ "global" \in Locks BY DEF Threads, Locks
  <2>2. pc[w] # "idle"
    BY <1>1, <2>1 DEF IInv, IdleHoldsNothing, NoScope
  <2>3. ~MainUses BY <2>2 DEF IInv, NoWorkers, MainUses
  <2>4. owner["global"] = w
    BY <1>1, <2>1 DEF IInv, Balanced
  <2> QED BY <2>3, <2>4
<1> QED BY <1>1 DEF Users

LEMMA UsersAgreeNext == IInv' => ExclusiveUse'
  BY UsersAgree, PTL

(* The file system's state has one user at a time.                         *)
THEOREM OneUser == Spec => []ExclusiveUse
  BY UsersAgree, Invariance, PTL

(* The user is the one element of Users.                                   *)
LEMMA UserIs == ASSUME IInv, NEW t \in Users PROVE User = t /\ Users = {t}
<1>1. Users = {t} BY UsersAgree DEF ExclusiveUse
<1>2. (CHOOSE u \in Users : TRUE) \in Users OBVIOUS
<1> QED BY <1>1, <1>2 DEF User

LEMMA UsersTyped == Users \subseteq Threads
  BY DEF Users, Threads

(* A step that keeps Users keeps the user.                                 *)
LEMMA SameUser == Users' = Users => User' = User
  BY DEF User

(* A first user comes, or the only one goes.                               *)
LEMMA UserComes ==
  ASSUME IInv, IInv', Users = {}, NEW t \in Threads, Users' = {t}
  PROVE  Serial!Begin(t)
<1>1. User = NoThread BY DEF User
<1>2. User' = t BY DEF User
<1> QED BY <1>1, <1>2 DEF Serial!Begin

LEMMA UserGoes ==
  ASSUME IInv, NEW t \in Threads, Users = {t}, Users' = {}
  PROVE  Serial!End(t)
<1>1. User = t BY UserIs
<1>2. User' = NoThread BY DEF User
<1> QED BY <1>1, <1>2 DEF Serial!End

(* What a step does to the set of users, when phase and scopes stay within *)
(* what the main thread and the workers may change.                        *)
LEMMA StepSerial ==
  ASSUME IInv, IInv', [Next]_vars
  PROVE  [Serial!Next]_User
<1>1. CASE Users' = Users
  BY <1>1, SameUser
<1>2. CASE Users = {} /\ \E t \in Threads : Users' = {t}
  BY <1>2, UserComes DEF Serial!Next
<1>3. CASE Users' = {} /\ \E t \in Threads : Users = {t}
  BY <1>3, UserGoes DEF Serial!Next
<1>4. \/ Users' = Users
      \/ Users = {} /\ \E t \in Threads : Users' = {t}
      \/ Users' = {} /\ \E t \in Threads : Users = {t}
  <2> DEFINE Change == \/ Users' = Users
                       \/ Users = {} /\ \E t \in Threads : Users' = {t}
                       \/ Users' = {} /\ \E t \in Threads : Users = {t}
  <2>0. /\ \A t \in Users : Users = {t} /\ t \in Threads
        /\ \A t \in Users' : Users' = {t} /\ t \in Threads
    <3>1. ExclusiveUse /\ ExclusiveUse'
      BY UsersAgree, UsersAgreeNext
    <3>2. Users' \subseteq Threads BY DEF Users, Threads
    <3> QED BY <3>1, <3>2, UsersTyped DEF ExclusiveUse
  <2>1. ASSUME scopes' = scopes, MainUses' = MainUses PROVE Users' = Users
    BY <2>1 DEF Users
  <2>2. ASSUME NEW t \in Threads, ThreadStep(t) \/ Call(t), ~Acquire(t), ~CloseScope(t)
        PROVE  Users' = Users
    <3>1. scopes' = scopes
      BY <2>2 DEF ThreadStep, LockFails, EnterLib, Throw, Return, CatchDisconnected, Call
    <3>2. MainUses' = MainUses
      <4>1. CASE CatchDisconnected(t)
        <5>1. t \in Workers /\ pc[t] # "idle"
          BY <4>1 DEF CatchDisconnected, IInv, MainIsPlain, Threads
        <5>2. phase \notin {"starting", "ending"} BY <5>1 DEF IInv, NoWorkers
        <5> QED BY <4>1, <5>2 DEF CatchDisconnected, MainUses
      <4> QED BY <2>2, <4>1
           DEF ThreadStep, LockFails, EnterLib, Throw, Return, Call, MainUses
    <3> QED BY <2>1, <3>1, <3>2
  <2>3. ASSUME NEW t \in Threads, Acquire(t) PROVE Change
    <3>1. MainUses' = MainUses BY <2>3 DEF Acquire, MainUses
    <3>2. scopes \in [Threads -> [Locks -> Nat]] /\ wants[t] \in Locks
      BY <2>3 DEF Acquire, IInv, TypeOK
    <3>3. scopes' = [scopes EXCEPT ![t][wants[t]] = @ + 1] BY <2>3 DEF Acquire
    <3>4. Users \subseteq Users'
      <4>1. \A w \in Workers : scopes[w]["global"] > 0 => scopes'[w]["global"] > 0
        BY <3>2, <3>3 DEF Threads, Locks
      <4> QED BY <3>1, <4>1 DEF Users
    <3> QED BY <2>0, <3>4
  <2>4. ASSUME NEW t \in Threads, CloseScope(t) PROVE Change
    <3>1. MainUses' = MainUses BY <2>4 DEF CloseScope, MainUses
    <3>2. /\ scopes \in [Threads -> [Locks -> Nat]] /\ Innermost(t) \in Locks
          /\ scopes[t][Innermost(t)] \in Nat \ {0}
      BY <2>4, InnermostOpen DEF CloseScope, IInv, TypeOK
    <3>3. scopes' = [scopes EXCEPT ![t][Innermost(t)] = @ - 1] BY <2>4 DEF CloseScope
    <3>4. Users' \subseteq Users
      <4>1. \A w \in Workers : scopes'[w]["global"] > 0 => scopes[w]["global"] > 0
        BY <3>2, <3>3 DEF Threads, Locks
      <4> QED BY <3>1, <4>1 DEF Users
    <3> QED BY <2>0, <3>4
  <2>5. ASSUME NEW l \in Locks, DestroyMutex(l) PROVE Users' = Users
    BY <2>5, <2>1 DEF DestroyMutex, MainUses
  <2>6. ASSUME Start \/ Unmount PROVE Change
    <3>1. scopes' = scopes /\ MainUses' /\ Main \in Users'
      BY <2>6 DEF Start, Unmount, MainUses, Users
    <3>2. ~MainUses /\ \A w \in Workers : pc[w] = "idle"
      BY <2>6 DEF Start, Unmount, MainUses, IInv, NoWorkers
    <3>3. \A w \in Workers : ~(scopes[w]["global"] > 0)
      BY <3>2 DEF IInv, IdleHoldsNothing, NoScope, Threads, Locks
    <3>4. Users = {} BY <3>2, <3>3 DEF Users
    <3> QED BY <2>0, <3>1, <3>4
  <2>7. ASSUME FuseMain PROVE Change
    <3>1. scopes' = scopes /\ ~MainUses' BY <2>7 DEF FuseMain, MainUses
    <3>2. Users' \subseteq Users BY <3>1 DEF Users
    <3> QED BY <2>0, <3>2
  <2>8. ASSUME Gone PROVE Change
    <3>1. Users' = {}
      BY <2>8 DEF Gone, ProcessEnds, Users, MainUses, NoScope, Threads, Locks
    <3> QED BY <2>0, <3>1
  <2>9. ASSUME UNCHANGED vars PROVE Users' = Users
    BY <2>1, <2>9 DEF vars, MainUses
  <2>10. Change
    <3>1. CASE UNCHANGED vars BY <3>1, <2>9
    <3>2. CASE \E t \in Threads : ThreadStep(t) \/ Call(t)
      BY <3>2, <2>2, <2>3, <2>4
    <3>3. CASE (\E l \in Locks : DestroyMutex(l)) \/ Start \/ FuseMain \/ Unmount \/ Gone
      BY <3>3, <2>5, <2>6, <2>7, <2>8
    <3> HIDE DEF Change
    <3> QED BY <3>1, <3>2, <3>3 DEF Next
  <2> QED BY <2>10
<1> QED BY <1>1, <1>2, <1>3, <1>4

(* The locks make the handlers, the start and the unmount take turns: the  *)
(* threads implement SerialUse.                                            *)
THEOREM Implements == Spec => ImplementsSerialUse
<1>1. Init => Serial!Init
  <2> SUFFICES ASSUME Init PROVE User = NoThread
    BY DEF Serial!Init
  <2>1. Users = {}
    BY DEF Init, Fresh, NoScope, Users, MainUses, Threads, Locks
  <2> QED BY <2>1 DEF User
<1>2. IInv /\ IInv' /\ [Next]_vars => [Serial!Next]_User
  BY StepSerial
<1> QED BY <1>1, <1>2, Invariance, PTL DEF Spec, ImplementsSerialUse, Serial!Spec
=============================================================================
