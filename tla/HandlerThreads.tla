--------------------------- MODULE HandlerThreads ---------------------------
(***************************************************************************)
(* The threads of a mounted jmtpfs and its two recursive mutexes: the      *)
(* global lock of the FUSE handlers (jmtpfs.cpp) and the lock around       *)
(* libmtp (MtpLibLock).  A handler runs inside one scope of the global     *)
(* lock; each call of MtpDevice opens a scope of the lib lock, and a call  *)
(* that fails opens another one in CheckErrors.  An exception closes the   *)
(* scopes on its way to the catch clauses of the handler.  The main thread *)
(* uses the device before fuse_main, and the cache and the device after    *)
(* it, under the lib lock alone.                                           *)
(*                                                                         *)
(* A disconnected device ends in exit(-1), called with the global lock     *)
(* already released: the other threads run on while the static mutexes are *)
(* destroyed.                                                              *)
(***************************************************************************)
EXTENDS Naturals

CONSTANTS Workers,   \* threads of libfuse that run handlers
          Main,      \* the main thread
          NoThread,  \* the owner of a free mutex
          MaxNest,   \* deepest nesting of lib lock scopes
          MaxWork,   \* device calls a handler makes, nested ones included
          MaxCalls   \* FUSE calls during one mount

Threads == Workers \cup {Main}
Locks   == {"global", "lib"}

ASSUME ThreadsAssumption ==
         /\ Main \notin Workers /\ NoThread \notin Threads
         /\ MaxNest \in Nat /\ MaxWork \in Nat /\ MaxCalls \in Nat

VARIABLES owner,     \* pthread: the thread that holds a mutex
          depth,     \* pthread: how many times it has locked it
          destroyed, \* the mutexes whose destructor has run
          scopes,    \* C++: open LockMutex and MtpLibLock objects of a thread
          wants,     \* the mutex a thread is locking, "none" if it is not
          pc,        \* "idle", "run", or unwinding: "error", "disconnected"; "exit"
          work,      \* device calls a thread may still make
          calls,     \* FUSE calls still to come
          phase      \* "starting", "mounted", "ending", "exiting", "gone"

mutexes == <<owner, depth, destroyed>>
vars    == <<owner, depth, destroyed, scopes, wants, pc, work, calls, phase>>

NoScope == [l \in Locks |-> 0]
Fresh   == /\ owner = [l \in Locks |-> NoThread] /\ depth = NoScope /\ destroyed = {}
           /\ scopes = [t \in Threads |-> NoScope]
           /\ wants = [t \in Threads |-> "none"]

Init == /\ Fresh
        /\ pc = [t \in Threads |-> "idle"]
        /\ work = [t \in Threads |-> 0] /\ calls = 0 /\ phase = "gone"

TypeOK == /\ owner \in [Locks -> Threads \cup {NoThread}]
          /\ depth \in [Locks -> Nat] /\ destroyed \in SUBSET Locks
          /\ scopes \in [Threads -> [Locks -> Nat]]
          /\ wants \in [Threads -> Locks \cup {"none"}]
          /\ pc \in [Threads -> {"idle", "run", "error", "disconnected", "exit"}]
          /\ work \in [Threads -> 0 .. MaxWork] /\ calls \in 0 .. MaxCalls
          /\ phase \in {"starting", "mounted", "ending", "exiting", "gone"}

-----------------------------------------------------------------------------
(* RecursiveMutex::Lock and Unlock, called by the constructor and the      *)
(* destructor of a scope object.                                           *)
Locked_Uncounted(t, l) ==                    \* mutant: the first lock is not counted
  /\ owner[l] \in {NoThread, t}
  /\ owner' = [owner EXCEPT ![l] = t]
  /\ depth' = [depth EXCEPT ![l] = IF owner[l] = t THEN @ + 1 ELSE 0]

Locked(t, l) == /\ owner[l] \in {NoThread, t}
                /\ owner' = [owner EXCEPT ![l] = t]
                /\ depth' = [depth EXCEPT ![l] = @ + 1]

Unlocked(l) ==
  /\ owner' = [owner EXCEPT ![l] = IF depth[l] = 1 THEN NoThread ELSE @]
  /\ depth' = [depth EXCEPT ![l] = @ - 1]

(* The scope that closes next: lib scopes lie inside the global one.       *)
Innermost(t) == IF scopes[t]["lib"] > 0 THEN "lib" ELSE "global"

Active(t)    == phase # "gone" /\ pc[t] # "idle" /\ wants[t] = "none"
Unwinding(t) == pc[t] \in {"error", "disconnected"}

(* The lock is granted to a blocked thread.  A mutex destroyed meanwhile   *)
(* may still be granted to it.                                             *)
Acquire(t) ==
  /\ phase # "gone" /\ wants[t] # "none"
  /\ Locked(t, wants[t])
  /\ scopes' = [scopes EXCEPT ![t][wants[t]] = @ + 1]
  /\ wants' = [wants EXCEPT ![t] = "none"]
  /\ UNCHANGED <<destroyed, pc, work, calls, phase>>

(* pthread_mutex_lock on a destroyed mutex: checkPthreadError throws.      *)
LockFails(t) ==
  /\ phase # "gone" /\ wants[t] \in destroyed
  /\ pc' = [pc EXCEPT ![t] = "error"]
  /\ wants' = [wants EXCEPT ![t] = "none"]
  /\ UNCHANGED <<mutexes, scopes, work, calls, phase>>

CloseScope_UnlessThrown(t) ==                \* mutant: an exception keeps the locks
  /\ Active(t) /\ pc[t] # "exit" /\ scopes[t] # NoScope
  /\ Innermost(t) \notin destroyed
  /\ IF Unwinding(t) THEN UNCHANGED <<owner, depth>> ELSE Unlocked(Innermost(t))
  /\ scopes' = [scopes EXCEPT ![t][Innermost(t)] = @ - 1]
  /\ UNCHANGED <<destroyed, wants, pc, work, calls, phase>>

CloseScope(t) ==
  /\ Active(t) /\ pc[t] # "exit" /\ scopes[t] # NoScope
  /\ Innermost(t) \notin destroyed
  /\ Unlocked(Innermost(t))
  /\ scopes' = [scopes EXCEPT ![t][Innermost(t)] = @ - 1]
  /\ UNCHANGED <<destroyed, wants, pc, work, calls, phase>>

-----------------------------------------------------------------------------
(* A handler: FUSE_ERROR_BLOCK_START.  libfuse has workers for as long as  *)
(* the process lives, also while exit runs.                                *)
Call_Unlocked(t) ==                          \* mutant: LockMutex does not lock
  /\ t \in Workers /\ phase \in {"mounted", "exiting"} /\ calls > 0 /\ pc[t] = "idle"
  /\ calls' = calls - 1
  /\ pc' = [pc EXCEPT ![t] = "run"]
  /\ scopes' = [scopes EXCEPT ![t]["global"] = 1]
  /\ \E n \in 0 .. MaxWork : work' = [work EXCEPT ![t] = n]
  /\ UNCHANGED <<mutexes, wants, phase>>

Call(t) ==
  /\ t \in Workers /\ phase \in {"mounted", "exiting"} /\ calls > 0 /\ pc[t] = "idle"
  /\ calls' = calls - 1
  /\ pc' = [pc EXCEPT ![t] = "run"]
  /\ wants' = [wants EXCEPT ![t] = "global"]
  /\ \E n \in 0 .. MaxWork : work' = [work EXCEPT ![t] = n]
  /\ UNCHANGED <<mutexes, scopes, phase>>

EnterLib_Retries(t) ==                       \* mutant: a failed call is repeated without end
  /\ Active(t) /\ pc[t] = "run" /\ work[t] > 0
  /\ t \in Workers => scopes[t]["global"] > 0
  /\ scopes[t]["lib"] < MaxNest
  /\ wants' = [wants EXCEPT ![t] = "lib"]
  /\ UNCHANGED <<mutexes, scopes, pc, work, calls, phase>>

(* A method of MtpDevice or ConnectedMtpDevices, or one such method called *)
(* by another: CheckErrors, or MtpDevice's constructor under GetDevice.    *)
EnterLib(t) ==
  /\ Active(t) /\ pc[t] = "run" /\ work[t] > 0
  /\ t \in Workers => scopes[t]["global"] > 0
  /\ scopes[t]["lib"] < MaxNest
  /\ work' = [work EXCEPT ![t] = @ - 1]
  /\ wants' = [wants EXCEPT ![t] = "lib"]
  /\ UNCHANGED <<mutexes, scopes, pc, calls, phase>>

(* An exception of a handler; only CheckErrors throws "disconnected".      *)
Throw(t) ==
  /\ t \in Workers /\ Active(t) /\ pc[t] = "run" /\ scopes[t]["global"] > 0
  /\ \E e \in IF scopes[t]["lib"] > 0 THEN {"error", "disconnected"} ELSE {"error"} :
       pc' = [pc EXCEPT ![t] = e]
  /\ UNCHANGED <<mutexes, scopes, wants, work, calls, phase>>

(* The handler returns, or a catch clause turns the exception into an      *)
(* error number.                                                           *)
Return(t) ==
  /\ t \in Workers /\ Active(t) /\ pc[t] \in {"run", "error"} /\ scopes[t] = NoScope
  /\ pc' = [pc EXCEPT ![t] = "idle"]
  /\ work' = [work EXCEPT ![t] = 0]
  /\ UNCHANGED <<mutexes, scopes, wants, calls, phase>>

(* catch(MtpDeviceDisconnected&): the lock is an object of the try block,  *)
(* so it is released before exit(-1) is called.                            *)
CatchDisconnected(t) ==
  /\ Active(t) /\ pc[t] = "disconnected" /\ scopes[t] = NoScope
  /\ pc' = [pc EXCEPT ![t] = "exit"] /\ phase' = "exiting"
  /\ UNCHANGED <<mutexes, scopes, wants, work, calls>>

(* exit runs the destructors of the mutexes; pthread_mutex_destroy refuses *)
(* one that is held.                                                       *)
DestroyMutex(l) ==
  /\ phase = "exiting" /\ l \notin destroyed /\ owner[l] = NoThread
  /\ destroyed' = destroyed \cup {l}
  /\ UNCHANGED <<owner, depth, scopes, wants, pc, work, calls, phase>>

-----------------------------------------------------------------------------
(* The process: start, mount, unmount, end.                                *)
ProcessEnds ==
  /\ owner' = [l \in Locks |-> NoThread] /\ depth' = NoScope /\ destroyed' = {}
  /\ scopes' = [t \in Threads |-> NoScope] /\ wants' = [t \in Threads |-> "none"]
  /\ pc' = [t \in Threads |-> "idle"] /\ work' = [t \in Threads |-> 0]
  /\ calls' = 0 /\ phase' = "gone"

(* main: devices are detected and one is opened.                           *)
Start ==
  /\ phase = "gone" /\ phase' = "starting" /\ calls' = MaxCalls
  /\ pc' = [pc EXCEPT ![Main] = "run"] /\ work' = [work EXCEPT ![Main] = MaxWork]
  /\ UNCHANGED <<mutexes, scopes, wants>>

MainWaits == pc[Main] = "run" /\ wants[Main] = "none" /\ scopes[Main] = NoScope

FuseMain ==
  /\ phase = "starting" /\ MainWaits /\ phase' = "mounted"
  /\ pc' = [pc EXCEPT ![Main] = "idle"] /\ work' = [work EXCEPT ![Main] = 0]
  /\ UNCHANGED <<mutexes, scopes, wants, calls>>

Unmount_WithHandlers ==                      \* mutant: the workers are not joined
  /\ phase = "mounted" /\ phase' = "ending" /\ calls' = 0
  /\ pc' = [pc EXCEPT ![Main] = "run"] /\ work' = [work EXCEPT ![Main] = MaxWork]
  /\ UNCHANGED <<mutexes, scopes, wants>>

(* fuse_main joins its workers and returns; the context is destroyed.      *)
Unmount ==
  /\ phase = "mounted" /\ \A t \in Workers : pc[t] = "idle"
  /\ phase' = "ending" /\ calls' = 0
  /\ pc' = [pc EXCEPT ![Main] = "run"] /\ work' = [work EXCEPT ![Main] = MaxWork]
  /\ UNCHANGED <<mutexes, scopes, wants>>

(* main returns, an exception leaves main or a destructor, exit is done,   *)
(* or a lock that was destroyed cannot be unlocked: std::terminate.        *)
Gone ==
  /\ \/ phase = "ending" /\ MainWaits
     \/ phase \in {"starting", "ending"} /\ wants[Main] = "none"
     \/ phase = "exiting"
  /\ ProcessEnds

ThreadStep(t) == \/ Acquire(t) \/ LockFails(t) \/ CloseScope(t) \/ EnterLib(t)
                 \/ Throw(t) \/ Return(t) \/ CatchDisconnected(t)
Next == \/ \E t \in Threads : ThreadStep(t) \/ Call(t)
        \/ \E l \in Locks : DestroyMutex(l)
        \/ Start \/ FuseMain \/ Unmount \/ Gone

Spec == Init /\ [][Next]_vars
(* The scheduler runs every thread that can run, exit comes to an end, and *)
(* main goes on when its calls have returned.                              *)
FairSpec == /\ Spec /\ \A t \in Threads : WF_vars(ThreadStep(t))
            /\ WF_vars(FuseMain) /\ WF_vars(Gone)

-----------------------------------------------------------------------------
(* Every open scope object stands for one count of its mutex, also while   *)
(* an exception unwinds: no lock is leaked and none is released early.     *)
Balanced == \A t \in Threads, l \in Locks :
              scopes[t][l] = IF owner[l] = t THEN depth[l] ELSE 0

(* The main thread uses the context without the global lock.               *)
MainUses == phase \in {"starting", "ending"}
Users    == {t \in Workers : scopes[t]["global"] > 0} \cup (IF MainUses THEN {Main} ELSE {})

(* The cache, the local copies and the device are used by one thread at a  *)
(* time, through start, unmount and exit.                                  *)
ExclusiveUse == \A t, u \in Users : t = u

(* The program implements SerialUse.                                       *)
User   == IF Users = {} THEN NoThread ELSE CHOOSE t \in Users : TRUE
Serial == INSTANCE SerialUse WITH user <- User
ImplementsSerialUse == Serial!Spec

(* Every call a worker takes up is answered, unless the process ends.      *)
CallsReturn == \A t \in Workers : pc[t] # "idle" ~> (pc[t] = "idle" \/ phase = "gone")
=============================================================================
