----------------------------- MODULE SerialUse ------------------------------
(***************************************************************************)
(* What the locks of jmtpfs promise: the file system's state (metadata     *)
(* cache, local copies, the connection to the device) is used by one       *)
(* thread at a time, from the start of a use to its end.                   *)
(***************************************************************************)
CONSTANTS Threads, NoThread

VARIABLE user   \* the thread that uses the file system, NoThread if none

Begin(t) == user = NoThread /\ user' = t
End(t)   == user = t /\ user' = NoThread

Init == user = NoThread
Next == \E t \in Threads : Begin(t) \/ End(t)
Spec == Init /\ [][Next]_user
=============================================================================
