---------------------------- MODULE LibmtpErrors ----------------------------
(***************************************************************************)
(* How MtpDevice.cpp turns failures of libmtp into exceptions.  libmtp     *)
(* keeps a stack of errors that only an explicit call clears; a method of  *)
(* MtpDevice looks at it only when its library call has failed (or, for a  *)
(* listing, has returned nothing), throws what the oldest error says, and  *)
(* clears it.  The library itself is external: a call that succeeds may    *)
(* leave errors behind (the constructor clears the stack after a           *)
(* successful open), and a call on a device that is gone fails and first   *)
(* pushes LIBMTP_ERROR_NO_DEVICE_ATTACHED.                                 *)
(***************************************************************************)
EXTENDS Naturals, Sequences

CONSTANTS MaxCalls,      \* bound: library calls of a behaviour
          MaxPushed      \* bound: errors one library call leaves on the stack

ASSUME BoundsAssumption == MaxCalls \in Nat /\ MaxPushed \in Nat \ {0}

VARIABLES attached,  \* is the device still on the bus?
          exited,    \* has a handler ended the process with exit(-1)?
          stack,     \* libmtp's error stack, oldest first: kind, and the call that pushed it
          calls,     \* library calls made so far
          checked,   \* the last call after which CheckErrors emptied the stack
          halfway,   \* has RenameFile made only the first of its two calls?
          masked,    \* failures since the device went that did not end the process
          answer     \* method, what the library said, what the method did with it

vars == <<attached, exited, stack, calls, checked, halfway, masked, answer>>

\* Methods of one library call that throw whenever it fails, and those that
\* take "no answer" for "nothing there" unless there is an error.
Strict  == {"GetStorageDevices", "GetFileInfo", "GetFile", "CreateFolder",
            "DeleteObject", "SendFile", "SetObjectProperty"}
Lenient == {"GetFolderContents", "Get_Modelname"}
Kinds   == {"no_device", "other"}
Thrown  == Kinds \cup {"not_found"}   \* ..., and ExpectedMtpErrorNotFound
Errors  == [kind : Kinds, call : Nat]

Answers == [method  : Strict \cup Lenient \cup {"none", "RenameFile"},
            library : {"data", "nothing", "failed"},
            outcome : Thrown \cup {"value", "empty"}]

TypeOK == /\ attached \in BOOLEAN /\ exited \in BOOLEAN /\ halfway \in BOOLEAN
          /\ stack \in Seq(Errors)
          /\ calls \in Nat /\ checked \in Nat /\ masked \in Nat
          /\ answer \in Answers

\* MtpDevice's constructor empties the stack of the device it has opened.
Init == /\ attached = TRUE /\ exited = FALSE /\ halfway = FALSE
        /\ stack = <<>> /\ calls = 0 /\ checked = 0 /\ masked = 0
        /\ answer = [method |-> "none", library |-> "data", outcome |-> "value"]

-----------------------------------------------------------------------------
(* The library.                                                            *)

\* The kinds of the errors a call may push, oldest first.  A listing that
\* fails pushes at least one; one that finds nothing has nothing to report.
Pushes(method, library) ==
  {p \in UNION {[1 .. n -> Kinds] : n \in 0 .. MaxPushed} :
     /\ attached => \A k \in DOMAIN p : p[k] = "other"
     /\ ~attached => p # <<>> /\ p[1] = "no_device"
     /\ library = "failed" /\ method \in Lenient => p # <<>>
     /\ library = "nothing" => p = <<>>}

\* The stack once this call has pushed p.
Pushed(p) == stack \o [k \in DOMAIN p |-> [kind |-> p[k], call |-> calls + 1]]

MayAnswer(library) == calls < MaxCalls /\ ~exited /\ (attached \/ library = "failed")

-----------------------------------------------------------------------------
(* MtpDevice.                                                              *)

\* What CheckErrors throws, given the stack it finds: what the oldest error
\* says, or ExpectedMtpErrorNotFound when there is none.
Oldest_Newest(s) == IF s = <<>> THEN "not_found" ELSE s[Len(s)].kind
Oldest(s) == IF s = <<>> THEN "not_found" ELSE s[1].kind

\* CheckErrors leaves the stack empty, whether it throws or not.
Cleared_Popped(s) == IF s = <<>> THEN s ELSE Tail(s)
Cleared(s) == <<>>

Fails(method, library, found, outcome) ==
  /\ stack' = Cleared(found)
  /\ checked' = calls + 1
  /\ exited' = (outcome = "no_device")
  /\ masked' = IF attached \/ exited' THEN masked ELSE masked + 1
  /\ answer' = [method |-> method, library |-> library, outcome |-> outcome]

Answered(method, library, found, outcome) ==
  /\ stack' = found
  /\ answer' = [method |-> method, library |-> library, outcome |-> outcome]
  /\ UNCHANGED <<checked, exited, masked>>

\* A strict method looks at the error stack only if its library call failed.
Strictly(method, library, found) ==
  IF library = "failed" THEN Fails(method, library, found, Oldest(found))
                        ELSE Answered(method, library, found, "value")

\* A listing or a model name: nothing came back.  CheckErrors(false) throws
\* if there is an error, and otherwise there is nothing to tell.
Leniently_Unchecked(method, library, found) ==
  IF library = "data" THEN Answered(method, library, found, "value")
                      ELSE Answered(method, library, found, "empty")

Leniently(method, library, found) ==
  IF library = "data" THEN Answered(method, library, found, "value")
  ELSE Fails(method, library, found, IF found = <<>> THEN "empty" ELSE Oldest(found))

Call(method) ==
  \E library \in {"data", "nothing", "failed"} : \E p \in Pushes(method, library) :
    /\ MayAnswer(library) /\ ~halfway
    /\ \/ method \in Strict /\ library # "nothing" /\ Strictly(method, library, Pushed(p))
       \/ method \in Lenient /\ Leniently(method, library, Pushed(p))
    /\ calls' = calls + 1
    /\ UNCHANGED <<attached, halfway>>

\* RenameFile fetches the object's metadata and then sets its name; each of
\* the two calls may fail, and an error the first one left is still there
\* when the second one fails.
RenameFile ==
  \E library \in {"data", "failed"} : \E p \in Pushes("RenameFile", library) :
    /\ MayAnswer(library)
    /\ Strictly("RenameFile", library, Pushed(p))
    /\ halfway' = (~halfway /\ library = "data")
    /\ calls' = calls + 1
    /\ UNCHANGED attached

Unplug == /\ attached
          /\ attached' = FALSE
          /\ UNCHANGED <<exited, stack, calls, checked, halfway, masked, answer>>

Next == \/ \E method \in Strict \cup Lenient : Call(method)
        \/ RenameFile
        \/ Unplug

Spec == Init /\ [][Next]_vars

-----------------------------------------------------------------------------
(* Properties.                                                             *)

\* A call the library failed always ends in an exception: no method goes on
\* with a null pointer (GetFileInfo, RenameFile), and a listing that failed
\* is never taken for an empty folder.
FailuresSurface == answer.library = "failed" => answer.outcome \in Thrown

\* An exception never tells of a call before the last failure: CheckErrors
\* leaves nothing behind for the next one.
ErrorsAreRecent == \A k \in DOMAIN stack : stack[k].call > checked

\* A device that is gone fails at most one operation with an ordinary error:
\* an error left by an earlier success may hide the disconnection once, and
\* then the process ends.
UnplugMaskedOnce == masked <= 1
=============================================================================
