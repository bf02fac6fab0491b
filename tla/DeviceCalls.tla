----------------------------- MODULE DeviceCalls ----------------------------
(***************************************************************************)
(* MtpDevice as its one caller at a time sees it: the methods, each with   *)
(* its look at libmtp's error stack, and the file that SendFile describes  *)
(* and sends.  The contents arrive when the library call of SendFile comes *)
(* back with an object, and only then.                                     *)
(***************************************************************************)
EXTENDS LibmtpErrors

CONSTANTS Mimes, MaxSize, Buffer                       \* of FileTypes

ASSUME SizesAssumption == MaxSize \in Nat /\ Buffer \in Nat \ {0}

VARIABLES local, offset, filetype, stage, device, recognised   \* of FileTypes

File == INSTANCE FileTypes

fileVars == <<local, offset, filetype, stage, device, recognised>>

CallsTypeOK == TypeOK /\ File!TypeOK

CallsInit == Init /\ File!Init

\* Between two calls the local copy is edited, closed, looked at.
EditFile == /\ ~halfway /\ ~exited
            /\ File!Change \/ File!NewFile \/ File!Look
            /\ UNCHANGED vars

\* LIBMTP_Send_File_From_File_Descriptor.
SendFile ==
  /\ stage = "send"
  /\ Call("SendFile")
  /\ \/ answer'.outcome = "value" /\ File!Send
     \/ /\ answer'.outcome \in Thrown
        /\ stage' = "open" /\ UNCHANGED <<local, offset, filetype, device, recognised>>

OtherMethod == /\ stage = "open"
               /\ RenameFile \/ \E m \in (Strict \ {"SendFile"}) \cup Lenient : Call(m)
               /\ UNCHANGED fileVars

PullPlug == Unplug /\ UNCHANGED fileVars

CallsNext == EditFile \/ SendFile \/ OtherMethod \/ PullPlug

CallsSpec == CallsInit /\ [][CallsNext]_<<vars, fileVars>>
-----------------------------------------------------------------------------
(* Properties.                                                             *)

\* A save that is answered with success has put the whole local file on the
\* device: libmagic's look at its beginning costs none of it.
WholeFileSent ==
  [][stage = "send" /\ stage' = "open" /\ answer'.outcome = "value"
       => device'.holds = local]_<<vars, fileVars>>

\* Music and videos that libmagic recognises arrive as such, whatever the
\* file held when it was saved before and whatever failed in between; only
\* what it does not recognise has no type.
MediaArriveAsSuch == File!MediaArriveAsSuch
=============================================================================
