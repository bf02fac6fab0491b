-------------------------- MODULE DeviceCallsProofs -------------------------
(* Proofs about LibmtpErrors, for every number of calls and of errors a     *)
(* call may leave behind, and about DeviceCalls, for every set of MIME      *)
(* types, every file size and every number of calls.                        *)
EXTENDS DeviceCalls, SequenceTheorems, TLAPS

-----------------------------------------------------------------------------
\* The error stack of libmtp and what CheckErrors throws (LibmtpErrors).
Outcomes == Thrown \cup {"value", "empty"}

\* A failure that hid a disconnection has emptied the stack of a device that
\* is gone, so that the next call finds only what it pushes itself.
Masking == /\ checked <= calls
           /\ attached => masked = 0
           /\ masked > 0 => masked = 1 /\ stack = <<>>

IInv == TypeOK /\ FailuresSurface /\ ErrorsAreRecent /\ Masking

-----------------------------------------------------------------------------
(* The stack after a call: what was there, and behind it what the call has *)
(* pushed.                                                                 *)
LEMMA PushedStack ==
  ASSUME TypeOK, ErrorsAreRecent, Masking, MaxPushed \in Nat,
         NEW method, NEW library, NEW p \in Pushes(method, library)
  PROVE  /\ Pushed(p) \in Seq(Errors)
         /\ \A k \in DOMAIN Pushed(p) : Pushed(p)[k].call > checked
         /\ p # <<>> => Pushed(p) # <<>>
         /\ stack = <<>> /\ ~attached => Pushed(p)[1].kind = "no_device"
         /\ Pushed(p) # <<>> => Pushed(p)[1] \in Errors
<1> DEFINE q == [k \in DOMAIN p |-> [kind |-> p[k], call |-> calls + 1]]
<1>1. PICK n \in 0 .. MaxPushed : p \in [1 .. n -> Kinds]
  BY DEF Pushes
<1>2. p \in Seq(Kinds) /\ Len(p) = n /\ DOMAIN p = 1 .. n
  BY <1>1
<1>3. q \in [1 .. n -> Errors]
  BY <1>1, <1>2 DEF Errors, TypeOK
<1>4. q \in Seq(Errors) /\ Len(q) = n
  BY <1>3
<1>5. \A k \in 1 .. n : q[k].call = calls + 1 /\ q[k].kind = p[k]
  BY <1>2
<1>6. stack \in Seq(Errors) /\ calls \in Nat /\ checked \in Nat /\ checked <= calls
  BY DEF TypeOK, Masking
<1>7. DOMAIN stack = 1 .. Len(stack) /\ Len(stack) \in Nat
  BY <1>6
<1>8. Pushed(p) = stack \o q
  BY DEF Pushed
<1> HIDE DEF q
<1>9. /\ stack \o q \in Seq(Errors)
      /\ Len(stack \o q) = Len(stack) + Len(q)
      /\ \A i \in 1 .. Len(stack) + Len(q) :
           (stack \o q)[i] = IF i <= Len(stack) THEN stack[i] ELSE q[i - Len(stack)]
  BY <1>4, <1>6, ConcatProperties
<1> DEFINE r == stack \o q
<1> HIDE DEF r
<1>10. r \in Seq(Errors) /\ Len(r) = Len(stack) + n /\ DOMAIN r = 1 .. Len(stack) + n
  <2>1. r \in Seq(Errors) /\ Len(r) = Len(stack) + n
    BY <1>4, <1>9 DEF r
  <2> QED BY <2>1
<1>11. ASSUME NEW i \in DOMAIN r PROVE r[i].call > checked
  <2>1. r[i] = IF i <= Len(stack) THEN stack[i] ELSE q[i - Len(stack)]
    BY <1>4, <1>9, <1>10 DEF r
  <2>2. CASE i <= Len(stack)
    BY <2>1, <2>2, <1>7, <1>10 DEF ErrorsAreRecent
  <2>3. CASE ~(i <= Len(stack))
    <3>1. i - Len(stack) \in 1 .. n
      BY <2>3, <1>7, <1>10, <1>1
    <3> QED BY <3>1, <2>1, <2>3, <1>5, <1>6
  <2> QED BY <2>2, <2>3
<1>12. p # <<>> => r # <<>>
  <2> SUFFICES ASSUME p # <<>> PROVE r # <<>>
    OBVIOUS
  <2>1. n > 0
    BY <1>1, <1>2, EmptySeq
  <2>2. Len(r) > 0
    BY <2>1, <1>7, <1>10, <1>1
  <2> QED BY <2>2
<1>13. stack = <<>> /\ ~attached => r[1].kind = "no_device"
  <2> SUFFICES ASSUME stack = <<>>, ~attached PROVE r[1].kind = "no_device"
    OBVIOUS
  <2>1. p # <<>> /\ p[1] = "no_device"
    BY DEF Pushes
  <2>2. n > 0
    BY <2>1, <1>1, <1>2
  <2>3. Len(stack) = 0
    OBVIOUS
  <2>4. r[1] = q[1]
    BY <2>2, <2>3, <1>1, <1>4, <1>9 DEF r
  <2> QED BY <2>1, <2>2, <2>4, <1>1, <1>5
<1>14. r # <<>> => r[1] \in Errors
  BY <1>10, ElementOfSeq, EmptySeq
<1>15. Pushed(p) = r
  BY <1>8 DEF r
<1> QED BY <1>10, <1>11, <1>12, <1>13, <1>14, <1>15

-----------------------------------------------------------------------------
(* One method's use of one library call.                                   *)
LEMMA ThrownKind ==
  ASSUME NEW s \in Seq(Errors), s # <<>> => s[1] \in Errors
  PROVE  Oldest(s) \in Thrown
BY DEF Oldest, Thrown, Errors

LEMMA FailsKeeps ==
  ASSUME IInv, NEW method \in Strict \cup Lenient \cup {"RenameFile"},
         NEW library \in {"data", "nothing", "failed"}, library # "data",
         NEW found \in Seq(Errors),
         NEW outcome \in Outcomes, library = "failed" => outcome \in Thrown,
         stack = <<>> /\ ~attached => outcome = "no_device",
         Fails(method, library, found, outcome),
         calls' = calls + 1, UNCHANGED attached, halfway' \in BOOLEAN
  PROVE  IInv'
<1>1. stack' = <<>> /\ stack' \in Seq(Errors)
  BY DEF Fails, Cleared
<1>2. answer' \in Answers
  BY DEF Fails, Answers, Outcomes
<1>3. TypeOK'
  BY <1>1, <1>2 DEF IInv, TypeOK, Fails
<1>4. FailuresSurface'
  BY DEF FailuresSurface, Fails
<1>5. ErrorsAreRecent'
  BY <1>1 DEF ErrorsAreRecent
<1>6. Masking'
  <2>1. masked \in Nat /\ calls \in Nat /\ checked \in Nat
    BY DEF IInv, TypeOK
  <2>2. checked' <= calls'
    BY <2>1 DEF Fails
  <2>3. attached' => masked' = 0
    BY DEF Fails, IInv, Masking
  <2>4. masked' > 0 => masked' = 1
    <3>1. CASE masked > 0
      <4>1. stack = <<>> /\ ~attached /\ masked = 1
        BY <3>1, <2>1 DEF IInv, Masking
      <4>2. exited'
        BY <4>1 DEF Fails
      <4> QED BY <4>1, <4>2 DEF Fails
    <3>2. CASE ~(masked > 0)
      <4>1. masked = 0
        BY <3>2, <2>1
      <4> QED BY <4>1 DEF Fails
    <3> QED BY <3>1, <3>2
  <2> QED BY <1>1, <2>2, <2>3, <2>4 DEF Masking
<1> QED BY <1>3, <1>4, <1>5, <1>6 DEF IInv

LEMMA AnsweredKeeps ==
  ASSUME IInv, NEW method \in Strict \cup Lenient \cup {"RenameFile"},
         NEW found \in Seq(Errors), \A k \in DOMAIN found : found[k].call > checked,
         attached,
         Answered(method, "data", found, "value"),
         calls' = calls + 1, UNCHANGED attached, halfway' \in BOOLEAN
  PROVE  IInv'
<1>1. answer' \in Answers
  BY DEF Answered, Answers, Thrown
<1>2. TypeOK'
  BY <1>1 DEF IInv, TypeOK, Answered
<1>3. FailuresSurface'
  BY DEF FailuresSurface, Answered
<1>4. ErrorsAreRecent'
  BY DEF ErrorsAreRecent, Answered
<1>5. Masking'
  BY DEF Masking, Answered, IInv, TypeOK
<1> QED BY <1>2, <1>3, <1>4, <1>5 DEF IInv

-----------------------------------------------------------------------------
\* A strict method leaves IInv as it was, whatever its library call did.
LEMMA StrictlyKeeps ==
  ASSUME IInv, MaxPushed \in Nat, NEW method \in Strict \cup {"RenameFile"},
         NEW library \in {"data", "failed"}, NEW p \in Pushes(method, library),
         MayAnswer(library), Strictly(method, library, Pushed(p)),
         calls' = calls + 1, UNCHANGED attached, halfway' \in BOOLEAN
  PROVE  IInv'
<1>0. TypeOK /\ ErrorsAreRecent /\ Masking
  BY DEF IInv
<1>1. /\ Pushed(p) \in Seq(Errors)
      /\ \A k \in DOMAIN Pushed(p) : Pushed(p)[k].call > checked
      /\ p # <<>> => Pushed(p) # <<>>
      /\ stack = <<>> /\ ~attached => Pushed(p)[1].kind = "no_device"
      /\ Pushed(p) # <<>> => Pushed(p)[1] \in Errors
  BY <1>0, PushedStack
<1> DEFINE found == Pushed(p)
<1> HIDE DEF found
<1>2. CASE library = "failed"
  <2>1. Fails(method, library, found, Oldest(found))
    BY <1>2 DEF Strictly, found
  <2>2. Oldest(found) \in Thrown
    BY <1>1, ThrownKind DEF found
  <2>3. stack = <<>> /\ ~attached => Oldest(found) = "no_device"
    <3> SUFFICES ASSUME stack = <<>>, ~attached PROVE Oldest(found) = "no_device"
      OBVIOUS
    <3>1. p # <<>>
      BY DEF Pushes
    <3>2. found # <<>> /\ found[1].kind = "no_device"
      BY <3>1, <1>1 DEF found
    <3> QED BY <3>2 DEF Oldest
  <2>4. found \in Seq(Errors)
    BY <1>1 DEF found
  <2>5. Oldest(found) \in Outcomes
    BY <2>2 DEF Outcomes
  <2> QED BY <1>2, <2>1, <2>2, <2>3, <2>4, <2>5, FailsKeeps
<1>3. CASE library = "data"
  <2>1. Answered(method, "data", found, "value")
    BY <1>3 DEF Strictly, found
  <2>2. attached
    BY <1>3 DEF MayAnswer
  <2>3. found \in Seq(Errors) /\ \A k \in DOMAIN found : found[k].call > checked
    BY <1>1 DEF found
  <2> QED BY <2>1, <2>2, <2>3, AnsweredKeeps
<1> QED BY <1>2, <1>3

\* So does a listing, or the request of a model name.
LEMMA LenientlyKeeps ==
  ASSUME IInv, MaxPushed \in Nat, NEW method \in Lenient,
         NEW library \in {"data", "nothing", "failed"}, NEW p \in Pushes(method, library),
         MayAnswer(library), Leniently(method, library, Pushed(p)),
         calls' = calls + 1, UNCHANGED attached, halfway' \in BOOLEAN
  PROVE  IInv'
<1>0. TypeOK /\ ErrorsAreRecent /\ Masking
  BY DEF IInv
<1>1. /\ Pushed(p) \in Seq(Errors)
      /\ \A k \in DOMAIN Pushed(p) : Pushed(p)[k].call > checked
      /\ p # <<>> => Pushed(p) # <<>>
      /\ stack = <<>> /\ ~attached => Pushed(p)[1].kind = "no_device"
      /\ Pushed(p) # <<>> => Pushed(p)[1] \in Errors
  BY <1>0, PushedStack
<1> DEFINE found == Pushed(p)
           outcome == IF found = <<>> THEN "empty" ELSE Oldest(found)
<1> HIDE DEF found
<1>2. CASE library # "data"
  <2>1. Fails(method, library, found, outcome)
    BY <1>2 DEF Leniently, found
  <2>2. Oldest(found) \in Thrown
    BY <1>1, ThrownKind DEF found
  <2>3. library = "failed" => found # <<>>
    BY <1>1 DEF Pushes, found
  <2>4. stack = <<>> /\ ~attached => outcome = "no_device"
    <3> SUFFICES ASSUME stack = <<>>, ~attached PROVE outcome = "no_device"
      OBVIOUS
    <3>1. p # <<>>
      BY DEF Pushes
    <3>2. found # <<>> /\ found[1].kind = "no_device"
      BY <3>1, <1>1 DEF found
    <3> QED BY <3>2 DEF Oldest
  <2>5. found \in Seq(Errors)
    BY <1>1 DEF found
  <2>6. outcome \in Outcomes /\ (library = "failed" => outcome \in Thrown)
    BY <2>2, <2>3 DEF Outcomes
  <2> HIDE DEF outcome
  <2> QED BY <1>2, <2>1, <2>4, <2>5, <2>6, FailsKeeps
<1>3. CASE library = "data"
  <2>1. Answered(method, "data", found, "value")
    BY <1>3 DEF Leniently, found
  <2>2. attached
    BY <1>3 DEF MayAnswer
  <2>3. found \in Seq(Errors) /\ \A k \in DOMAIN found : found[k].call > checked
    BY <1>1 DEF found
  <2> QED BY <2>1, <2>2, <2>3, AnsweredKeeps
<1> QED BY <1>2, <1>3

-----------------------------------------------------------------------------
LEMMA Initially == Init => IInv
<1> SUFFICES ASSUME Init PROVE IInv
  OBVIOUS
<1>1. stack \in Seq(Errors)
  BY DEF Init
<1>2. answer \in Answers
  BY DEF Init, Answers, Thrown
<1>3. TypeOK
  BY <1>1, <1>2 DEF Init, TypeOK
<1> QED BY <1>3 DEF Init, IInv, FailuresSurface, ErrorsAreRecent, Masking

LEMMA Inductive == IInv /\ [Next]_vars => IInv'
<1> SUFFICES ASSUME IInv, [Next]_vars PROVE IInv'
  OBVIOUS
<1>0. MaxPushed \in Nat
  BY BoundsAssumption
<1>1. ASSUME NEW method \in Strict \cup Lenient, Call(method) PROVE IInv'
  <2>1. PICK library \in {"data", "nothing", "failed"} : \E p \in Pushes(method, library) :
          /\ MayAnswer(library) /\ ~halfway
          /\ \/ method \in Strict /\ library # "nothing" /\ Strictly(method, library, Pushed(p))
             \/ method \in Lenient /\ Leniently(method, library, Pushed(p))
          /\ calls' = calls + 1
          /\ UNCHANGED <<attached, halfway>>
    BY <1>1 DEF Call
  <2>2. PICK p \in Pushes(method, library) :
          /\ MayAnswer(library) /\ ~halfway
          /\ \/ method \in Strict /\ library # "nothing" /\ Strictly(method, library, Pushed(p))
             \/ method \in Lenient /\ Leniently(method, library, Pushed(p))
          /\ calls' = calls + 1
          /\ UNCHANGED <<attached, halfway>>
    BY <2>1
  <2>3. halfway' \in BOOLEAN
    BY <2>2 DEF IInv, TypeOK
  <2>4. CASE method \in Strict /\ library # "nothing" /\ Strictly(method, library, Pushed(p))
    BY <2>4, <2>2, <2>3, <1>0, StrictlyKeeps
  <2>5. CASE method \in Lenient /\ Leniently(method, library, Pushed(p))
    BY <2>5, <2>2, <2>3, <1>0, LenientlyKeeps
  <2> QED BY <2>2, <2>4, <2>5
<1>2. ASSUME RenameFile PROVE IInv'
  <2>1. PICK library \in {"data", "failed"} : \E p \in Pushes("RenameFile", library) :
          /\ MayAnswer(library)
          /\ Strictly("RenameFile", library, Pushed(p))
          /\ halfway' = (~halfway /\ library = "data")
          /\ calls' = calls + 1
          /\ UNCHANGED attached
    BY <1>2 DEF RenameFile
  <2>2. PICK p \in Pushes("RenameFile", library) :
          /\ MayAnswer(library)
          /\ Strictly("RenameFile", library, Pushed(p))
          /\ halfway' = (~halfway /\ library = "data")
          /\ calls' = calls + 1
          /\ UNCHANGED attached
    BY <2>1
  <2>3. halfway' \in BOOLEAN
    BY <2>2
  <2> QED BY <2>2, <2>3, <1>0, StrictlyKeeps
<1>3. ASSUME Unplug PROVE IInv'
  BY <1>3 DEF Unplug, IInv, TypeOK, FailuresSurface, ErrorsAreRecent, Masking
<1>4. ASSUME UNCHANGED vars PROVE IInv'
  BY <1>4 DEF vars, IInv, TypeOK, FailuresSurface, ErrorsAreRecent, Masking
<1> QED BY <1>1, <1>2, <1>3, <1>4 DEF Next

LEMMA Invariance == Spec => []IInv
BY Initially, Inductive, PTL DEF Spec

LEMMA Implied == IInv => UnplugMaskedOnce
BY DEF IInv, TypeOK, Masking, UnplugMaskedOnce

\* The type invariant, for every number of calls and errors.
THEOREM TypeCorrect == Spec => []TypeOK
<1>1. IInv => TypeOK
  BY DEF IInv
<1> QED BY <1>1, Invariance, PTL

\* No failed library call goes unnoticed: it ends in an exception, of a
\* strict method and of a listing alike.
THEOREM NoFailureLost == Spec => []FailuresSurface
<1>1. IInv => FailuresSurface
  BY DEF IInv
<1> QED BY <1>1, Invariance, PTL

\* An error on the stack is never older than the last failure: what
\* CheckErrors throws was pushed after it.
THEOREM NoOldErrors == Spec => []ErrorsAreRecent
<1>1. IInv => ErrorsAreRecent
  BY DEF IInv
<1> QED BY <1>1, Invariance, PTL

\* However many errors successful calls leave behind, a device that is gone
\* is noticed at the second failure at the latest.
THEOREM DisconnectionNoticed == Spec => []UnplugMaskedOnce
BY Invariance, Implied, PTL

-----------------------------------------------------------------------------
\* The methods among which files are edited and sent are those of
\* LibmtpErrors: what is proved of its error stack holds here.
THEOREM ImplementsErrors == CallsSpec => Spec
<1>1. CallsInit => Init
  BY DEF CallsInit
<1>2. [CallsNext]_<<vars, fileVars>> => [Next]_vars
  <2> SUFFICES ASSUME [CallsNext]_<<vars, fileVars>> PROVE [Next]_vars
    OBVIOUS
  <2>1. CASE EditFile
    BY <2>1 DEF EditFile
  <2>2. CASE SendFile
    BY <2>2 DEF SendFile, Next, Strict
  <2>3. CASE OtherMethod
    BY <2>3 DEF OtherMethod, Next
  <2>4. CASE PullPlug
    BY <2>4 DEF PullPlug, Next
  <2>5. CASE UNCHANGED <<vars, fileVars>>
    BY <2>5
  <2> QED BY <2>1, <2>2, <2>3, <2>4, <2>5 DEF CallsNext
<1> QED BY <1>1, <1>2, PTL DEF CallsSpec, Spec

\* No failed library call goes unnoticed, with files in play as well.
THEOREM FailuresSurfaceHere == CallsSpec => []FailuresSurface
BY ImplementsErrors, NoFailureLost, PTL

-----------------------------------------------------------------------------
\* A file that has been closed, and looked at by libmagic or not, is sent
\* from its start.
FromTheStart == /\ local \in File!Files
                /\ stage \in {"look", "send"} => offset = 0

LEMMA FromTheStartInitially == CallsInit => FromTheStart
BY SizesAssumption DEF CallsInit, File!Init, File!Empty, File!Files, File!Contents, FromTheStart

LEMMA FromTheStartKept == FromTheStart /\ [CallsNext]_<<vars, fileVars>> => FromTheStart'
<1> SUFFICES ASSUME FromTheStart, [CallsNext]_<<vars, fileVars>> PROVE FromTheStart'
  OBVIOUS
<1> USE DEF FromTheStart
<1>1. CASE File!Change
  BY <1>1 DEF File!Change, File!Files
<1>2. CASE File!NewFile
  BY <1>2 DEF File!NewFile, File!Files
<1>3. CASE File!Look
  BY <1>3 DEF File!Look, File!Files
<1>4. CASE File!Send
  BY <1>4 DEF File!Send, File!Files
<1>5. CASE stage' = "open" /\ UNCHANGED local
  BY <1>5 DEF File!Files
<1>6. CASE UNCHANGED fileVars
  BY <1>6 DEF fileVars, File!Files
<1> QED BY <1>1, <1>2, <1>3, <1>4, <1>5, <1>6
     DEF CallsNext, EditFile, SendFile, OtherMethod, PullPlug

\* Only a send that succeeds ends SendFile with an answer, and it sends what
\* is between the descriptor and the end of the file: all of it.
LEMMA SendsAll ==
  ASSUME FromTheStart, CallsNext, stage = "send", stage' = "open", answer'.outcome = "value"
  PROVE  device'.holds = local
<1>1. SendFile
  BY DEF CallsNext, EditFile, OtherMethod, PullPlug, fileVars,
         File!Change, File!NewFile, File!Look
<1>2. File!Send
  BY <1>1 DEF SendFile, Thrown, Kinds
<1>3. local \in [mime : Mimes \cup {File!NoMime}, size : 0 .. MaxSize] /\ offset = 0
  BY DEF FromTheStart, File!Files, File!Contents
<1>4. local = [mime |-> local.mime, size |-> local.size] /\ local.size \in Int
  BY <1>3, SizesAssumption
<1>5. device'.holds = [mime |-> local.mime, size |-> local.size - offset]
  BY <1>2 DEF File!Send
<1>6. local.size - offset = local.size
  BY <1>3, <1>4
<1> QED BY <1>4, <1>5, <1>6

\* A save that is answered with success has put the whole file on the device.
THEOREM SavesArriveWhole == CallsSpec => WholeFileSent
<1>1. FromTheStart /\ [CallsNext]_<<vars, fileVars>> =>
        [stage = "send" /\ stage' = "open" /\ answer'.outcome = "value"
           => device'.holds = local]_<<vars, fileVars>>
  BY SendsAll
<1> QED BY <1>1, FromTheStartInitially, FromTheStartKept, PTL DEF CallsSpec, WholeFileSent

-----------------------------------------------------------------------------
\* A type that suits a file of this MIME type: what MediaArriveAsSuch asks.
Fits(type, mime) ==
  /\ mime[1] = "audio" => type \in File!AudioTypes
  /\ mime[1] = "video" => type \in File!VideoTypes
  /\ type \in File!AudioTypes \cup File!VideoTypes
       => mime[1] \in {"audio", "video"} \/ mime = File!App("ogg")

\* Every row of the table suits the MIME types it names.
LEMMA NamedFits ==
  ASSUME NEW t \in DOMAIN File!Table, NEW mime \in File!Table[t]
  PROVE  Fits(t, mime)
BY DEF File!Table, Fits, File!Video, File!Audio, File!Image, File!App, File!Text,
       File!AudioTypes, File!VideoTypes

\* What PropertyTypeFromMimeType answers, by name or by prefix, suits the file.
LEMMA TypeFits ==
  ASSUME NEW mime
  PROVE  Fits(File!PropertyTypeFromMimeType(mime), mime)
<1>1. CASE mime \in File!Named
  <2>1. \E t \in DOMAIN File!Table : mime \in File!Table[t]
    BY <1>1 DEF File!Named
  <2>2. File!PropertyTypeFromMimeType(mime) \in DOMAIN File!Table
        /\ mime \in File!Table[File!PropertyTypeFromMimeType(mime)]
    BY <1>1, <2>1 DEF File!PropertyTypeFromMimeType
  <2> QED BY <2>2, NamedFits
<1>2. CASE mime \notin File!Named
  <2>1. File!PropertyTypeFromMimeType(mime) = File!ByPrefix(mime)
    BY <1>2 DEF File!PropertyTypeFromMimeType
  <2>2. mime = File!NoMime => mime[1] # "text"
    <3>1. File!NoMime[1] = ""
      BY DEF File!NoMime
    <3>2. "" # "text"
      OBVIOUS
    <3> QED BY <3>1, <3>2, Zenon
  <2> QED BY <2>1, <2>2 DEF File!ByPrefix, Fits, File!AudioTypes, File!VideoTypes
<1> QED BY <1>1, <1>2

\* The type in the description of the new object is unknown until libmagic
\* has answered, and then that of the file as it is now: no write comes between
\* the look and the send, and no type is left from an earlier save.
TypeLooked ==
  /\ stage = "look" => filetype = "UNKNOWN" /\ ~recognised
  /\ stage = "send" => filetype = IF recognised THEN File!PropertyTypeFromMimeType(local.mime)
                                                ELSE "UNKNOWN"
  /\ MediaArriveAsSuch

LEMMA TypeLookedInitially == CallsInit => TypeLooked
BY DEF CallsInit, File!Init, TypeLooked, MediaArriveAsSuch, File!MediaArriveAsSuch

LEMMA TypeLookedKept == TypeLooked /\ [CallsNext]_<<vars, fileVars>> => TypeLooked'
<1> SUFFICES ASSUME TypeLooked, [CallsNext]_<<vars, fileVars>> PROVE TypeLooked'
  OBVIOUS
<1> USE DEF TypeLooked, MediaArriveAsSuch, File!MediaArriveAsSuch
<1>1. CASE File!Change
  BY <1>1 DEF File!Change
<1>2. CASE File!NewFile
  BY <1>2 DEF File!NewFile
<1>3. CASE File!Look
  <2>1. filetype = "UNKNOWN" /\ ~recognised /\ stage' = "send" /\ UNCHANGED <<local, device>>
    BY <1>3 DEF File!Look
  <2>2. CASE UNCHANGED <<filetype, recognised>>
    BY <2>1, <2>2
  <2>3. CASE filetype' = File!PropertyTypeFromMimeType(local.mime) /\ recognised' = TRUE
    BY <2>1, <2>3
  <2> QED BY <1>3, <2>2, <2>3 DEF File!Look, File!AskMagic
<1>4. CASE File!Send
  <2>1. filetype = IF recognised THEN File!PropertyTypeFromMimeType(local.mime) ELSE "UNKNOWN"
    BY <1>4 DEF File!Send
  <2>2. IF recognised THEN Fits(filetype, local.mime) ELSE filetype = "UNKNOWN"
    BY <2>1, TypeFits
  <2>3. /\ device'.type = filetype /\ device'.holds.mime = local.mime
        /\ device'.recognised = recognised /\ stage' = "open"
    BY <1>4 DEF File!Send
  <2> QED BY <2>2, <2>3 DEF Fits
<1>5. CASE stage' = "open" /\ UNCHANGED device
  BY <1>5
<1>6. CASE UNCHANGED fileVars
  BY <1>6 DEF fileVars
<1> QED BY <1>1, <1>2, <1>3, <1>4, <1>5, <1>6
     DEF CallsNext, EditFile, SendFile, OtherMethod, PullPlug

\* Music and videos that libmagic recognises arrive on the device as such, and
\* only what it does not recognise has no type, after any number of saves and
\* failures, for every set of MIME types.
THEOREM MediaKeepTheirType == CallsSpec => []MediaArriveAsSuch
<1>1. TypeLooked => MediaArriveAsSuch
  BY DEF TypeLooked
<1> QED BY <1>1, TypeLookedInitially, TypeLookedKept, PTL DEF CallsSpec

\* PropertyTypeFromMimeType answers a type there is.
LEMMA TableTypes == ASSUME NEW mime PROVE File!PropertyTypeFromMimeType(mime) \in File!Types
<1>1. CASE mime \in File!Named
  <2>1. \E t \in DOMAIN File!Table : mime \in File!Table[t]
    BY <1>1 DEF File!Named
  <2> QED BY <1>1, <2>1 DEF File!PropertyTypeFromMimeType, File!Types
<1>2. CASE mime \notin File!Named
  <2>1. {"TEXT", "UNDEF_VIDEO", "UNDEF_AUDIO", "UNKNOWN"} \subseteq File!Types
    BY DEF File!Types, File!Table
  <2> QED BY <1>2, <2>1 DEF File!PropertyTypeFromMimeType, File!ByPrefix
<1> QED BY <1>1, <1>2

\* The types of FileTypes' variables need FromTheStart: a send from anywhere else
\* could be of less than nothing.
FileTypeCorrect == File!TypeOK /\ FromTheStart

LEMMA FileTypesInitially == CallsInit => FileTypeCorrect
<1> SUFFICES ASSUME CallsInit PROVE File!TypeOK
  BY FromTheStartInitially DEF FileTypeCorrect
<1>1. FromTheStart /\ "UNKNOWN" \in File!Types /\ 0 \in 0 .. MaxSize
  BY FromTheStartInitially, SizesAssumption DEF File!Types
<1>2. File!Empty \in File!Contents
  BY <1>1 DEF File!Empty, File!Contents
<1> QED BY <1>1, <1>2 DEF CallsInit, File!Init, File!TypeOK, FromTheStart

LEMMA FileTypesKept == FileTypeCorrect /\ [CallsNext]_<<vars, fileVars>> => FileTypeCorrect'
<1> SUFFICES ASSUME FileTypeCorrect, [CallsNext]_<<vars, fileVars>> PROVE File!TypeOK'
  BY FromTheStartKept DEF FileTypeCorrect
<1>f. FromTheStart' /\ FromTheStart
  BY FromTheStartKept DEF FileTypeCorrect
<1>l. local \in File!Files /\ local' \in File!Files
  BY <1>f DEF FromTheStart, File!Files
<1>0. /\ offset \in 0 .. MaxSize /\ filetype \in File!Types
      /\ stage \in {"open", "look", "send"}
      /\ device \in [type : File!Types, holds : File!Contents, recognised : BOOLEAN]
      /\ recognised \in BOOLEAN
  BY DEF FileTypeCorrect, File!TypeOK
<1>s. ASSUME offset' \in 0 .. MaxSize, filetype' \in File!Types,
             stage' \in {"open", "look", "send"},
             device' \in [type : File!Types, holds : File!Contents, recognised : BOOLEAN],
             recognised' \in BOOLEAN
      PROVE  File!TypeOK'
  BY <1>l, <1>s DEF File!TypeOK, File!Files, File!Contents, File!Types, File!Table, File!NoMime
<1>1. CASE File!Change
  BY <1>0, <1>1, <1>s DEF File!Change
<1>2. CASE File!NewFile
  <2>1. recognised' \in BOOLEAN /\ stage' = "look" /\ UNCHANGED device
    BY <1>2 DEF File!NewFile
  <2>2. offset' \in 0 .. MaxSize /\ filetype' \in File!Types
    BY <1>2, SizesAssumption DEF File!NewFile, File!Types
  <2> QED BY <1>0, <2>1, <2>2, <1>s
<1>3. CASE File!Look
  <2>1. stage' = "send" /\ UNCHANGED device
    BY <1>3 DEF File!Look
  <2>2. recognised' \in BOOLEAN
    BY <1>0, <1>3 DEF File!Look, File!AskMagic
  <2>3. filetype' \in File!Types
    BY <1>0, <1>3, TableTypes DEF File!Look, File!AskMagic
  <2>4. offset' \in 0 .. MaxSize
    BY <1>0, <1>3, SizesAssumption DEF File!Look
  <2> QED BY <1>0, <2>1, <2>2, <2>3, <2>4, <1>s
<1>4. CASE File!Send
  <2>1. local.mime \in Mimes \cup {File!NoMime} /\ local.size \in 0 .. MaxSize
    BY <1>l DEF File!Files, File!Contents
  <2>2. offset = 0
    BY <1>4, <1>f DEF File!Send, FromTheStart
  <2>3. local.size - offset = local.size
    BY <2>1, <2>2, SizesAssumption
  <2>4. [mime |-> local.mime, size |-> local.size - offset] \in File!Contents
    BY <2>1, <2>3 DEF File!Contents
  <2>5. /\ device' = [type |-> filetype, recognised |-> recognised,
                      holds |-> [mime |-> local.mime, size |-> local.size - offset]]
        /\ offset' = local.size /\ stage' = "open" /\ UNCHANGED <<filetype, recognised>>
    BY <1>4 DEF File!Send
  <2> DEFINE sent == [mime |-> local.mime, size |-> local.size - offset]
  <2>6. sent \in File!Contents /\ device' = [type |-> filetype, recognised |-> recognised, holds |-> sent]
    BY <2>4, <2>5
  <2> HIDE DEF sent
  <2>7. device' \in [type : File!Types, holds : File!Contents, recognised : BOOLEAN]
    BY <2>6, <1>0
  <2> QED BY <2>1, <2>5, <2>7, <1>0, <1>s
<1>5. CASE stage' = "open" /\ UNCHANGED <<local, offset, filetype, device, recognised>>
  BY <1>0, <1>5, <1>s
<1>6. CASE UNCHANGED fileVars
  BY <1>0, <1>6, <1>s DEF fileVars
<1> QED BY <1>1, <1>2, <1>3, <1>4, <1>5, <1>6
     DEF CallsNext, EditFile, SendFile, OtherMethod, PullPlug

\* The types of the error stack and of the file, kept by all methods together.
THEOREM CallsTypeCorrect == CallsSpec => []CallsTypeOK
<1>1. FileTypeCorrect => File!TypeOK
  BY DEF FileTypeCorrect
<1>2. TypeOK /\ File!TypeOK => CallsTypeOK
  BY DEF CallsTypeOK
<1> QED BY <1>1, <1>2, ImplementsErrors, TypeCorrect, FileTypesInitially, FileTypesKept, PTL
     DEF CallsSpec
=============================================================================
