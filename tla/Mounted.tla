------------------------------- MODULE Mounted ------------------------------
(***************************************************************************)
(* A run of the program as its user sees it: a device is chosen, opened    *)
(* and mounted, and then every path the kernel names is looked up on that  *)
(* device and on no other.                                                 *)
(***************************************************************************)
EXTENDS DeviceSelection

CONSTANTS Names, TooLong, Slash, Trees                 \* of FilesystemPath

ASSUME NamesAssumption == TooLong \subseteq Names /\ Slash \notin Names

VARIABLES tree, known, asked, op, at, rest, result     \* of FilesystemPath

Path == INSTANCE FilesystemPath

\* On every device there is a root, a thing lies in folders that are there,
\* and nothing lies below a file.
ASSUME TreesAssumption ==
  \A t \in Trees :
    /\ DOMAIN t \subseteq Seq(Names) /\ <<>> \in DOMAIN t /\ t[<<>>] = "root"
    /\ \A q \in DOMAIN t : \A k \in 0 .. Len(q) :
         SubSeq(q, 1, k) \in DOMAIN t /\ (k < Len(q) => t[SubSeq(q, 1, k)] # "file")

pathVars == <<tree, known, asked, op, at, rest, result>>

MountedTypeOK == /\ TypeOK /\ Path!TypeOK
                 /\ stage # "mounted" => known = {<<>>} /\ result = "idle"

MountedInit == Init /\ Path!Init

\* fuse_main serves the paths once a device has been opened.
Serve == stage = "mounted" /\ Path!Next /\ UNCHANGED vars

MountedNext == (Next /\ UNCHANGED pathVars) \/ Serve

MountedSpec == MountedInit /\ [][MountedNext]_<<vars, pathVars>>
-----------------------------------------------------------------------------
(* Properties.                                                             *)

\* A path leads to the node of exactly its names: nothing is skipped, taken
\* twice or mistaken for another.  Only a path that names nothing and goes on
\* below a file ends at that file.
Resolves == Path!Resolves

\* Only a path that names nothing is answered with ENOENT, and only one with
\* a name over the limit with ENAMETOOLONG.
NoFalseError == Path!NoFalseError

\* A file or folder is made at the path that was asked for: the directory
\* AllButTail leads to, with what Tail returns, is that path again.
MadeWhereAsked == Path!MadeWhereAsked
=============================================================================
