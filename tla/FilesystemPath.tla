--------------------------- MODULE FilesystemPath ---------------------------
(***************************************************************************)
(* From the path the kernel names to the node jmtpfs works on: cutting a   *)
(* path up (MtpFilesystemPath.cpp) and descending one getNode at a time    *)
(* from the context to the root, a storage and its folders.  A path is a   *)
(* sequence of names and slashes; a name is never cut, so it is a value.   *)
(* The device's user may replace things between two operations, and the    *)
(* kernel goes on naming what it has found before.                         *)
(***************************************************************************)
EXTENDS Naturals, Sequences, SequencesExt

CONSTANTS Names,     \* names of storages, folders and files
          TooLong,   \* the names longer than MAX_MTP_NAME_LENGTH
          Slash,     \* the character "/"
          Trees      \* what the device may hold: the kind of the node at each list of names

Kinds == {"root", "storage", "folder", "file"}

VARIABLES tree,    \* what is on the device
          known,   \* the directories the kernel has looked up, as lists of names
          asked,   \* the names of the path of the current operation
          op,      \* does it work on the node at the path, or make one there?
          at,      \* where the descent is: the list of names of a node
          rest,    \* the path still to go
          result   \* "idle", "context", "descending", or how the descent ended

vars == <<tree, known, asked, op, at, rest, result>>

-----------------------------------------------------------------------------
(* FilesystemPath.                                                         *)

IsSlash(c) == c = Slash
FirstSlash(path) == SelectInSeq(path, IsSlash)      \* 0 for std::string::npos
LastSlash(path)  == SelectLastInSeq(path, IsSlash)

Empty(path) == path = <<>>

\* FilesystemPath::Head, without its exception: the name before the first
\* slash, or the slash itself when the path starts with it.
HeadName(path) ==
  IF FirstSlash(path) = 0 THEN path
  ELSE IF FirstSlash(path) = 1 THEN <<Slash>>
  ELSE SubSeq(path, 1, FirstSlash(path) - 1)

\* FilesystemPath::Head throws MtpNameTooLong instead.
HeadTooLong(path) == \E k \in DOMAIN HeadName(path) : HeadName(path)[k] \in TooLong

Body_KeepsSlash(path) ==
  IF FirstSlash(path) = 0 THEN <<>> ELSE SubSeq(path, FirstSlash(path), Len(path))
Body(path) ==
  IF FirstSlash(path) = 0 THEN <<>> ELSE SubSeq(path, FirstSlash(path) + 1, Len(path))

AllButTail_FirstSlash(path) ==
  IF LastSlash(path) = 0 THEN <<>>
  ELSE IF FirstSlash(path) = 1 THEN <<Slash>>
  ELSE SubSeq(path, 1, LastSlash(path) - 1)
AllButTail(path) ==
  IF LastSlash(path) = 0 THEN <<>>
  ELSE IF LastSlash(path) = 1 THEN <<Slash>>
  ELSE SubSeq(path, 1, LastSlash(path) - 1)

PathTail(path) == SubSeq(path, LastSlash(path) + 1, Len(path))

-----------------------------------------------------------------------------
(* The kernel and the device (external).                                   *)

\* The path libfuse builds for a list of names.
PathOf(names) ==
  IF names = <<>> THEN <<Slash>>
  ELSE [k \in 1 .. 2 * Len(names) |-> IF k % 2 = 1 THEN Slash ELSE names[k \div 2]]

Init == /\ tree \in Trees
        /\ known = {<<>>}
        /\ asked = <<>> /\ op = "node" /\ at = <<>> /\ rest = <<>>
        /\ result = "idle"

\* A system call: on the root, or on a name in a directory the kernel knows.
Operation(names, o) ==
  /\ result \notin {"context", "descending"}
  /\ asked' = names /\ op' = o /\ at' = <<>>
  /\ rest' = IF o = "make" THEN AllButTail(PathOf(names)) ELSE PathOf(names)
  /\ result' = "context"
  /\ UNCHANGED <<tree, known>>

Kernel == \/ Operation(<<>>, "node")
          \/ \E d \in known, n \in Names, o \in {"node", "make"} : Operation(Append(d, n), o)

\* The kernel remembers a directory it has found, and forgets one that is gone.
KernelLearns ==
  /\ op = "node" /\ result \in {"found", "ENOENT"}
  /\ known' = IF result = "found" /\ tree[at] # "file" THEN known \cup {asked}
              ELSE {d \in known : ~IsPrefix(asked, d)}
  /\ known' # known
  /\ UNCHANGED <<tree, asked, op, at, rest, result>>

\* Someone uses the device.  What jmtpfs has of it is what its listings say
\* during the operation, so the tree stays put while one runs.
DeviceChanges ==
  /\ result \notin {"context", "descending"}
  /\ tree' \in Trees \ {tree}
  /\ asked' = <<>> /\ op' = "node" /\ at' = <<>> /\ rest' = <<>>
  /\ result' = "idle"
  /\ UNCHANGED known

-----------------------------------------------------------------------------
(* The descent.                                                            *)

Ends(r) == result' = r /\ UNCHANGED <<tree, known, asked, op, at, rest>>

\* MtpFuseContext::getNode: the root itself, or on with what is after the
\* leading slash.
ContextGetNode ==
  /\ result = "context"
  /\ \/ HeadName(rest) # <<Slash>> /\ Ends("ENOENT")
     \/ rest = <<Slash>> /\ Ends("found")
     \/ /\ HeadName(rest) = <<Slash>> /\ rest # <<Slash>>
        /\ rest' = Body(rest)
        /\ result' = "descending"
        /\ UNCHANGED <<tree, known, asked, op, at>>

Child == at \o HeadName(rest)

\* The node under this name has been found: it is the one, or the descent
\* goes on in it with the rest of the path.  A file is always the one.
EnterChild_FirstIsIt ==
  /\ at' = Child /\ rest' = Body(rest)
  /\ result' = "found"
  /\ UNCHANGED <<tree, known, asked, op>>
EnterChild ==
  /\ at' = Child /\ rest' = Body(rest)
  /\ result' = IF tree[Child] = "file" \/ Empty(Body(rest)) THEN "found" ELSE "descending"
  /\ UNCHANGED <<tree, known, asked, op>>

\* MtpRoot::getNode among the storages, MtpFolder::getNode among the children.
GetNode ==
  /\ result = "descending"
  /\ \/ at = <<>> /\ Empty(rest) /\ Ends("ENOENT")
     \/ /\ at # <<>> \/ ~Empty(rest)
        /\ \/ HeadTooLong(rest) /\ Ends("ENAMETOOLONG")
           \/ ~HeadTooLong(rest) /\ Child \notin DOMAIN tree /\ Ends("ENOENT")
           \/ ~HeadTooLong(rest) /\ Child \in DOMAIN tree /\ EnterChild

Next == Kernel \/ KernelLearns \/ DeviceChanges \/ ContextGetNode \/ GetNode

Spec == Init /\ [][Next]_vars
-----------------------------------------------------------------------------
(* Properties.                                                             *)

\* Everything that is a directory on the device at some time.
Directories == UNION {{q \in DOMAIN t : t[q] # "file"} : t \in Trees}

TypeOK == /\ tree \in Trees
          /\ known \subseteq Directories /\ <<>> \in known
          /\ asked \in {<<>>} \cup {Append(q, n) : q \in Directories, n \in Names}
          /\ at \in DOMAIN tree
          /\ rest \in Seq(Names \cup {Slash})
          /\ op \in {"node", "make"}
          /\ result \in {"idle", "context", "descending", "found", "ENOENT", "ENAMETOOLONG"}

\* The names the descent follows: those of the path, or of its parent.
Followed == IF op = "make" THEN Front(asked) ELSE asked

\* A path leads to the node of exactly its names: nothing is skipped, taken
\* twice or mistaken for another.  Only a path that names nothing and goes on
\* below a file ends at that file.
Resolves ==
  result = "found" =>
    \/ at = Followed
    \/ Followed \notin DOMAIN tree /\ IsStrictPrefix(at, Followed) /\ tree[at] = "file"

\* Only a path that names nothing is answered with ENOENT, and only one
\* with a name over the limit with ENAMETOOLONG.
NoFalseError ==
  /\ result = "ENOENT" => Followed \notin DOMAIN tree
  /\ result = "ENAMETOOLONG" => \E k \in DOMAIN Followed : Followed[k] \in TooLong

\* A file or folder is made at the path that was asked for: the directory
\* AllButTail leads to, with what Tail returns, is that path again.
MadeWhereAsked ==
  op = "make" /\ result = "found" /\ tree[at] # "file"
    => at \o PathTail(PathOf(asked)) = asked
=============================================================================
