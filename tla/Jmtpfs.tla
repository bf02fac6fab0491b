------------------------------- MODULE Jmtpfs -------------------------------
(***************************************************************************)
(* The file system: the FUSE handlers of jmtpfs.cpp and the node classes   *)
(* MtpFolder, MtpStorage and MtpFile they call, over the metadata cache,   *)
(* the local copies of opened files and the device.                        *)
(*                                                                         *)
(* One handler runs at a time (globalLock).  A handler is a list of steps  *)
(* still to do; each step is one call of the code that changes the device, *)
(* with the cache reads before it and the bookkeeping after it, so that a  *)
(* device failure or the death of the process can fall between any two     *)
(* changes of the device.  An exception drops the steps that are left.     *)
(***************************************************************************)
EXTENDS MtpDevice, SequencesExt

CONSTANTS Handles,    \* file handles the kernel may hold
          MaxDepth,   \* longest path below a storage the kernel looks up
          Ops,        \* the FUSE operations the kernel issues
          MaxFaults   \* device failures and deaths of the process

ASSUME JmtpfsAssumption == /\ MaxDepth \in Nat \ {0} /\ MaxFaults \in Nat
                           /\ IsFiniteSet(Handles)

Paths == {Cons(s, names) : s \in Storages, names \in SeqOf(Names, MaxDepth)}
Codes == {"ok", "ENOENT", "ENOTEMPTY", "EROFS", "EIO"}

VARIABLES cache,      \* MtpMetadataCache: node id -> metadata
          localFiles, \* m_localFileCache: file id -> local copy
          todo,       \* the steps left of the handler that runs
          reply,      \* what the handler returns
          call,       \* the FUSE call being served
          handles,    \* kernel: handle -> path of the open file, <<>> if closed
          proc,       \* "up", "down" (exited or killed), "crashed"
          faults,     \* failures that may still happen
          pre         \* history: the file system when the call began

device  == <<objs, nextId>>
process == <<cache, localFiles, todo, reply>>
vars    == <<device, process, call, handles, proc, faults, pre>>

Node     == [id : NodeIds, file : BOOLEAN]
Entry    == [id : ObjIds, name : Names, file : BOOLEAN]
Metadata == [parent : 0 .. MaxId, storage : Storages, size : 0 .. MaxLen,
             children : SUBSET Entry]
Copy     == [data : Data, dirty : BOOLEAN, broken : BOOLEAN]
Path     == {p \in Seq(Storages \cup Names) :
               p # <<>> => p[1] \in Storages /\ \A k \in 2 .. Len(p) : p[k] \in Names}
Call     == [op : Ops \cup {"none"}, path : Path, new : Path, off : 0 .. MaxLen, byte : Bytes,
             h : Handles]

NoCall(h) == [op |-> "none", path |-> <<>>, new |-> <<>>, off |-> 0, byte |-> 0, h |-> h]
Okay      == [code |-> "ok", data |-> <<>>]
NoPast    == [view |-> {}, coherent |-> TRUE, saved |-> TRUE, owned |-> TRUE, faults |-> 0]

Init == /\ DeviceInit
        /\ cache = EmptyMap /\ localFiles = EmptyMap
        /\ todo = <<>> /\ reply = Okay
        /\ \E h \in Handles : call = NoCall(h)
        /\ handles = [h \in Handles |-> <<>>]
        /\ proc = "up" /\ faults = MaxFaults /\ pre = NoPast

-----------------------------------------------------------------------------
(* The metadata of a node, fetched from the device.                        *)
getMetadata(n) ==
  IF n \in Storages
  THEN [parent |-> 0, storage |-> n, size |-> 0, children |-> GetFolderContents(n, 0)]
  ELSE [parent |-> objs[n].parent, storage |-> objs[n].storage, size |-> Len(objs[n].data),
        children |-> IF objs[n].file THEN {} ELSE GetFolderContents(objs[n].storage, n)]

(* What getItem may return and leave in the cache: the cached metadata, or *)
(* fresh metadata when there is none or clearOld finds it too old.         *)
(* Empty when the device no longer has the node: GetFileInfo throws.       *)
getItem(n) ==
  {[md |-> cache[k], cache |-> cache] : k \in {n} \cap DOMAIN cache} \cup
  {[md |-> getMetadata(k), cache |-> Put(cache, k, getMetadata(k))] :
      k \in {n} \cap (Storages \cup DOMAIN objs)}

GetParentNodeId_NoStorage(md) == md.parent   \* mutant: top folders forgotten
GetParentNodeId(md) == IF md.parent = 0 THEN md.storage ELSE md.parent
FolderId(n)         == IF n \in Storages THEN 0 ELSE n

openFile_Refetch(id) ==                      \* mutant: ignores the open copy
  IF id \in DOMAIN localFiles /\ (localFiles[id].broken \/ id \notin DOMAIN objs)
    THEN {localFiles}
    ELSE {Put(localFiles, k, [data |-> objs[k].data, dirty |-> FALSE, broken |-> FALSE]) :
            k \in {id} \cap DOMAIN objs}

(* The local copies after openFile(id), fetching the file if it is not     *)
(* open.                                                                   *)
openFile(id) ==
  IF id \in DOMAIN localFiles THEN {localFiles}
  ELSE {Put(localFiles, k, [data |-> objs[k].data, dirty |-> FALSE, broken |-> FALSE]) :
           k \in {id} \cap DOMAIN objs}

Broken_LeftOpen(id) == [localFiles EXCEPT ![id].dirty = FALSE]   \* mutant: no fclose

(* close() failed: the FILE is closed, the entry stays in the table.       *)
Broken(id) == [localFiles EXCEPT ![id].dirty = FALSE, ![id].broken = TRUE]

NewObject(dir, name, file, data) ==
  [file |-> file, name |-> name, parent |-> FolderId(dir), storage |-> Head(call.new),
   data |-> data]

WriteAt_OffByOne(d, off, byte) ==            \* mutant: one byte too many
  [k \in 1 .. (IF Len(d) > off THEN Len(d) ELSE off + 2) |->
      IF k = off + 1 THEN byte ELSE IF k <= Len(d) THEN d[k] ELSE 0]

WriteAt(d, off, byte) ==
  [k \in 1 .. (IF Len(d) > off THEN Len(d) ELSE off + 1) |->
      IF k = off + 1 THEN byte ELSE IF k <= Len(d) THEN d[k] ELSE 0]
Resize(d, len) == [k \in 1 .. len |-> IF k <= Len(d) THEN d[k] ELSE 0]

-----------------------------------------------------------------------------
(* Steps.                                                                  *)
At(name) == todo # <<>> /\ Head(todo)[1] = name
Arg(k)   == Head(todo)[k]

Goto(steps, c, files) == /\ todo' = steps \o Tail(todo)
                         /\ cache' = c /\ localFiles' = files
                         /\ UNCHANGED reply
Throw(code, c, files) == /\ todo' = <<>>
                         /\ cache' = c /\ localFiles' = files
                         /\ reply' = [code |-> code, data |-> <<>>]

(* A call that changes the device.  It is refused, or takes place, or      *)
(* fails; a call that fails may have taken place all the same.             *)
DeviceCall(possible, newObjs, newNext, done, failed) ==
  \/ /\ possible
     /\ objs' = newObjs /\ nextId' = newNext
     /\ UNCHANGED faults /\ done
  \/ ~possible /\ UNCHANGED <<device, faults>> /\ failed
  \/ /\ faults > 0 /\ faults' = faults - 1
     /\ \/ UNCHANGED device
        \/ possible /\ objs' = newObjs /\ nextId' = newNext
     /\ failed

NoDeviceChange == UNCHANGED <<device, faults>>
Others         == UNCHANGED <<call, handles, proc, pre>>

(* The operations MtpNode has and a node class does not override.          *)
NotImplemented == << <<"throw", "EIO">> >>

(* What is done with the node a path leads to.                             *)
Invoke(c, node) ==
  LET n         == node.id
      file(s)   == IF node.file THEN <<s>> ELSE NotImplemented
      folder(s) == IF node.file THEN NotImplemented ELSE <<s>>
      name      == Last(c.path)
  IN  CASE c.op = "getattr"              -> << <<"getattr", n>> >>
        [] c.op = "statfs"               -> << <<"getItem", n>> >>
        [] c.op = "readdir"              -> folder(<<"getItem", n>>)
        [] c.op = "open"                 -> file(<<"open", n>>)
        [] c.op = "read"                 -> file(<<"read", n>>)
        [] c.op = "write"                -> file(<<"write", n, c.off, c.byte>>)
        [] c.op = "truncate"             -> file(<<"truncate", n, c.off>>)
        [] c.op \in {"flush", "release"} -> file(<<"fsync", n>>)
        [] c.op = "mkdir"                -> folder(<<"mkdir", n, name>>)
        [] c.op = "create"               -> folder(<<"createFile", n, name>>)
        [] c.op \in {"unlink", "rmdir"}  -> IF n \in Storages THEN << <<"throw", "EROFS">> >>
                                            ELSE << <<"remove", n, node.file>> >>
        [] OTHER                         -> <<>>     \* chmod, utime

Lookup(path, k) == <<"getNode", Head(path), Tail(path), k>>

(* getNode(path), then what follows with the node found:                   *)
(*   <<"invoke">>           the operation of the call                      *)
(*   <<"opened">>           Open, the end of create                        *)
(*   <<"source", new>>         rename looks up the parent of new next      *)
(*   <<"newParent", src, name>> src->Rename(newParent, name)               *)
(*   <<"child", dst, name>>    child->Rename(destDir, name), folder move   *)
(*   <<"destDir", src>>        move the contents of src into it            *)
Then(k, node) ==
  CASE k[1] = "invoke"    -> Invoke(call, node)
    [] k[1] = "opened"    -> IF node.file THEN << <<"open", node.id>> >>
                             ELSE NotImplemented
    [] k[1] = "source"    -> << Lookup(Front(k[2]), <<"newParent", node, Last(k[2])>>) >>
    [] k[1] = "newParent" -> << <<"rename", k[2], node.id, k[3]>> >>
    [] k[1] = "child"     -> << <<"rename", node, k[2], k[3]>> >>
    [] k[1] = "destDir"   -> << <<"moveContents", k[2], node.id>> >>

(* The handlers of jmtpfs.cpp, and the end of main: fuse_main returns and  *)
(* the context is destroyed.                                               *)
Handler(c) ==
  CASE c.op = "create" -> << Lookup(Front(c.path), <<"invoke">>), Lookup(c.path, <<"opened">>) >>
    [] c.op = "unmount" -> << <<"unmount">> >>
    [] c.op = "mkdir"  -> << Lookup(Front(c.path), <<"invoke">>) >>
    [] c.op = "rename" -> << Lookup(c.path, <<"source", c.new>>) >>
    [] OTHER           -> << Lookup(c.path, <<"invoke">>) >>

-----------------------------------------------------------------------------
(* One component of a path.  A file ends the walk wherever it is found.    *)
GetNode ==
  /\ At("getNode") /\ NoDeviceChange /\ Others
  /\ LET dir == Arg(2)  rest == Arg(3)  k == Arg(4)
     IN  \/ /\ rest = <<>>
            /\ Goto(Then(k, [id |-> dir, file |-> FALSE]), cache, localFiles)
         \/ /\ rest # <<>>
            /\ \E r \in getItem(dir) :
                 LET found == {e \in r.md.children : e.name = Head(rest)}
                 IN  \/ found = {} /\ Throw("ENOENT", r.cache, localFiles)
                     \/ \E e \in found :
                          Goto(IF e.file \/ Len(rest) = 1
                               THEN Then(k, [id |-> e.id, file |-> e.file])
                               ELSE << <<"getNode", e.id, Tail(rest), k>> >>,
                               r.cache, localFiles)

(* getattr of an open file asks its local copy for the size.               *)
GetAttr ==
  /\ (At("getattr") \/ At("getItem")) /\ NoDeviceChange /\ Others
  /\ At("getattr") /\ Arg(2) \in DOMAIN localFiles => ~localFiles[Arg(2)].broken
  /\ \E r \in getItem(Arg(2)) : Goto(<<>>, r.cache, localFiles)

Open ==
  /\ At("open") /\ NoDeviceChange /\ Others
  /\ \E files \in openFile(Arg(2)) : Goto(<<>>, cache, files)

Read ==
  /\ At("read") /\ NoDeviceChange /\ Others
  /\ \E files \in openFile(Arg(2)) :
       /\ ~files[Arg(2)].broken
       /\ todo' = Tail(todo) /\ localFiles' = files /\ UNCHANGED cache
       /\ reply' = [code |-> "ok", data |-> files[Arg(2)].data]

Write ==
  /\ At("write") /\ NoDeviceChange /\ Others
  /\ \E files \in openFile(Arg(2)) :
       /\ ~files[Arg(2)].broken
       /\ Goto(<<>>, cache,
               [files EXCEPT ![Arg(2)].data = WriteAt(@, Arg(3), Arg(4)),
                             ![Arg(2)].dirty = TRUE])

Truncate_LeftOpen ==                         \* mutant: no closeFile
  /\ At("truncate") /\ NoDeviceChange /\ Others
  /\ \E r \in getItem(Arg(2)) : \E files \in openFile(Arg(2)) :
       /\ ~files[Arg(2)].broken
       /\ Goto(<<>>, Drop(r.cache, {Arg(2), GetParentNodeId(r.md)}),
               [files EXCEPT ![Arg(2)].data = Resize(@, Arg(3)), ![Arg(2)].dirty = TRUE])

(* Truncate clears the entry of the id the file has after closeFile, and   *)
(* that of its folder.                                                     *)
Truncate ==
  /\ At("truncate") /\ NoDeviceChange /\ Others
  /\ LET n == Arg(2)
         usable == n \in DOMAIN localFiles => ~localFiles[n].broken
     IN  /\ usable
         /\ \E r \in getItem(n) :
              LET size == IF n \in DOMAIN localFiles THEN Len(localFiles[n].data)
                                                     ELSE r.md.size
              IN  \/ size = Arg(3) /\ Goto(<<>>, r.cache, localFiles)
                  \/ /\ size # Arg(3)
                     /\ \E files \in openFile(n) :
                          Goto(<< <<"closeFile", n, {n, GetParentNodeId(r.md)}>> >>, r.cache,
                               [files EXCEPT ![n].data = Resize(@, Arg(3)),
                                             ![n].dirty = TRUE])

Fsync ==
  /\ At("fsync") /\ NoDeviceChange /\ Others
  /\ \E r \in getItem(Arg(2)) :
       Goto(<< <<"closeFile", Arg(2), {GetParentNodeId(r.md)}>> >>,
            Drop(r.cache, {Arg(2)}), localFiles)

-----------------------------------------------------------------------------
(* closeFile.  With nothing to write back the copy is dropped.  Otherwise  *)
(* the old object is deleted and the contents sent as a new one; if either *)
(* fails the FILE is closed and the table keeps the dead copy.             *)
CloseFile ==
  /\ At("closeFile") /\ NoDeviceChange /\ Others
  /\ Arg(2) \in DOMAIN localFiles => ~localFiles[Arg(2)].dirty
  /\ Goto(<<>>, Drop(cache, Arg(3)), Drop(localFiles, {Arg(2)}))

DeleteOld ==
  /\ At("closeFile") /\ Others
  /\ LET n == Arg(2)
     IN  /\ n \in DOMAIN localFiles /\ localFiles[n].dirty
         /\ DeviceCall(n \in DOMAIN objs, WithoutObject(n), nextId,
               Goto(<< <<"sendFile", n, Arg(3), [objs[n] EXCEPT !.data = localFiles[n].data]>> >>,
                    cache, [localFiles EXCEPT ![n].dirty = FALSE]),
               Throw("EIO", cache, Broken(n)))

Renumber_Forgotten(steps, old, new) == steps \* mutant: m_id is not updated

(* The steps left of the same node object go on with the new m_id.         *)
Renumber(steps, old, new) ==
  [k \in DOMAIN steps |->
     IF steps[k][1] = "copyTo" /\ steps[k][2] = old THEN [steps[k] EXCEPT ![2] = new]
                                                    ELSE steps[k]]
SendFile_KeepsListing ==                     \* mutant: the folder is not cleared
  /\ At("sendFile") /\ Others
  /\ LET n == Arg(2)
     IN  DeviceCall(MayAdd(Arg(4)), WithObject(Arg(4)), nextId + 1,
            /\ todo' = Renumber(Tail(todo), n, nextId)
            /\ localFiles' = Drop(localFiles, {n}) /\ UNCHANGED <<cache, reply>>,
            Throw("EIO", cache, Broken(n)))

SendFile_IgnoresError ==                     \* mutant: a failed send is not reported
  /\ At("sendFile") /\ Others
  /\ LET n == Arg(2)
     IN  DeviceCall(MayAdd(Arg(4)), WithObject(Arg(4)), nextId + 1,
            /\ todo' = Renumber(Tail(todo), n, nextId)
            /\ cache' = Drop(cache, Arg(3)) /\ localFiles' = Drop(localFiles, {n})
            /\ UNCHANGED reply,
            Goto(<<>>, Drop(cache, Arg(3)), Drop(localFiles, {n})))

SendFile ==
  /\ At("sendFile") /\ Others
  /\ LET n == Arg(2)
         after == {IF x = n THEN nextId ELSE x : x \in Arg(3)}
     IN  DeviceCall(MayAdd(Arg(4)), WithObject(Arg(4)), nextId + 1,
            /\ todo' = Renumber(Tail(todo), n, nextId)
            /\ cache' = Drop(cache, after) /\ localFiles' = Drop(localFiles, {n})
            /\ UNCHANGED reply,
            Throw("EIO", cache, Broken(n)))

Unmount_FirstOnly ==                         \* mutant: one copy is closed, the others deleted
  /\ At("unmount") /\ NoDeviceChange /\ Others
  /\ \/ DOMAIN localFiles = {} /\ Goto(<<>>, cache, localFiles)
     \/ \E n \in DOMAIN localFiles :
          Goto(<< <<"closeFile", n, {}>> >>, cache, localFiles)

(* ~MtpMetadataCache deletes the local copies in the order of the hash     *)
(* table; the destructor of each one closes it.                            *)
Unmount ==
  /\ At("unmount") /\ NoDeviceChange /\ Others
  /\ \/ DOMAIN localFiles = {} /\ Goto(<<>>, cache, localFiles)
     \/ \E n \in DOMAIN localFiles :
          Goto(<< <<"closeFile", n, {}>>, <<"unmount">> >>, cache, localFiles)

-----------------------------------------------------------------------------
Mkdir_KeepsListing ==                        \* mutant: the folder is not cleared
  /\ At("mkdir") /\ Others
  /\ LET folder == NewObject(Arg(2), Arg(3), FALSE, <<>>)
     IN  DeviceCall(MayAdd(folder), WithObject(folder), nextId + 1,
            Goto(<<>>, cache, localFiles), Throw("EIO", cache, localFiles))

Mkdir ==
  /\ At("mkdir") /\ Others
  /\ LET folder == NewObject(Arg(2), Arg(3), FALSE, <<>>)
     IN  DeviceCall(MayAdd(folder), WithObject(folder), nextId + 1,
            Goto(<<>>, Drop(cache, {Arg(2)}), localFiles),
            Throw("EIO", cache, localFiles))

CreateFile ==
  /\ At("createFile") /\ Others
  /\ LET file == NewObject(Arg(2), Arg(3), TRUE, <<>>)
     IN  DeviceCall(MayAdd(file), WithObject(file), nextId + 1,
            Goto(<<>>, Drop(cache, {nextId, Arg(2)}), localFiles),
            Throw("EIO", cache, localFiles))

(* MtpFile::Remove and MtpFolder::Remove.  A local copy is left as it is.  *)
RemoveNode ==
  /\ At("remove") /\ Others
  /\ \E r \in getItem(Arg(2)) :
       \/ /\ ~Arg(3) /\ r.md.children # {} /\ NoDeviceChange
          /\ Throw("ENOTEMPTY", r.cache, localFiles)
       \/ /\ Arg(3) \/ r.md.children = {}
          /\ DeviceCall(Arg(2) \in DOMAIN objs, WithoutObject(Arg(2)), nextId,
               Goto(<<>>, Drop(r.cache, {Arg(2), GetParentNodeId(r.md)}), localFiles),
               Throw("EIO", r.cache, localFiles))

-----------------------------------------------------------------------------
(* Rename.  A file is written back, fetched, sent under its new name, and  *)
(* the original deleted.                                                   *)
RenameFile ==
  /\ At("rename") /\ Arg(2).file /\ NoDeviceChange /\ Others
  /\ Goto(<< <<"fsync", Arg(2).id>>, <<"copyTo", Arg(2).id, Arg(3), Arg(4)>> >>,
          cache, localFiles)

CopyTo_IgnoresError ==                       \* mutant: the original goes all the same
  /\ At("copyTo") /\ Others
  /\ LET n == Arg(2) IN
     \E r \in getItem(n) : \E files \in openFile(n) :
       LET new  == NewObject(Arg(3), Arg(4), TRUE, files[n].data)
           next == Goto(<< <<"dropOriginal", n, GetParentNodeId(r.md)>> >>,
                        Drop(r.cache, {n, nextId}), files)
       IN  DeviceCall(MayAdd(new), WithObject(new), nextId + 1, next, next)

CopyTo_Retries ==                            \* mutant: a failed send is tried again
  /\ At("copyTo") /\ Others
  /\ LET n == Arg(2) IN
     \E r \in getItem(n) : \E files \in openFile(n) :
       LET new == NewObject(Arg(3), Arg(4), TRUE, files[n].data)
       IN  DeviceCall(MayAdd(new), WithObject(new), nextId + 1,
                Goto(<< <<"dropOriginal", n, GetParentNodeId(r.md)>> >>,
                     Drop(r.cache, {n, nextId}), files),
                Goto(<<Head(todo)>>, r.cache, files))

CopyTo ==
  /\ At("copyTo") /\ Others
  /\ LET n == Arg(2) IN
     \E r \in getItem(n) : \E files \in openFile(n) :
       LET new == NewObject(Arg(3), Arg(4), TRUE, files[n].data)
       IN  DeviceCall(MayAdd(new), WithObject(new), nextId + 1,
                Goto(<< <<"dropOriginal", n, GetParentNodeId(r.md)>> >>,
                     Drop(r.cache, {n, nextId}), files),
                Throw("EIO", r.cache, files))

DropOriginal_Forgotten ==                    \* mutant: the original is left
  /\ At("dropOriginal") /\ NoDeviceChange /\ Others
  /\ Goto(<<>>, Drop(cache, {Arg(3)}), localFiles)

DropOriginal ==
  /\ At("dropOriginal") /\ Others
  /\ DeviceCall(Arg(2) \in DOMAIN objs, WithoutObject(Arg(2)), nextId,
        Goto(<<>>, Drop(cache, {Arg(3)}), localFiles),
        Throw("EIO", cache, localFiles))

RenameFolder_AnyStorage ==                   \* mutant: the storages are not compared
  /\ At("rename") /\ ~Arg(2).file /\ Arg(2).id \notin Storages /\ Others
  /\ LET n == Arg(2).id  dst == Arg(3)  name == Arg(4) IN
     \E r \in getItem(n) :
       /\ FolderId(dst) = r.md.parent
       /\ DeviceCall(MaySetName(n, name), WithName(n, name), nextId,
            Goto(<<>>, Drop(r.cache, {dst, GetParentNodeId(r.md)}), localFiles),
            Throw("EIO", r.cache, localFiles))

(* A folder is renamed in place when it stays in its folder; otherwise a   *)
(* new folder is made, the contents renamed into it one by one, and the    *)
(* old folder removed.                                                     *)
RenameFolder ==
  /\ At("rename") /\ ~Arg(2).file /\ Arg(2).id \notin Storages /\ Others
  /\ LET n == Arg(2).id  dst == Arg(3)  name == Arg(4) IN
     \E r \in getItem(n) :
       LET inPlace == FolderId(dst) = r.md.parent /\ Head(call.new) = Head(call.path)
           stale   == {dst, GetParentNodeId(r.md)}
       IN  \/ /\ inPlace
              /\ DeviceCall(MaySetName(n, name), WithName(n, name), nextId,
                   Goto(<<>>, Drop(r.cache, stale), localFiles),
                   Throw("EIO", r.cache, localFiles))
           \/ /\ ~inPlace /\ NoDeviceChange
              /\ Goto(<< <<"mkdir", dst, name>>,
                         <<"getNode", dst, <<name>>, <<"destDir", n>> >>,
                         <<"remove", n, FALSE>>,
                         <<"clearItems", stale>> >>, r.cache, localFiles)

MoveContents_NewParent ==                    \* mutant: newParent instead of destDir
  /\ At("moveContents") /\ NoDeviceChange /\ Others
  /\ \E r \in getItem(Arg(2)), to \in getItem(Arg(3)) :
       Goto(<< <<"moveRest", Arg(2), GetParentNodeId(to.md), r.md.children>> >>,
            r.cache, localFiles)

MoveContents ==
  /\ At("moveContents") /\ NoDeviceChange /\ Others
  /\ \E r \in getItem(Arg(2)) :
       Goto(<< <<"moveRest", Arg(2), Arg(3), r.md.children>> >>, r.cache, localFiles)

MoveRest ==
  /\ At("moveRest") /\ NoDeviceChange /\ Others
  /\ \/ Arg(4) = {} /\ Goto(<<>>, cache, localFiles)
     \/ \E e \in Arg(4) :
          Goto(<< <<"getNode", Arg(2), <<e.name>>, <<"child", Arg(3), e.name>> >>,
                  <<"moveRest", Arg(2), Arg(3), Arg(4) \ {e}>> >>, cache, localFiles)

ClearItems ==
  /\ At("clearItems") /\ NoDeviceChange /\ Others
  /\ Goto(<<>>, Drop(cache, Arg(2)), localFiles)

(* The operations a node class does not have, or has as read only.         *)
Refuse ==
  /\ NoDeviceChange /\ Others
  /\ \/ At("throw") /\ Throw(Arg(2), cache, localFiles)
     \/ /\ At("rename") /\ Arg(2).id \in Storages
        /\ Throw("EROFS", cache, localFiles)

-----------------------------------------------------------------------------
(* Failures.  A step that reads the device throws when the device no       *)
(* longer has the object or does not answer; what was read before is kept. *)
(* The root, where every path begins, reads its list of storages.          *)
AsksForItem == {"getNode", "getattr", "getItem", "truncate", "fsync", "remove", "copyTo",
                "moveContents"}
AsksForFile == {"open", "read", "write", "truncate", "copyTo"}

ReadFails ==
  /\ Others
  /\ \/ \E op \in AsksForItem : At(op)
     \/ \E op \in AsksForFile : At(op) /\ Arg(2) \notin DOMAIN localFiles
     \/ At("rename") /\ ~Arg(2).file /\ Arg(2).id \notin Storages
  /\ LET n == IF At("rename") THEN Arg(2).id ELSE Arg(2)
     IN  \/ ~Live(n) /\ NoDeviceChange
         \/ Live(n) /\ faults > 0 /\ faults' = faults - 1 /\ UNCHANGED device
  /\ \E c \in {cache} \cup {r.cache : r \in IF At("truncate") \/ At("copyTo")
                                         THEN getItem(Arg(2)) ELSE {}} :
       Throw("EIO", c, localFiles)

(* The process is gone and with it the cache, the local copies and the     *)
(* handles.                                                                *)
ProcessEnds(how, files) ==
  /\ proc' = how
  /\ todo' = <<>> /\ reply' = Okay /\ call' = NoCall(call.h) /\ pre' = NoPast
  /\ cache' = EmptyMap /\ localFiles' = files
  /\ handles' = [h \in Handles |-> <<>>]
  /\ UNCHANGED device

(* The FILE of a broken copy is NULL: to use it crashes the process.       *)
(* getattr and truncate ask for the metadata before.                       *)
Crash ==
  /\ \/ At("read") \/ At("write")
     \/ (At("getattr") \/ At("truncate")) /\ getItem(Arg(2)) # {}
  /\ Arg(2) \in DOMAIN localFiles /\ localFiles[Arg(2)].broken
  /\ UNCHANGED faults /\ ProcessEnds("crashed", EmptyMap)

(* The context is gone and main returns; an exception that leaves the      *)
(* destructor of a local copy is std::terminate.                           *)
Unmounted ==
  /\ proc = "up" /\ call.op = "unmount" /\ todo = <<>>
  /\ UNCHANGED faults
  /\ ProcessEnds(IF reply.code = "ok" THEN "down" ELSE "crashed", EmptyMap)

(* exit(-1) when the device is disconnected, or a kill.                    *)
Disconnect ==
  /\ proc = "up" /\ faults > 0 /\ faults' = faults - 1
  /\ ProcessEnds("down", EmptyMap)

Mount == /\ proc # "up" /\ proc' = "up"
         /\ UNCHANGED <<device, process, call, handles, faults, pre>>

-----------------------------------------------------------------------------
(* The file system by path: what a program that uses the mount would see   *)
(* of it if every lookup asked the device.                                 *)
Content(i) == IF i \in DOMAIN localFiles /\ ~localFiles[i].broken
              THEN localFiles[i].data ELSE objs[i].data

View == {[path |-> PathOf(i), file |-> objs[i].file, data |-> Content(i)] :
            i \in DOMAIN objs}

(* The cache and the local copies agree with the device.                   *)
Coherent ==
  /\ \A n \in DOMAIN cache : Live(n) => cache[n] = getMetadata(n)
  /\ \A i \in DOMAIN localFiles :
       /\ ~localFiles[i].broken
       /\ (i \in DOMAIN objs /\ ~localFiles[i].dirty) => localFiles[i].data = objs[i].data

(* The nodes the kernel is told of when it looks a path up.                *)
Seen(path) ==
  LET known(n)    == n \in DOMAIN cache \/ Live(n)
      children(n) == IF n \in DOMAIN cache THEN cache[n].children
                     ELSE IF Live(n) THEN getMetadata(n).children ELSE {}
      at[k \in Nat] ==
        IF k = 0 THEN {[id |-> Head(path), file |-> FALSE]}
        ELSE {[id |-> e.id, file |-> e.file] :
                e \in UNION {{c \in children(n.id) : c.name = path[k + 1]} :
                                n \in {x \in at[k - 1] : ~x.file}}}
  IN  {n \in at[Len(path) - 1] : known(n.id)}

Absent(path)   == Seen(path) = {}
IsFile(path)   == \E n \in Seen(path) : n.file
IsFolder(path) == \E n \in Seen(path) : ~n.file
IsOpen(path)   == \E h \in Handles : handles[h] # <<>> /\ IsPrefix(path, handles[h])

(* Contents that wait in a local copy belong to a file that is open: they  *)
(* will be sent when it is closed.                                         *)
Owned ==
  \A i \in DOMAIN localFiles : localFiles[i].dirty =>
    i \in DOMAIN objs /\ \E h \in Handles : handles[h] = PathOf(i)

(* The new objects a call may need: the ids of the model do not run out.   *)
NewIds(c) ==
  CASE c.op \in {"create", "mkdir", "truncate", "flush", "release"} -> 1
    [] c.op = "rename" -> LET moved == {i \in DOMAIN objs : IsPrefix(c.path, PathOf(i))}
                          IN  Cardinality(moved) + Cardinality(moved \cap DOMAIN localFiles)
    [] c.op = "unmount" -> Cardinality({i \in DOMAIN localFiles : localFiles[i].dirty})
    [] OTHER -> 0

(* A call: the kernel and libfuse have looked the paths up before it.      *)
Begin(op, path, new, off, byte, h) ==
  LET c == [op |-> op, path |-> path, new |-> new, off |-> off, byte |-> byte, h |-> h]
  IN  /\ op \in Ops /\ nextId + NewIds(c) <= MaxId + 1
      /\ call' = c /\ todo' = Handler(c)
      /\ pre' = [view |-> View, coherent |-> Coherent, faults |-> faults,
                 saved |-> \A i \in DOMAIN localFiles : ~localFiles[i].dirty,
                 owned |-> Owned]
      /\ UNCHANGED <<device, cache, localFiles, reply, handles, proc, faults>>

Kernel ==
  /\ proc = "up" /\ call.op = "none"
  /\ \/ \E op \in {"getattr", "statfs", "chmod", "utime"}, p \in Paths :
          Begin(op, p, p, 0, 0, call.h)
     \/ \E p \in Paths : /\ IsFolder(p)
                         /\ \/ Begin("readdir", p, p, 0, 0, call.h)
                            \/ Begin("rmdir", p, p, 0, 0, call.h)
     \/ \E p \in Paths : /\ IsFile(p)
                         /\ \/ ~IsOpen(p) /\ Begin("unlink", p, p, 0, 0, call.h)
                            \/ \E n \in 0 .. MaxLen : Begin("truncate", p, p, n, 0, call.h)
                            \/ \E h \in Handles : /\ handles[h] = <<>>
                                                  /\ Begin("open", p, p, 0, 0, h)
     \/ \E p \in Paths : /\ Len(p) > 1 /\ Absent(p) /\ IsFolder(Front(p))
                         /\ \/ Begin("mkdir", p, p, 0, 0, call.h)
                            \/ \E h \in Handles : /\ handles[h] = <<>>
                                                  /\ Begin("create", p, p, 0, 0, h)
     \/ \E h \in Handles :
          /\ handles[h] # <<>>
          /\ \/ \E op \in {"read", "flush", "release"} :
                  Begin(op, handles[h], handles[h], 0, 0, h)
             \/ \E n \in 0 .. MaxLen - 1, b \in Bytes :
                  Begin("write", handles[h], handles[h], n, b, h)
     \/ \E p \in Paths : Len(p) = 1 /\ Begin("unmount", p, p, 0, 0, call.h)
     \/ \E p, q \in Paths :
          /\ Len(q) > 1 /\ ~IsPrefix(p, q) /\ ~IsPrefix(q, p)
          /\ IsFolder(Front(q)) /\ ~Absent(p)
          /\ Absent(q) \/ (IsFile(p) /\ IsFile(q) /\ ~IsOpen(q))
                       \/ (IsFolder(p) /\ IsFolder(q))
          /\ Begin("rename", p, q, 0, 0, call.h)

Done == proc = "up" /\ call.op # "none" /\ todo = <<>>

Return ==
  /\ Done /\ call.op # "unmount"
  /\ LET ok == reply.code = "ok"
         moved(p) == IF call.op = "rename" /\ ok /\ p # <<>> /\ IsPrefix(call.path, p)
                     THEN call.new \o SubSeq(p, Len(call.path) + 1, Len(p)) ELSE p
         closed == IF call.op = "release" THEN {call.h} ELSE {}
         opened == IF ok /\ call.op \in {"open", "create"} THEN {call.h} ELSE {}
     IN  handles' = [h \in Handles |-> IF h \in closed THEN <<>>
                                       ELSE IF h \in opened THEN call.path
                                       ELSE moved(handles[h])]
  /\ call' = NoCall(call.h) /\ reply' = Okay /\ pre' = NoPast
  /\ UNCHANGED <<device, cache, localFiles, todo, proc, faults>>

Step == \/ GetNode \/ GetAttr \/ Open \/ Read \/ Write \/ Truncate \/ Fsync
        \/ CloseFile \/ DeleteOld \/ SendFile \/ Unmount
        \/ Mkdir \/ CreateFile \/ RemoveNode
        \/ RenameFile \/ CopyTo \/ DropOriginal
        \/ RenameFolder \/ MoveContents \/ MoveRest \/ ClearItems
        \/ Refuse \/ ReadFails \/ Crash

Next == Kernel \/ Step \/ Return \/ Unmounted \/ Disconnect \/ Mount

Spec     == Init /\ [][Next]_vars
FairSpec == Spec /\ WF_vars(Step \/ Return \/ Unmounted)   \* the thread runs
=============================================================================
