-------------------------- MODULE JmtpfsProperties --------------------------
(***************************************************************************)
(* What jmtpfs promises: the effect of each call on the tree of files, and *)
(* what happens to file contents when something fails.                     *)
(***************************************************************************)
EXTENDS Jmtpfs

(* What follows a lookup, and the steps of the handlers, with the types of *)
(* their arguments.                                                        *)
LongPath == {p \in Path : Len(p) > 1}

Continuation ==
  {<<"invoke">>, <<"opened">>} \cup ({"source"} \X LongPath)
    \cup ({"newParent"} \X Node \X Names) \cup ({"child"} \X NodeIds \X Names)
    \cup ({"destDir"} \X NodeIds)

HandlerStep ==
  ({"getNode"} \X NodeIds \X Seq(Names) \X Continuation)
    \cup ({"getattr", "getItem", "open", "read", "fsync"} \X NodeIds)
    \cup ({"write"} \X NodeIds \X (0 .. MaxLen - 1) \X Bytes)
    \cup ({"truncate"} \X NodeIds \X (0 .. MaxLen))
    \cup ({"closeFile"} \X NodeIds \X (SUBSET NodeIds))
    \cup ({"sendFile"} \X ObjIds \X (SUBSET NodeIds) \X Object)
    \cup ({"mkdir", "createFile"} \X NodeIds \X Names)
    \cup ({"remove"} \X NodeIds \X BOOLEAN)
    \cup ({"rename"} \X Node \X NodeIds \X Names)
    \cup ({"copyTo"} \X NodeIds \X NodeIds \X Names)
    \cup ({"dropOriginal", "moveContents"} \X NodeIds \X NodeIds)
    \cup ({"moveRest"} \X NodeIds \X NodeIds \X (SUBSET Entry))
    \cup ({"clearItems"} \X (SUBSET NodeIds))
    \cup ({"throw"} \X Codes) \cup {<<"unmount">>}

(* The variables keep their types, every step left is one the handlers     *)
(* have, and only a process that is up is in a call, with the paths the    *)
(* operation needs.                                                        *)
TypeOK ==
  /\ DeviceTypeOK
  /\ IsMap(cache, NodeIds, Metadata)
  /\ IsMap(localFiles, ObjIds, Copy)
  /\ todo \in Seq(HandlerStep)
  /\ reply \in [code : Codes, data : Data]
  /\ call \in Call
  /\ call.op # "none" => call.path # <<>> /\ call.new # <<>>
  /\ call.op \in {"mkdir", "create"} => call.path \in LongPath
  /\ call.op = "rename" => call.new \in LongPath
  /\ call.op = "write" => call.off < MaxLen
  /\ handles \in [Handles -> Path]
  /\ proc \in {"up", "down", "crashed"}
  /\ faults \in 0 .. MaxFaults
  /\ proc # "up" => call.op = "none"
  /\ call.op = "none" => todo = <<>>

-----------------------------------------------------------------------------
(* The effect POSIX gives a call that succeeds, on a tree of files.        *)
Below(v, path) == IsPrefix(path, v.path)

Effect(view, c) ==
  LET rest == {v \in view : ~Below(v, c.path)}
      this == {v \in view : Below(v, c.path)}
  IN  CASE c.op = "create"   -> view \cup {[path |-> c.path, file |-> TRUE, data |-> <<>>]}
        [] c.op = "mkdir"    -> view \cup {[path |-> c.path, file |-> FALSE, data |-> <<>>]}
        [] c.op \in {"unlink", "rmdir"} -> rest
        [] c.op = "write"    ->
             rest \cup {[v EXCEPT !.data = WriteAt(@, c.off, c.byte)] : v \in this}
        [] c.op = "truncate" -> rest \cup {[v EXCEPT !.data = Resize(@, c.off)] : v \in this}
        [] c.op = "rename"   ->
             {v \in rest : ~Below(v, c.new)} \cup
             {[v EXCEPT !.path = c.new \o SubSeq(@, Len(c.path) + 1, Len(@))] : v \in this}
        [] OTHER -> view

Succeeded == Done /\ reply.code = "ok"
Failed    == Done /\ reply.code # "ok"

(* The device has not failed since it was mounted, and not in this call.   *)
NoFaultYet == faults = MaxFaults
NoFaultNow == faults = pre.faults

(* The call is made on the handle of a file that an earlier failure, or a  *)
(* folder removed on the word of a stale listing, has taken away.          *)
Orphaned == /\ call.op \in {"read", "write", "flush", "release"}
            /\ \A v \in pre.view : v.path = call.path => ~v.file

(* A call that succeeds while the cache agrees with the device does to the *)
(* tree exactly what POSIX says: nothing else changes, whatever mixture of *)
(* cached and fresh metadata the handler read on its way.                  *)
ExactEffect == Succeeded /\ pre.coherent /\ ~Orphaned => View = Effect(pre.view, call)

(* A read returns the contents the file has, those written and not yet     *)
(* sent to the device included.                                            *)
ReadCurrent ==
  Succeeded /\ pre.coherent /\ call.op = "read" /\ ~Orphaned
    => [path |-> call.path, file |-> TRUE, data |-> reply.data] \in pre.view

(* A file moved to another folder: MtpFile::Rename does not clear the      *)
(* entry of the folder it moves to.                                        *)
MovesFile == /\ call.op = "rename" /\ Front(call.path) # Front(call.new)
             /\ [path |-> call.path, file |-> TRUE] \in
                  {[path |-> v.path, file |-> v.file] : v \in pre.view}

(* Every handler clears the entries its changes made stale: the cache      *)
(* agrees with the device after the call if it did before, whether the     *)
(* call succeeds or is refused; only the move of a file does not, and at   *)
(* unmount the cache is going away.                                        *)
StaysCoherent ==
  Done /\ pre.coherent /\ NoFaultNow /\ ~MovesFile /\ call.op # "unmount" => Coherent

(* After flush or release succeed the device has the contents.             *)
Durable ==
  Succeeded /\ pre.coherent /\ call.op \in {"flush", "release"}
    => \A v \in Effect(pre.view, call) :
         v.path = call.path =>
           \E i \in DOMAIN objs : PathOf(i) = v.path /\ objs[i].file /\ objs[i].data = v.data

(* The tree as the device has it.                                          *)
Saved == {[path |-> PathOf(i), file |-> objs[i].file, data |-> objs[i].data] : i \in DOMAIN objs}

(* Unmounting sends every change that waits in a local copy, in whatever   *)
(* order the copies are destroyed: the device then has the tree the mount  *)
(* showed.  When nothing waits, not even a failing device changes it.      *)
UnmountSaves ==
  Done /\ call.op = "unmount" /\ pre.coherent /\ (reply.code = "ok" \/ pre.saved)
    => Saved = pre.view

(* A call that fails, be it because the device failed half way, leaves     *)
(* everything outside the paths it names as it was.  An unmount names none *)
(* and sends every copy that waits: that is UnmountSaves.  An orphaned     *)
(* handle may lead to a file that now has the name of a lost folder.       *)
Contained ==
  LET elsewhere(view) == {v \in view : ~Below(v, call.path) /\ ~Below(v, call.new)}
  IN  Failed /\ pre.coherent /\ call.op # "unmount" /\ ~Orphaned
        => elsewhere(View) = elsewhere(pre.view)

(* With a working device and an accurate cache a call fails only for a     *)
(* reason POSIX knows, or where MTP cannot do what is asked: rename onto   *)
(* an existing name, and changing a storage itself; and an unmount only    *)
(* for contents whose file is gone or that no handle has open.             *)
Excused ==
  LET there(p) == Len(p) = 1 \/ \E v \in pre.view : v.path = p
  IN  \/ call.op \notin {"create", "mkdir"} /\ ~there(call.path)
      \/ Orphaned
      \/ call.op = "unmount" /\ ~pre.owned
      \/ call.op = "rmdir" /\ \E v \in pre.view : Below(v, call.path) /\ v.path # call.path
      \/ call.op = "rename" /\ there(call.new)
      \/ call.op \in {"rename", "rmdir"} /\ Len(call.path) = 1
NoSpuriousError == Failed /\ pre.coherent /\ NoFaultYet => Excused

(* No call strands a write: when it returns, contents that wait in a local *)
(* copy belong to a file that is open and will be sent when it is closed,  *)
(* if they did when it began, with a right cache and a device that         *)
(* answers.  A rename has by then moved the files and the handles on them. *)
NoStrandedWrite ==
  [][Return /\ pre.coherent /\ pre.owned /\ NoFaultNow /\ ~Orphaned => Owned']_vars

(* No rename ever takes the last copy of a file's contents off the device, *)
(* whatever fails and wherever the process stops: if nothing waited to be  *)
(* written back and the cache was right, the device holds at every step of *)
(* the rename at least as many files with each contents as before it.      *)
RenameKeepsContents ==
  call.op = "rename" /\ pre.saved /\ pre.coherent
    => \A d \in {v.data : v \in {x \in pre.view : x.file}} :
         Cardinality({i \in DOMAIN objs : objs[i].file /\ objs[i].data = d})
           >= Cardinality({v \in pre.view : v.file /\ v.data = d})

(* A clean local copy, which may outlive every handle, never differs from  *)
(* the file on the device.                                                 *)
CleanCopiesCurrent ==
  \A i \in DOMAIN localFiles \cap DOMAIN objs :
    ~localFiles[i].dirty /\ ~localFiles[i].broken => localFiles[i].data = objs[i].data

(* Every call returns, or the process is gone: the recursion over a folder *)
(* and its contents ends.                                                  *)
CallsReturn == call.op # "none" ~> call.op = "none"

-----------------------------------------------------------------------------
(* What the code does not keep.                                            *)

(* rmdir removes a folder only when it is empty.                           *)
RmdirOnlyEmpty ==
  Succeeded /\ call.op = "rmdir"
    => \A v \in pre.view : Below(v, call.path) => v.path = call.path

(* A failure of the device is answered with an error code.                 *)
NoCrash == proc # "crashed"

(* A send that fails when a file is flushed leaves the old or the new      *)
(* contents: a file at the path on the device, or a local copy that can    *)
(* still be sent.                                                          *)
FailedFlushKeepsContents ==
  [][SendFile /\ reply'.code # "ok" /\ call.op = "flush" /\ pre.coherent
       => \A v \in pre.view : v.path = call.path =>
            (\/ \E w \in Saved : w.path = v.path /\ w.file
             \/ \E i \in DOMAIN localFiles :
                  ~localFiles[i].broken /\ localFiles[i].data = v.data)']_vars

(* rename replaces an existing file: it succeeds, and the new path then    *)
(* leads to the file that was renamed and to no other.                     *)
RenameReplaces ==
  Done /\ call.op = "rename" /\ NoFaultYet /\ pre.coherent
       /\ (\E v, w \in pre.view : v.path = call.path /\ w.path = call.new /\ v.file /\ w.file)
    => reply.code = "ok" /\ View = Effect(pre.view, call)
=============================================================================
