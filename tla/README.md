# jmtpfs in TLA+

jmtpfs is a FUSE file system over an MTP device (a phone).  MTP knows no partial
reads or writes, no random access and no atomic replacement: a file is fetched
whole, sent whole as a *new* object with a *new* id, and an object can be
deleted.  What makes jmtpfs correct is therefore the order of its device calls
and the bookkeeping around them: which cached listing is dropped when, which
local copy is the current one, what is left when one of the calls fails.  These
modules model that bookkeeping, check it with TLC, and prove parts of it with
TLAPS.

## Inventory of the system

| part | state | operations | interacts with |
| --- | --- | --- | --- |
| FUSE handlers, `jmtpfs.cpp` | `globalLock` | sixteen handlers, the error block | called by libfuse's threads; nodes through `MtpFuseContext::getNode` |
| nodes, `MtpNode`, `MtpFolder`, `MtpStorage`, `MtpFile`, `MtpRoot` | an id; made afresh for every call | getattr, readdir, open, read, write, truncate, fsync, close, mkdir, create, remove, rename | cache, local copies, device |
| metadata cache, `MtpMetadataCache` | list of entries, lookup table | getItem, clearItem, clearOld | asks the node (`getMetadata`), which asks the device |
| local copies, `MtpMetadataCache::m_localFileCache`, `MtpLocalFileCopy` | temporary file, remote id, `m_needWriteBack` | openFile, closeFile, close, CopyTo, read, write, truncate | device |
| device, `MtpDevice` | libmtp's session and error stack | list, info, fetch, send with a type, create folder, rename, delete; `CheckErrors` | the phone |
| locks, `Mutex`, `MtpLibLock` | two recursive mutexes, static objects | lock, unlock, destroy | every handler, every device call, the main thread, `exit` |
| paths, `FilesystemPath` | a string | Head, Body, Tail, AllButTail | handlers, nodes |
| start-up and end, `main`, `ConnectedMtpDevices` | flags, list of raw devices, the context | choose a device, open it, serve, destroy the context | `MtpDevice`, the cache's destructor |

What is hard in it:

* *Stale state.*  A listing is answered from memory for five seconds.  Every
  change must clear exactly the entries it makes wrong, also after the id of the
  file has changed on the way.
* *Partial failure.*  Write-back is delete then send; rename is fetch, send,
  delete; a folder move is a new folder, the moves of all its contents, a removal.
  Any of the calls may fail, or fail after it took place, and the process exits
  when the device is lost.
* *Shared local copies.*  Reads, writes and truncates of all handles of a file,
  and a rename, use one local copy; closing any handle closes it for all.
* *Time.*  An entry is stamped after the device was asked, and the walk that
  drops old entries stops at the first young one.
* *Threads.*  libfuse calls the handlers from several threads; one global lock
  makes them run one at a time.  Scopes of the library's lock nest inside it, an
  exception closes them, and `exit(-1)` is called after the lock has been
  released, so that handlers run on while the mutexes are destroyed.
* *Errors that stay.*  libmtp's error stack outlives the call that filled it.
  jmtpfs looks at it only after a failure, and takes the oldest entry for the
  cause.
* *Unmount.*  The table of local copies is destroyed in hash order, and every
  copy that is still to be sent is sent by a destructor.

What makes each part correct: for the handlers, that each call that succeeds has
the effect POSIX gives it and fails only for a reason, and that failures stay
local; for the cache, that it answers with what the device has or recently had;
for the local copies, that no written data is forgotten and no clean copy
differs from its file; for the locks, mutual exclusion and no deadlock; for the
error stack, that a failure is always noticed and an old error does no lasting
harm; for saves, that the whole file arrives with a fitting type; for paths, that
they lead to the node of their names; for start-up, that the device mounted is
the one asked for.  `PROJECT.json` lists the
hazards line by line with the properties that watch them.

## Modules

| module | what it is |
| --- | --- |
| `Maps` | partial maps: `Put`, `Drop`, `IsMap`, for the `std::map`-like members and the object store |
| `MtpDevice` | the store of objects on the device and the calls that change it (`MtpDevice.cpp`, and the device itself as an external part) |
| `Jmtpfs` | handlers, nodes, cache as a map, local copies, failures; composes with `MtpDevice` by extending it |
| `JmtpfsProperties` | the type invariant and the properties of `Jmtpfs` |
| `JmtpfsProofs` | TLAPS proofs about the device's store (parents and paths, what a change of one object does to both) and about `Jmtpfs`: the type invariant, clean local copies, and what each call but rename does: its effect, the cache after it, its errors, what unmount saves |
| `JmtpfsRenameProofs` | TLAPS proofs about rename, and with them about all calls |
| `JmtpfsCacheProofs` | TLAPS proofs about the cache during a rename: `StaysCoherent` for all calls |
| `JmtpfsErrorProofs` | TLAPS proofs about the errors of calls, rename and unmount included: `NoSpuriousError` |
| `MCJmtpfs` | small instances of `Jmtpfs` for TLC |
| `MetadataCache` | abstract: a map that answers from memory with young entries only |
| `MtpMetadataCache` | the list and the lookup table of `MtpMetadataCache.cpp` |
| `MtpMetadataCacheProofs` | TLAPS proofs about it, the refinement included |
| `SerialUse` | abstract: the file system's state has one user at a time |
| `HandlerThreads` | threads, the two recursive mutexes with their scope objects, exceptions, exit, unmount (`Mutex.cpp`, `MtpLibLock.cpp`, the error block) |
| `HandlerThreadsProofs` | TLAPS proofs about it, the refinement of `SerialUse` included |
| `LibmtpErrors` | every method's use of libmtp's error stack (`MtpDevice.cpp`) |
| `FileTypes` | the look at a file's beginning, the table of MIME types, the send |
| `DeviceCalls` | composes `LibmtpErrors` and `FileTypes`: a save goes through or fails |
| `DeviceCallsProofs` | TLAPS proofs about `LibmtpErrors` and `DeviceCalls`, which implements it |
| `FilesystemPath` | cutting a path up, and the descent of the `getNode` methods |
| `DeviceSelection` | from the flags to the opened device (`main`, `ConnectedMtpDevices.cpp`) |
| `Mounted` | composes `DeviceSelection` and `FilesystemPath`: choose, mount, look up |
| `MountedProofs` | TLAPS proofs about it |
| `MCMtpMetadataCache`, `MCHandlerThreads`, `MCDeviceCalls`, `MCMounted`, `MCFileTypes` | small instances for TLC |

How they fit: `HandlerThreads` shows that the handlers run one at a time, which
`Jmtpfs` takes as given; `LibmtpErrors` shows that a failed library call ends in
an exception, which is the failing branch of `Jmtpfs`' device calls;
`MtpMetadataCache` shows that a cached answer is recent, which `Jmtpfs` abstracts
to "cached or fresh"; `Mounted` shows that a path leads to its node, which
`Jmtpfs` abstracts to a sequence of names.

Definitions whose name has the form `X_Y` are variants of `X` with a plausible bug; no specification uses them.  They show,
put in the place of `X`, that each property depends on the code it is about.

### Jmtpfs: state and actions

`objs` and `nextId` are the device.  `cache` is the metadata cache as a map from
node id to metadata; `localFiles` is `m_localFileCache`, each copy with its
contents, `dirty` (`m_needWriteBack`) and `broken` (`m_localFile == 0`).
`call`, `handles` and `proc` are the kernel's call, its open handles, and whether
the process runs.  `pre` is a history variable: what the file system was when the
call began.

A handler is a list of steps, `todo`.  A step is one call of the source that
changes the device, with the cache reads before it and the clears after it, or a
stretch of code between such calls.  `Goto` replaces the first step by what
follows it, `Throw` drops all of them, as an exception unwinds the handler to the
error block.  Splitting there and nowhere else is enough: under the global lock
nobody sees the cache or the local copies between two device calls, and the
device cannot tell the reads apart.

| source | action |
| --- | --- |
| handlers of `jmtpfs.cpp` | `Handler`, `Invoke`, `Then` say which steps a call has |
| `MtpRoot::getNode`, `MtpFolder::getNode` | `Lookup`, `GetNode`: one component per step |
| `getattr`, `readdir`, `statfs` | `GetAttr` |
| `MtpFile::Open`, `Read`, `Write`, `Truncate`, `Fsync` | `Open`, `Read`, `Write`, `Truncate`, `Fsync` |
| `closeFile`, `MtpLocalFileCopy::close` | `CloseFile` (nothing to write back), `DeleteOld` then `SendFile` |
| `MtpFolder::mkdir`, `CreateFile`, both `Remove` | `Mkdir`, `CreateFile`, `RemoveNode` |
| `MtpFile::Rename` | `RenameFile`, then the steps of Fsync, `CopyTo`, `DropOriginal` |
| `MtpFolder::Rename` | `RenameFolder`, then mkdir, a lookup, `MoveContents`, `MoveRest` with a rename for each child, remove, `ClearItems` |
| operations a node class does not have | `Refuse` |
| `~MtpMetadataCache`, `~MtpLocalFileCopy`, the end of `main` | `Unmount`: one copy after the other, in any order; `Unmounted` |
| error paths | the failing branch of `DeviceCall`; `ReadFails` (a read of the device, the root's list of storages included); `Crash`, `Disconnect`, `Mount` |

Points where the model decides something:

* `getItem(n)` may answer from the cache or afresh, at every read, because an
  entry may turn five seconds old between any two reads.  That replaces the
  clock in `Jmtpfs`; the clock is in `MtpMetadataCache`.
* A path is a storage followed by names; the mount point itself is left out, and
  so are file times, modes, sizes in `statfs` and the limit on name lengths.
* `Kernel` is the environment: it issues a call only where the kernel's own
  lookups allow it (`mkdir` of an absent name, `unlink` of a file, and so on).
  `Seen` is what those lookups may find, through the same cache.
* `unlink` and a rename onto a file are issued only when that file is not open:
  libfuse hides an open file by a rename before it unlinks it.
* A device either refuses a second object of one name in a folder
  (`AcceptsDuplicates = FALSE`, used in the runs) or accepts it.
* Only jmtpfs changes the device in `Jmtpfs`.  Changes made on the phone are in
  `MtpMetadataCache` (`Change`).
* Storage ids and object ids are keys of one cache (`MtpFolder.cpp:28`); the
  model assumes that they differ (`DeviceAssumption`).

### MtpMetadataCache: state and actions

`m_cache` is the list: each element is named by a serial number, which stands for
the iterator.  `m_cacheLookup` is the table.  `getItem` is three actions, because
the device may change while it is read: `GetItemMiss`, `GetMetadata` (the read),
`Insert` (the stamp, `time(0)`, and the entry).  A hit is one action.  A read may
take `MaxFetch` seconds.

### HandlerThreads: state and actions

`owner`, `depth` and `destroyed` are the mutexes, `scopes` the `LockMutex` and
`MtpLibLock` objects a thread has open, `wants` the mutex it waits for, `pc` what
it does (`error` and `disconnected` are exceptions under way), `phase` the life of
the process.

| source | action |
| --- | --- |
| `RecursiveMutex::Lock`, `Unlock`, the scope objects | `Acquire`, `CloseScope`, `LockFails` on a destroyed mutex |
| `FUSE_ERROR_BLOCK_START` and `END` | `Call`, `Return`, `CatchDisconnected` |
| a method of `MtpDevice` or `ConnectedMtpDevices`, nested or not | `EnterLib` |
| exceptions | `Throw` |
| `exit(-1)` and the static destructors | `DestroyMutex`, `Gone` |
| `main` before and after `fuse_main` | `Start`, `FuseMain`, `Unmount`, `Gone` |

Locking a destroyed mutex is undefined; the model lets it be granted or fail.

### DeviceCalls: state and actions

`LibmtpErrors` keeps the error stack with the number of the call that pushed each
error.  A method is one action: what the library answers, what it pushes, and
what `CheckErrors` makes of it.  Methods that throw whenever the call fails are
`Strict`; `GetFolderContents` and the model name, which take no answer for
nothing there unless there is an error, are `Lenient`; `RenameFile` makes two
calls.  `FileTypes` is one file that is edited and saved: `NewFile` describes the
new object and seeks to the start, `Look` is libmagic's look (`AskMagic`) and the
way back, `Send` sends from where the descriptor stands.  The history
variable `recognised` says whether libmagic has answered; the object on the device
keeps it, so that a property can tell a type that was not found from one that was
not asked for.  `DeviceCalls` joins the two: the
contents arrive if and only if the call of `SendFile` comes back with an object.

### Mounted: state and actions

`DeviceSelection` goes from the flags (`StartListing`, `ParseDevice`) over
`Detect` and `GetDevice` to `OpenDevice`, while `Replug` changes what is on the
bus.  `FilesystemPath` takes a path of names and slashes through
`ContextGetNode` and one `GetNode` per component; the kernel goes on naming
directories it knew (`KernelLearns`) while the device's user changes the tree
between operations (`DeviceChanges`).  `Mounted` lets paths be looked up once a
device is mounted.

## Runs

| run | instance | checks |
| --- | --- | --- |
| `faults` | one storage, two names, two handles, three ids, files of at most one byte, one fault, unmount and remount | `TypeOK` `ExactEffect` `ReadCurrent` `StaysCoherent` `Durable` `NoSpuriousError` `NoStrandedWrite` `CleanCopiesCurrent` `UnmountSaves` |
| `tree` | two storages, folders two deep, a device that works | `ExactEffect` `StaysCoherent` `NoSpuriousError` |
| `moves` | mkdir, rmdir and rename with room for the move of a folder with a file, one fault, fairness | `Contained` `RenameKeepsContents` `CallsReturn` |
| `cache` | two ids, two values, four seconds, three fills | `TypeOK` `ListMatchesLookup` `OldestFirst` `StaleEntriesAreRecent` `FillInProgress` `AnswersRecent` `ImplementsMap` |
| `threads` | three workers and the main thread, three calls, nesting and work up to three, fairness | `TypeOK` `Balanced` `ExclusiveUse` `ImplementsSerialUse` `CallsReturn` |
| `device` | three library calls, up to two errors each, five MIME types, saves without limit | `CallsTypeOK` `FailuresSurface` `ErrorsAreRecent` `UnplugMaskedOnce` `MediaArriveAsSuch` `WholeFileSent` |
| `mount` | two buses, two device numbers, two devices at a time, every combination of flags and texts, a number too large for a byte included; four trees three deep | `MountedTypeOK` `RequestedIsMounted` `IncompleteMountsNothing` `NotFoundIsTrue` `Resolves` `NoFalseError` `MadeWhereAsked` |

What they show:

* `ExactEffect`: a call that succeeds, begun with an accurate cache, changes the
  tree exactly as POSIX says, whatever mixture of cached and fresh entries it met.
  `ReadCurrent` says the same of what a read returns, also when two handles share
  a copy.
* `StaysCoherent`: every handler but the move of a file clears every entry it made
  wrong.  Together with `ExactEffect` this is an induction over calls: with no
  faults and no moves of files between folders the file system is always right.
* `Durable`: after a successful flush or release the device has the contents.
* `NoSpuriousError`: the handlers' own bookkeeping never makes a call fail.
* `NoStrandedWrite`: a call leaves no data waiting in the local copy of a file that
  is not open, if there was none before; a rename takes the handles along.
* `UnmountSaves`: an unmount that ends well leaves on the device the tree the mount
  showed, in whatever order the copies are destroyed; with nothing to send it
  changes nothing even if the device fails.
* `Contained`, `RenameKeepsContents`, `CleanCopiesCurrent`: what survives failures.
  A failed call on a path changes nothing outside the paths it names; no rename, whatever
  fails and wherever the process ends, takes the last copy of a file's contents
  off the device; a clean local copy is equal to its file.
* `CallsReturn` (of `Jmtpfs`): the recursion over a folder ends.
* In `cache`, `ListMatchesLookup` makes `clearOld`'s unchecked erase safe,
  `OldestFirst` makes its early stop right, `StaleEntriesAreRecent` and
  `AnswersRecent` bound how old an answer can be, changes during a fill included.
* `Balanced`, `ExclusiveUse`, `ImplementsSerialUse`: no lock leaks or is released
  early on any way out, and the state has one user at a time from start to exit,
  the main thread's use without the global lock included.  `CallsReturn` (of
  `HandlerThreads`): a call that a worker took up is answered or the process ends;
  with it, that nobody waits for ever.
* `FailuresSurface`: no method goes on with a null pointer, and a failed listing is
  never an empty folder.  `ErrorsAreRecent`, `UnplugMaskedOnce`: the harm of an
  error left behind by a success is bounded; in particular it hides the loss of
  the device at most once.  `WholeFileSent`, `MediaArriveAsSuch`: what a
  successful save leaves on the device, after any history of failed ones: the whole
  file, and with the type of music or video if libmagic has recognised such.
* `RequestedIsMounted`, `IncompleteMountsNothing`, `NotFoundIsTrue`: start-up with
  any device specification, while devices come and go: what is mounted is on the bus
  that was given and has the number that was given, if a byte can hold that number.
* `Resolves`, `NoFalseError`, `MadeWhereAsked`: a path leads to the node of its
  names, errors are true, and a new file is made in the folder its path names.

### Bounds

Two names, because a rename needs a second one.  One byte per file: the operations
treat contents as a whole, and an empty file, one byte and a changed byte already
tell lost, old and new contents apart.  Two handles in `faults`, so that one file
is open twice or two files at once, and an unmount finds a copy to send beside
another one; they are symmetric.  Two copies that are both to be sent need more ids
than `MaxId` gives; that case is covered by the proof of `UnmountSaves` only.  The other instances of `Jmtpfs` open no files
and have one.  Depth two: a folder in a folder is the first case in which a path
has a middle, and the move of a folder with contents the first recursion.
`MaxId` limits how many objects are ever made; the kernel starts no call that could
run out of ids.  One fault, because after a failure the call ends and most of what
a second one meets the first already produced.

In `cache` entries are young for one second and reads take at most one, so that all
orders of "read, change, stamp, expire" fit in four seconds.  In `threads` three
calls on three workers give one that runs, one that waits and one that comes
later; three nested scopes are what `GetDevice` with a failing `MtpDevice`
constructor opens.  In `device` three calls are a success that leaves errors, a
failure that clears them and one more; two errors per call put an old error in
front of a new one; files of one byte and a look of one byte tell "sent from the
start" from "sent from the end".  In `mount` two buses and two numbers give
devices that differ in one of the two only, and a tree three deep has a component
in the middle.

`tree` leaves out `utime`, whose handler is that of `chmod`, and `getattr`, which
`moves` and `faults` have.  `device` and `mount` may stop (the process exits, or
the calls are used up), so deadlock is not checked in them.

### Fairness

`FairSpec` of `Jmtpfs` asks that the thread of a handler goes on
(`WF_vars(Step \/ Return \/ Unmounted)`): it holds the lock it needs, and every
libmtp call returns, with an error when the device does not answer.  `FairSpec` of
`HandlerThreads` asks the scheduler for weak fairness of every thread, that `main`
goes on once its calls have returned, and that `exit` comes to an end.  Nothing is
asked of the kernel, of the faults or of the user.  Weak fairness is enough
although mutexes are contended: the number of calls is bounded, so that a waiting
thread is not overtaken for ever.  An unbounded stream of calls may overtake it;
POSIX mutexes promise nothing against that.

### What the code does not keep

Five runs show, each with a short trace, a disagreement between the code and what
it or its documentation says:

| run | property | what happens |
| --- | --- | --- |
| `rmdir_after_move` | `RmdirOnlyEmpty` | move a file into a folder listed a moment ago, rmdir that folder: the stale listing is empty and the file is deleted (`MtpFile.cpp:152` does not clear the new parent, as `MtpFolder.cpp:174` does) |
| `dead_copy` | `NoCrash` | a failed write-back leaves an entry with a NULL `FILE` (`MtpMetadataCache.cpp:111`), which the next getattr, read, write or truncate uses |
| `failed_flush` | `FailedFlushKeepsContents` | delete before send (`MtpLocalFileCopy.cpp:60-67`): when the delete has succeeded and the send fails, the local copy is closed too, and the old and the new contents are gone, where README lines 80-82 say that the contents are sent back; the property speaks of the step in which the send fails |
| `rename_onto` | `RenameReplaces` | rename onto an existing file fails, or makes a second file of that name on a device that accepts it, which is how rsync (README lines 89-91) updates a file |
| `text_type` | `TextIsText` | the test for `text/` is the statement of `if (mimeType == "")` (`MtpDevice.cpp:362`): plain text is sent without a type |

Because of the first, `StaysCoherent` leaves out moves of files (`MovesFile`);
because of it and the second, `ExactEffect`, `ReadCurrent` and `Contained` leave out
calls on the handle of a file that is gone (`Orphaned`): its path may by now lead to
a file that has the name of a folder that was above it.  Because of the third,
`Contained` speaks of the paths outside the call only.

Seen in the models, without a run of their own:

* The first of these flaws strands writes too: move a file with an open handle into a
  folder whose listing is cached, rmdir that folder, create a file of the folder's
  name, write to it through the old handle.  The path of the handle goes on below a
  file, so the write ends in the new file, which nobody has open and nobody will
  close.  `NoStrandedWrite` is therefore a property of each call begun with an
  accurate cache, `Owned` contents and a file that is there, not an invariant of
  all states; `Excused` lets an unmount fail for contents that were stranded before.
* A write-back that fails at unmount throws out of `~MtpLocalFileCopy`
  (`MtpLocalFileCopy.cpp:39`) and ends the process; the copies not yet destroyed
  are not sent.  `UnmountSaves` therefore speaks of an unmount that ends well.
* An error that a successful call has left on libmtp's stack makes the listing of
  an empty folder fail once (`MtpDevice.cpp:143`), and may hide the loss of the
  device once (`UnplugMaskedOnce` says not more often).
* A path that goes on below a file resolves to the file (`MtpFolder.cpp:76`); the
  kernel uses such a path when a directory it knows has been replaced by a file on
  the phone.  The second case of `Resolves` permits that, and only for a path that
  names nothing.
* The device number is narrowed to a byte (`ConnectedMtpDevices.cpp:59`):
  `-device=1,257` and `-device=1,-255` mount device 1 of bus 1.  `mount` gives 257,
  and `RequestedIsMounted` asks of a number that no byte holds only that the bus is
  the right one.  Such numbers name no device, so no documented use is wrong.

## Proofs

The theorems hold for every value of the constants, so for stores of any size, any
number of threads, handles, faults and so on.  They rest on the named assumptions
of the constants, which TLC evaluates in the runs, and on what a theorem states as
its own hypothesis.

### The metadata cache

`MtpMetadataCacheProofs` proves `TypeCorrect`, `ListAndLookupAgree`,
`ListInTimeOrder`, `StoredEntriesRecent`, `FillIsTracked`, `RecentAnswers` and
`Implements`.  The inductive invariant `IInv` joins the five invariants of the
run.  None is inductive alone: that the lookup table and the list agree needs
that nothing is held for the id of a miss being filled (`FillInProgress`), since
`Insert` would otherwise leave the old element in the list; the order of the list
gives that what `clearOld` keeps is young, which the answer of a hit needs; and
the bound on staleness of a stored entry needs what is known of a read in
progress.  The refinement proof maps every action to one action of
`MetadataCache`, `clearOld` to the forgetting of some old entries.

### The store of objects

The first part of `JmtpfsProofs` is about trees of objects, for every store.  The walk from an
object to its storage is a chain of parents, and `PathIn` the names along it.
Induction over the length of a chain is done with the least element of a set of
naturals (`LeastNat`), because the library's induction theorems cannot be
instantiated.  `PathStep` says that the path of an object is the path of its
folder and its name, `BelowStep` and `BelowPath` what lies below an object,
`PathsUnique` that no two objects have one path as long as no folder holds two
of one name.  The other lemmas say what adding, removing and renaming one object
does to the tree and to every path.  That `MayAdd` asks for the storage of the
parent folder (as the device does) and that the first store is a tree
(`StoresAssumption`) is what makes the tree an invariant.

### The file system

The second part proves `TypeCorrect` and `CleanCopies`.  `TypeCorrect` follows the
steps of the handlers: `HandlerType`, `InvokeType` and `ThenType` show that a call,
or a node found, gives rise to well-formed steps only, then one lemma for each
action shows that it keeps `TypeOK`.  `CleanCopies` says that a local copy with
nothing to send equals its file.  Its inductive invariant `CopiesInv` adds
`Issued`, that every id in use was given out before: without it a new object could
get the id of a local copy that outlived its file, and `DeleteOld`, which leaves
such a copy clean, would break the property one step later.  Each step is shown to
leave a table of copies that is right about the objects there were (`Accurate`)
and to keep the data of the objects that remain (`KeepsData`); only `DeleteOld`
needs an argument of its own.

The rest of `JmtpfsProofs` proves what calls do.

* `BaseHolds`: in every state, the store is a tree, and what the cache, the local
  copies and the steps left say about the kind of a node (file or folder) is
  right.  Ids are never used twice, so a listing may be out of date, but it never
  takes a folder for a file.
* `UnmountKeepsAll` (`UnmountSaves`): `UnmountInv` says that while copies are
  destroyed the tree the mount shows stays the one of `pre`, or lacks exactly the
  object that is about to be sent again.
* `ReadsAreCurrent` (`ReadCurrent`) and `FlushesReachDevice` (`Durable`) come from one
  inductive invariant, `Called`, and so does `ErrorDone`, that a call other than rename
  and unmount has a reason to fail.  Its part `CallInv` describes the
  phases of a call begun with an accurate cache: nothing has happened yet and the
  handler is on its way to the node, or has reached it (`Before`); the local copy
  has the new contents and is about to replace the object (`Storing`); the object
  is gone and its contents are about to be sent (`Resending`); the file has been
  created and is looked up again (`Opening`); the call is over, and has had its
  effect (`Did`) or was given up (`Stopped`).  One lemma for each pair of a phase
  and an action shows into which phase the step leads.  `Seen`, the kernel's own
  lookup, is shown to find the node at the path and no other when the cache is
  right, which is what the guards of `Kernel` then mean for the tree.

* The last lemmas of the module follow the contents that wait in local copies.  `HeldInv`:
  within a call, such contents belong to a file that is open (`Held`), or to the one
  that is being truncated or closed and is about to be written back (`Shortened`).
  It needs to know which steps begin to make contents wait (`WaitsBefore`), which
  close a file (`HeldOn`), and that the object sent in place of another has its path.

What is proved of rename in this module is only that it keeps `Base`.

`JmtpfsRenameProofs` is about `rename`, which for a file is write-back, fetch, send
and delete, and for a folder that leaves its parent a new folder, a recursion over
the contents, each of which may be such a folder again, and the removal of the old
one.  The inductive invariant `RenameInv` describes a tree that is partly in both
places.

* `Parts(View, G)`: every node of the tree is one that was there when the rename
  began, or the image, below the new path, of one that was below the old path; and
  every node that was there is still there, has its image, or is the one in `G`, an
  object deleted to be sent again.
* `Apart` and `Fresh`: neither path lies below the other, and nothing was below the
  new path, so that images never fall on what was there.
* `Moving` says which steps are left.  The first of them are those of one node
  (`Arriving`, `Flushing`, `Replacing`, `Dropping`, `Making`, `Entering`: a node that
  goes to the image of its folder under its own name); the others are a list of
  `GoodSteps`, each of which takes the contents of a folder to that folder's image,
  or removes a folder.  `Ends` and `Leaves` say that the source itself goes at the
  end and not before.
* `Tells(cache, Off)`: about the folders below the old path the cache is right at every
  step, so that no child is forgotten and a folder is removed only when it is empty.
  About the others it may be wrong: the move of a file does not clear the folder it
  goes to.  The new folder is found all the same, because `mkdir` has just dropped the
  listing it is looked up in (`Entering`).
* `Kept`: each file that was there has an object with its contents, at its path or at
  its image.

For each phase and each action a lemma shows into which phase the step leads, for
lists of any length and trees of any depth (`NextRename`).  From `RenameInv`
follow, for all calls now:

* `EffectsAreExact` (`ExactEffect`): when no step is left nothing of the source is
  left, so `Parts` says that every node is where POSIX puts it.
* `RenamesKeepContents` (`RenameKeepsContents`): `Kept` holds at every step, also after
  a failure or the end of the process.  That there are as many objects with a
  content as there were files follows because different files have different paths
  and images (`KeptCounts`).
* `FailuresAreContained` (`Contained`): whatever has moved when a rename fails, all of
  it lies below one of its two paths.
* `WritesAreNotStranded` (`NoStrandedWrite`): `CarriedInv` says that contents that wait
  during a rename belong to a file that is open, or, when a folder has just been
  renamed in place, to one whose handle the kernel is about to rename.  A file that
  moves is written back first; no other step makes contents wait.

`JmtpfsCacheProofs` proves `CacheStaysCoherent` (`StaysCoherent`), for all calls.
`RenameInv` lets the cache be wrong about the folders that files have moved to, which
it is after the move of a single file (`MovesFile`).  That it is right after every
other rename depends on the order of the steps: a file goes into a folder whose
listing is not cached, since the folder has just been made, and nothing reads it
before the rename is over.  `SureInv` says so in every state of a rename, at every
depth of the recursion:

* `Guarded(Cached, todo)`: before each step that is left and moves something into a
  folder (`Into`), the folder's entry is not cached, or a step before it clears it
  (`Clears`); `Cached` is what may be cached when the steps after the present one begin.
* `Unread`: the folder just made has not been read when it is looked up, because
  nothing was at its path and ids are not used twice.
* `Roomy`: ids are left for every image not made yet (`Due`) and every file that waits
  to be written back (`Unsent`).  It makes the device accept each object: a refusal
  would come after a delete and before the clear that follows the send.  `Begin` asks
  for these ids (`NewIds`); the device's full storage is among the `faults`.
* Between the delete and the send of a file that is written back the entry of its
  folder is wrong, and only that one (`Owes`).
* A rename that was refused has left the cache right, and one the device failed in is
  not covered.

That the folders it reads are right is why no child is forgotten; that nothing is
moved into a cached folder is why they stay so.

`JmtpfsErrorProofs` proves `ErrorsHaveReasons` (`NoSpuriousError`), for every call.
For unmount it needs `LeavingInv`: every content that waits has its object on the
device (`Pending`), and there are as many ids left as contents.  A rename may fail if
something was at the new path.  If nothing was, that no step fails depends on the order
of all the steps that are left, at every depth of the recursion; `ErrInv` says that
they are `Tidy` until the rename ends or the device fails:

* `Orderly(Srcs, todo)`: every step finds what it wants.  `Srcs` are the nodes of the
  source that are still there; a step may take some of them away (`Takes`), and what it
  needs (`Wants`: the node it starts from, a child of each name it was told, nothing
  below a folder it removes) is among those the steps before it have left (`LeftAt`).
* Nothing is where a step will make something (`Makes`, `Spot`), so the device does not
  refuse it as a second object of that name: a node whose image is there already is one
  a later step will remove (`Leaving`).
* The device has room for all that is still to be made and sent again (`Roomy`, of the
  proofs about the cache).

One lemma for each kind of step shows that the steps it puts before the others keep
the whole list in order (`RestTidy`, `ChildTidy`, `ArrivingTidy`, `ReplacingTidy` and so
on); a lookup finds its node because the cache is right about the folders below the
source (`Tells`, of `RenameInv`) and the new folder is there.

These theorems, and those of `JmtpfsProofs` about single calls but `BaseHolds` and
`UnmountKeepsAll`, have the hypothesis `~AcceptsDuplicates`: on a device with two
objects of one path, which of them a call is about is not determined, and the tree
as a set of paths does not say what a call did.

TLC found two places where the model had to be made precise before these proofs
were possible: `MayAdd` let an object be put into a folder of another storage, and
`Kernel` let a path be renamed onto one of its own ancestors, which Linux refuses
before the file system is asked.

### Threads, the error stack, saves

`HandlerThreadsProofs` proves, for any number of threads, calls and nestings, that
scopes and mutexes balance (`ScopesBalanced`), that the state has one user
(`OneUser`) and that the locks implement `SerialUse` (`Implements`).  `IInv` adds
to the type and to `Balanced` that a free mutex counts nothing (`Counts`), that an
idle worker holds and wants nothing (`IdleHoldsNothing`), that the main thread
never takes the global lock (`MainIsPlain`), and that the workers are out of the
handlers while the main thread uses the state and the other way round
(`NoWorkers`, `NoMain`).  Exclusion between workers follows from `Balanced`, that
between workers and the main thread only from the last two.

`DeviceCallsProofs` proves `NoFailureLost`, `NoOldErrors` and
`DisconnectionNoticed` for every number of calls and errors.  The last is not
inductive: `Masking` says that once a failure has been masked the stack is empty,
so that the next call on the lost device finds its own error first.
It shows that the composition implements `LibmtpErrors`
(`ImplementsErrors`), so that these theorems hold there (`FailuresSurfaceHere`),
and that it keeps its types (`CallsTypeCorrect`).  It proves `SavesArriveWhole`
from `FromTheStart`: between `NewFile` and the send the descriptor stands at the
beginning, for every size of file and buffer; and `MediaKeepTheirType` for every
set of MIME types, because the type about to be sent is the one chosen for the
contents if libmagic has answered for them, and none otherwise.

### Start-up and paths

`MountedProofs` proves `IncompleteNeverMounts`, `NotFoundMeansNotFound` and
`RequestedOneMounted` for every set of devices and texts, from `StartInv`: what has
been requested is what was given, and what is chosen matches it.  For the descent along a path it proves `PathsResolve`, `ErrorsAreTrue` and
`MadeAtThePath`, for paths of any length over any names: at every component, what
has been walked and what is left are the path the kernel gave, although the code
cuts the one from a string at its first slash and the other at its last.
`MountedTypeCorrect` is the type invariant.  `TreesAssumption` says that the trees
of the device are closed under parents and that nothing lies below a file; the
second is why a descent that ends early at a file was on a path that names nothing.

### Only model-checked

* Liveness: `CallsReturn` of both modules is out of the prover's reach.

## Not modelled

Listed with reasons in `PROJECT.json`.  In short:

* option parsing and the text of listings (input and output only), the option
  `listStorage`, which is commented out; the build system; `TemporaryFile`, an
  empty file;
* the numbers of `statfs`, times and modes; errors of the temporary file (a full
  disk); a clock that is set back;
* devices whose object ids clash with storage ids, and two storages of one
  description: the models take both apart;
* the descriptors that copies left by a rename keep open: the copies are in
  `localFiles`, descriptors are not counted;
* changes made on the phone while jmtpfs runs, composed with `Jmtpfs`: they are in
  `MtpMetadataCache` and `FilesystemPath`, where their effect ends.

## Plan

Done: the core (`MtpDevice`, `Jmtpfs`, the cache and its refinement), the threads
and locks with their refinement, unmount, the error stack, saving and file types,
paths, start-up, and the proofs named above.

Left:

* changes made on the phone, composed with `Jmtpfs`, and devices that accept a
  second object of one name.
