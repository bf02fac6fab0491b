----------------------------- MODULE MtpDevice ------------------------------
(***************************************************************************)
(* The MTP device as jmtpfs sees it through MtpDevice.cpp: a store of      *)
(* objects, each with an id, a name, a parent folder and, for a file, its  *)
(* contents.  The program can only fetch a whole file, send a whole file,  *)
(* create a folder, set a name and delete an object; the device gives      *)
(* every new object a fresh id.                                            *)
(***************************************************************************)
EXTENDS Naturals, Sequences, FiniteSets, Maps

CONSTANTS Storages,          \* the storage areas (internal memory, SD card)
          Names,             \* names of files and folders
          Bytes,             \* values of a byte; 0 fills the holes of a file
          MaxLen,            \* longest file of the model
          MaxId,             \* object ids are 1 .. MaxId; 0 is "top of the storage"
          AcceptsDuplicates, \* may a folder hold two objects of one name?
          InitialStores      \* the object stores the device may start with

ObjIds  == 1 .. MaxId
NodeIds == Storages \cup ObjIds
Data    == UNION {[1 .. n -> Bytes] : n \in 0 .. MaxLen}
Object  == [file : BOOLEAN, name : Names, parent : 0 .. MaxId,
            storage : Storages, data : Data]

ASSUME DeviceAssumption ==
         /\ MaxId \in Nat /\ MaxLen \in Nat
         /\ 0 \in Bytes
         /\ AcceptsDuplicates \in BOOLEAN
         /\ Storages \cap ObjIds = {}   \* ids of storages and objects share one key space
         /\ \A o \in InitialStores : IsMap(o, ObjIds, Object)

(* What lies in a folder is on the storage of the folder, no folder lies   *)
(* below itself, and only files have contents.                             *)
IsTree(o) ==
  /\ \A i \in DOMAIN o : LET p == o[i].parent
                        IN  p = 0 \/ (p \in DOMAIN o /\ ~o[p].file /\ o[p].storage = o[i].storage)
  /\ \A S \in SUBSET DOMAIN o : S = {} \/ \E i \in S : o[i].parent \notin S
  /\ \A i \in DOMAIN o : ~o[i].file => o[i].data = <<>>

(* No two objects in one place have one name.                              *)
NoTwins(o) ==
  \A i, j \in DOMAIN o :
    o[i].parent = o[j].parent /\ o[i].storage = o[j].storage /\ o[i].name = o[j].name => i = j

ASSUME StoresAssumption ==
         \A o \in InitialStores : IsTree(o) /\ (AcceptsDuplicates \/ NoTwins(o))

VARIABLES objs,    \* the objects on the device, by id
          nextId   \* the id the next new object gets

DeviceTypeOK == /\ IsMap(objs, ObjIds, Object)
                /\ nextId \in 1 .. MaxId + 1

DeviceInit == /\ objs \in InitialStores
              /\ nextId \in 1 .. MaxId + 1
              /\ \A i \in DOMAIN objs : i < nextId
              /\ \A k \in 1 .. nextId - 1 : k \in DOMAIN objs

-----------------------------------------------------------------------------
(* What a folder holds: LIBMTP_Get_Files_And_Folders on a storage and a    *)
(* parent id.                                                              *)
Inside(parent, storage) ==
  {i \in DOMAIN objs : objs[i].parent = parent /\ objs[i].storage = storage}

GetFolderContents(storage, parent) ==
  {[id |-> i, name |-> objs[i].name, file |-> objs[i].file] :
      i \in Inside(parent, storage)}

(* The object k levels above i, 0 above the top of the storage.            *)
Above(o, i) ==
  LET up[k \in Nat] ==
        IF k = 0 THEN i
        ELSE LET j == up[k - 1] IN IF j \in DOMAIN o THEN o[j].parent ELSE 0
  IN  up

(* An object with everything below it: what the device deletes when told   *)
(* to delete a folder.                                                     *)
Subtree(o, root) == {root} \cup {i \in DOMAIN o : \E k \in 0 .. MaxId : Above(o, i)[k] = root}

(* The path of an object: its storage, then the names on the way down.     *)
PathIn(o, i) ==
  LET up    == Above(o, i)
      depth == CHOOSE k \in 1 .. MaxId : up[k] = 0 /\ up[k - 1] # 0
  IN  <<o[i].storage>> \o [k \in 1 .. depth |-> o[up[depth - k]].name]

PathOf(i) == PathIn(objs, i)

-----------------------------------------------------------------------------
(* The calls that change the store.  Each is a condition under which the   *)
(* device accepts the call, and the store after it.                        *)
Live(n) == n \in Storages \cup DOMAIN objs

MayAdd(o) ==
  /\ nextId \in ObjIds                                    \* the device has room
  /\ o.parent = 0 \/ /\ o.parent \in DOMAIN objs /\ ~objs[o.parent].file
                     /\ objs[o.parent].storage = o.storage
  /\ AcceptsDuplicates
       \/ \A i \in Inside(o.parent, o.storage) : objs[i].name # o.name

MaySetName(i, name) ==
  /\ i \in DOMAIN objs
  /\ AcceptsDuplicates
       \/ \A j \in Inside(objs[i].parent, objs[i].storage) \ {i} : objs[j].name # name

WithObject(o)     == Put(objs, nextId, o)
WithoutObject(i)  == Drop(objs, Subtree(objs, i))
WithName(i, name) == Put(objs, i, [objs[i] EXCEPT !.name = name])
=============================================================================
