------------------------------ MODULE MCJmtpfs ------------------------------
(***************************************************************************)
(* Small instances of Jmtpfs: the trees the device starts with.            *)
(***************************************************************************)
EXTENDS JmtpfsProperties

CONSTANTS s1, s2,   \* storages
          a, b,     \* names
          h1, h2

file(name, parent, storage, data) ==
  [file |-> TRUE, name |-> name, parent |-> parent, storage |-> storage, data |-> data]
folder(name, parent, storage) ==
  [file |-> FALSE, name |-> name, parent |-> parent, storage |-> storage, data |-> <<>>]

OneStorage  == {s1}
TwoStorages == {s1, s2}
TwoNames    == {a, b}
OneHandle   == {h1}
TwoHandles  == {h1, h2}
SymHandles  == Permutations({h1, h2})
Bits        == {0, 1}

(* A file at the top.                                                      *)
OneFile == {<<file(a, 0, s1, <<1>>)>>}

(* Two files at the top.                                                   *)
TwoFiles == {<<file(a, 0, s1, <<1>>), file(b, 0, s1, <<0>>)>>}

(* A folder with a file in it, and an empty folder.                        *)
TwoFolders == {<<folder(a, 0, s1), file(a, 1, s1, <<1>>), folder(b, 0, s1)>>}

FileOps == {"getattr", "open", "release", "read", "create", "write", "truncate", "unlink",
            "flush", "rename", "unmount"}
TreeOps == {"readdir", "mkdir", "rmdir", "unlink", "rename", "statfs", "chmod"}
MoveOps == {"getattr", "mkdir", "rmdir", "rename"}
=============================================================================
