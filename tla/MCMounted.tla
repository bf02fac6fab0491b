------------------------------ MODULE MCMounted -----------------------------
(* Small instance of Mounted for TLC: two devices that differ in the bus or *)
(* in the device number, and one storage in which a folder may be a         *)
(* directory with contents, a file, or gone.                                *)
EXTENDS Mounted, TLC

CONSTANTS absent, garbage, s, d, f, long

\* 257 is 1 in the byte that GetDevice has for a device number.
NumbersAndWorse == {1, 2, -1, 257, absent, garbage}

Base == (<<>> :> "root") @@ (<<s>> :> "storage") @@ (<<s, long>> :> "file")
SomeTrees ==
  {Base,
   Base @@ (<<s, d>> :> "file"),
   Base @@ (<<s, d>> :> "folder") @@ (<<s, d, f>> :> "file"),
   Base @@ (<<s, d>> :> "folder") @@ (<<s, d, d>> :> "folder") @@ (<<s, d, d, f>> :> "file")
        @@ (<<s, f>> :> "file")}
=============================================================================
