---------------------------- MODULE MCFileTypes -----------------------------
(* Small instance of FileTypes for TLC: every MIME type of the table, and   *)
(* some that it does not name.                                              *)
EXTENDS FileTypes

AllMimes == Named \cup {Video("webm"), Audio("aac"), Image("webp"), App("pdf"), Text("plain")}
=============================================================================
