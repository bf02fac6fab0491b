-------------------------- MODULE MCHandlerThreads --------------------------
(* Small instance of HandlerThreads for TLC. *)
EXTENDS HandlerThreads
=============================================================================
