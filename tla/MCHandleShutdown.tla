---- MODULE MCHandleShutdown ----
(* Small instances of HandleShutdown. *)
EXTENDS HandleShutdown
====
