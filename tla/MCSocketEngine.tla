---- MODULE MCSocketEngine ----
(* Small instances of SocketEngine: two sockets, one thread that waits and   *)
(* kills beside the poll thread and the workers, a wheel of two lists.       *)
EXTENDS SocketEngine
====
