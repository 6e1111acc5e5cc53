---- MODULE MCListenerManager ----
(* Small instances of ListenerManager: two entries, two connections. *)
EXTENDS ListenerManager
====
