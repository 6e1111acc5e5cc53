---- MODULE MCListener ----
(* Small instances of Listener: two workers, so that a listener that was put *)
(* back can fail while the worker that did it is still in its notification.  *)
EXTENDS Listener
====
