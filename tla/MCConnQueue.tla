---- MODULE MCConnQueue ----
(* Small instances of ConnQueue: one event pool per question. *)
EXTENDS ConnQueue, TLC

CONSTANTS c1, d1, f1, r1, r2, s1, t1, u1, w1, w2

\* The type of each event of the pools below.
MCKind == [e \in Event |->
    CASE e = c1 -> "CONNECT"     [] e = d1 -> "DISCONNECT"
      [] e = f1 -> "FLUSH"       [] e \in {r1, r2} -> "READ"
      [] e = s1 -> "SSL_CONNECT" [] e = t1 -> "TLS_CONNECT"
      [] e = u1 -> "SSL_DISCONNECT"
      [] e \in {w1, w2} -> "WRITE"]

Symmetry == Permutations(Worker)
====
