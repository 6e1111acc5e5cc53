---- MODULE ListenerManager ----
(***************************************************************************)
(* The listeners a ConnHandle manages for its consumer: entries that are   *)
(* added, started, stopped, suspended, expired, restarted and removed by   *)
(* the consumer, and ended by the callback of their connection in a worker.*)
(*                                                                         *)
(* The consumer makes one of these calls at a time.  A call that runs      *)
(* under the handle's mutex is one step; ConnAStartListener and            *)
(* ConnARestartListener change entries without it, and a callback frees    *)
(* the connection before it takes it.  Listener models what happens to the *)
(* connection in the engine.  An operator whose comment begins with "As    *)
(* if" is not part of the model: it is the definition after it with a      *)
(* plausible bug.                                                          *)
(***************************************************************************)
EXTENDS Naturals, Sequences, SequencesExt

CONSTANTS
    Entry,     \* ConnListener structures
    NumConns,  \* bound on the connections of the handle's pool, which are used again
    Nil        \* the null pointer

ASSUME ManagerAssumption == NumConns \in Nat /\ Nil \notin Entry \cup Nat

VARIABLES
    list,       \* handle->listener, head first
    state,      \* flags of each entry
    conn,       \* pub.conn of each entry
    life,       \* per connection: "cached" in the handle's pool, or "live"
    data,       \* its client.data
    killed,     \* connections whose listener was killed
    callback,   \* callbacks that have freed their connection, with the entry they found
    preventNew, \* handle->listener.preventNew, or shuttingDown
    pc,         \* the consumer's call in progress
    sel, cur,   \* the entry it was given, and the one it has come to
    backup      \* the connection ConnARestartListener has put aside

vars == <<list, state, conn, life, data, killed, callback, preventNew, pc, sel, cur, backup>>

ConnId == 1 .. NumConns
Flags == {"FRESH", "ACTIVE", "FAILED", "STOPPED", "SUSPENDED", "EXPIRED", "INDEPENDENT"}

Init ==
    /\ list = <<>>
    /\ state = [l \in Entry |-> {}]
    /\ conn = [l \in Entry |-> Nil]
    /\ life = [c \in ConnId |-> "cached"]
    /\ data = [c \in ConnId |-> Nil]
    /\ killed = {}
    /\ callback = {}
    /\ preventNew = FALSE
    /\ pc = "idle" /\ sel = Nil /\ cur = Nil /\ backup = Nil

In(l) == Contains(list, l)

\* What is left of a list when the entries of a set are unlinked.
Without(q, L) ==
    LET kept[i \in 0 .. Len(q)] ==
            IF i = 0 THEN <<>> ELSE IF q[i] \in L THEN kept[i - 1] ELSE Append(kept[i - 1], q[i])
    IN  kept[Len(q)]

Keep(l, flag) == {flag} \cup (state[l] \cap {"INDEPENDENT"})

\* The entries a call is about: the one it was given, or all that are not
\* independent, of those with one of the wanted flags.
Match(s, which) == {l \in Entry :
    /\ In(l)
    /\ IF s = Nil THEN "INDEPENDENT" \notin state[l] ELSE l = s
    /\ which = {} \/ state[l] \cap which # {}}

\* asynchronousListenerShutdown on the connections of entries. One that was freed
\* by its callback may be somebody else's by now.
Shutdown(L) == killed' = killed \cup {c \in ConnId : life[c] = "live" /\ \E l \in L : conn[l] = c}

connVars == <<life, data, callback>>
callVars == <<pc, sel, cur, backup>>

-----------------------------------------------------------------------------
(* Calls of the consumer that are one step *)

\* As if nobody looked whether the listener was there.
AddAgain(l, flags) ==
    /\ pc = "idle" /\ ~preventNew /\ Len(list) <= NumConns
    /\ list' = Append(list, l) /\ state' = [state EXCEPT ![l] = flags]
    /\ UNCHANGED <<conn, connVars, killed, preventNew, callVars>>

\* ConnAAddListener and ConnAAddIndependentListener: a listener that was added
\* before is only not expired any more.
ConnAAddListener(l, flags) ==
    /\ pc = "idle" /\ ~preventNew
    /\ IF In(l) THEN list' = list /\ state' = [state EXCEPT ![l] = (@ \ {"EXPIRED"}) \cup (flags \ {"FRESH"})]
                ELSE list' = Append(list, l) /\ state' = [state EXCEPT ![l] = flags]
    /\ UNCHANGED <<conn, connVars, killed, preventNew, callVars>>

\* As if a removed entry were freed whether or not it has a connection.
RemoveAtOnce(s, which) ==
    /\ pc = "idle"
    /\ LET L == Match(s, which)
       IN  /\ list' = Without(list, L)
           /\ state' = [l \in Entry |-> IF l \in L THEN {"STOPPED"} ELSE state[l]]
           /\ Shutdown(L)
    /\ UNCHANGED <<conn, connVars, preventNew, callVars>>

\* ConnARemoveListener: an entry with a connection is stopped and stays.
ConnARemoveListener(s, which) ==
    /\ pc = "idle"
    /\ LET L == Match(s, which)
       IN  /\ list' = Without(list, {l \in L : conn[l] = Nil})
           /\ state' = [l \in Entry |-> IF l \in L THEN {"STOPPED"} ELSE state[l]]
           /\ Shutdown(L)
    /\ UNCHANGED <<conn, connVars, preventNew, callVars>>

\* As if a stopped listener were only marked.
MarkedOnly(s, which) ==
    /\ pc = "idle"
    /\ state' = [l \in Entry |-> IF l \in Match(s, which) THEN Keep(l, "STOPPED") ELSE state[l]]
    /\ UNCHANGED <<list, conn, connVars, killed, preventNew, callVars>>

\* ConnAStopListener
ConnAStopListener(s, which) ==
    /\ pc = "idle"
    /\ state' = [l \in Entry |-> IF l \in Match(s, which) THEN Keep(l, "STOPPED") ELSE state[l]]
    /\ Shutdown(Match(s, which))
    /\ UNCHANGED <<list, conn, connVars, preventNew, callVars>>

\* ConnASuspendListener, ConnAResumeListener
Switch(s, from, to) ==
    /\ pc = "idle"
    /\ state' = [l \in Entry |-> IF l \in Match(s, {from}) THEN Keep(l, to) ELSE state[l]]
    /\ UNCHANGED <<list, conn, connVars, killed, preventNew, callVars>>

\* ConnAExpireListener, which does not take the mutex.
ConnAExpireListener(s) ==
    /\ pc = "idle"
    /\ state' = [l \in Entry |-> IF l \in Match(s, {}) THEN state[l] \cup {"EXPIRED"} ELSE state[l]]
    /\ UNCHANGED <<list, conn, connVars, killed, preventNew, callVars>>

\* ConnHandlePreventNewListeners
ConnHandlePreventNewListeners ==
    /\ pc # "crashed" /\ ~preventNew
    /\ preventNew' = TRUE
    /\ UNCHANGED <<list, state, conn, connVars, killed, callVars>>

\* ConnAListenerWaitForShutdown: one round of ConnAListenerStatus, which frees
\* the first entry without a connection; the pointer it goes on from is NULL
\* then.  It returns when it has counted none.
ConnAListenerStatus ==
    /\ pc \in {"idle", "wait"}
    /\ LET managed == Without(list, {l \in Entry : "INDEPENDENT" \in state[l]})
           gone == {i \in DOMAIN managed : conn[managed[i]] = Nil}
           first == CHOOSE i \in gone : \A j \in gone : i <= j
       IN  IF gone = {}
           THEN list' = list /\ pc' = IF managed = <<>> THEN "idle" ELSE "wait"
           ELSE /\ list' = Without(list, {managed[first]})
                /\ pc' = IF first = 1 THEN "idle" ELSE "wait"
    /\ UNCHANGED <<state, conn, connVars, killed, preventNew, sel, cur, backup>>

-----------------------------------------------------------------------------
(* ConnAStartListener *)

Startable == {"FRESH", "ACTIVE", "FAILED", "STOPPED"}

\* The entries from position i on that are to be started.
ToStart(s, i) == {j \in i .. Len(list) :
    list[j] \in Match(s, Startable) /\ conn[list[j]] = Nil}

\* Go to the next of them, without the mutex, or return.
GoOn(s, i) ==
    IF ToStart(s, i) = {}
    THEN pc' = "idle" /\ cur' = Nil /\ sel' = Nil
    ELSE /\ pc' = "listen" /\ sel' = s
         /\ cur' = list[CHOOSE j \in ToStart(s, i) : \A k \in ToStart(s, i) : j <= k]

ConnAStartListener(s) ==
    /\ pc = "idle" /\ ~preventNew
    /\ s = Nil \/ In(s)
    /\ GoOn(s, 1)
    /\ UNCHANGED <<list, state, conn, connVars, killed, preventNew, backup>>

\* l->pub.conn = ConnAListen(...), which fails when new listeners are not
\* allowed, or for want of an address or memory.
ConnAListen ==
    /\ pc = "listen" /\ pc' = "listened"
    /\ \/ conn' = [conn EXCEPT ![cur] = Nil] /\ life' = life
       \/ /\ ~preventNew
          /\ \E c \in ConnId :
              /\ life[c] = "cached"
              /\ conn' = [conn EXCEPT ![cur] = c]
              /\ life' = [life EXCEPT ![c] = "live"]
    /\ UNCHANGED <<list, state, data, killed, callback, preventNew, sel, cur, backup>>

\* The mutex again: the entry's state, and the connection is told its entry,
\* if it has not ended yet.
Listened ==
    /\ pc = "listened"
    /\ LET c == conn[cur]
       IN  /\ state' = [state EXCEPT ![cur] = Keep(cur, IF c = Nil THEN "FAILED" ELSE "ACTIVE")]
           /\ data' = IF c # Nil /\ life[c] = "live" THEN [data EXCEPT ![c] = cur] ELSE data
    /\ GoOn(sel, IF sel = Nil THEN 1 + CHOOSE i \in DOMAIN list : list[i] = cur ELSE Len(list) + 1)
    /\ UNCHANGED <<list, conn, life, killed, callback, preventNew, backup>>

-----------------------------------------------------------------------------
(* ConnARestartListener with another address, up to the first thing that can
   go wrong.  Without it the connection is put back, but not the state; with
   memory it calls ConnAStartListener without a handle, which dereferences it. *)

RestartBegin(l) ==
    /\ pc = "idle" /\ In(l) /\ ~preventNew
    /\ pc' = "restart" /\ cur' = l
    /\ backup' = conn[l]
    /\ state' = [state EXCEPT ![l] = {"FRESH"}]
    /\ conn' = [conn EXCEPT ![l] = Nil]
    /\ UNCHANGED <<list, connVars, killed, preventNew, sel>>

RestartNoMemory ==
    /\ pc = "restart"
    /\ pc' = "idle" /\ cur' = Nil /\ backup' = Nil
    /\ conn' = [conn EXCEPT ![cur] = backup]
    /\ UNCHANGED <<list, state, connVars, killed, preventNew, sel>>

RestartCrashes ==
    /\ pc = "restart" /\ pc' = "crashed"
    /\ UNCHANGED <<list, state, conn, connVars, killed, preventNew, sel, cur, backup>>

-----------------------------------------------------------------------------
(* ConnAListenerCallback in a worker, for a listener that failed or was killed *)

CallbackFrees(c) ==
    /\ pc # "crashed" /\ life[c] = "live"
    /\ life' = [life EXCEPT ![c] = "cached"]
    /\ callback' = callback \cup ({c} \X ({data[c]} \ {Nil}))
    /\ data' = [data EXCEPT ![c] = Nil]
    /\ killed' = killed \ {c}
    /\ UNCHANGED <<list, state, conn, preventNew, callVars>>

\* Under the mutex; a listener nobody has stopped is to be started again, by the
\* call without a handle.
CallbackEnds(c, l) ==
    /\ pc # "crashed" /\ <<c, l>> \in callback
    /\ callback' = callback \ {<<c, l>>}
    /\ conn' = [conn EXCEPT ![l] = Nil]
    /\ pc' = IF preventNew \/ "STOPPED" \in state[l] THEN pc ELSE "crashed"
    /\ UNCHANGED <<list, state, life, data, killed, preventNew, sel, cur, backup>>

-----------------------------------------------------------------------------
Which == {{}, {"EXPIRED"}}
Kinds == {{"FRESH"}, {"FRESH", "INDEPENDENT"}}

Next ==
    \/ \E l \in Entry, flags \in Kinds : ConnAAddListener(l, flags)
    \/ \E s \in Entry \cup {Nil} :
        \/ \E which \in Which : ConnARemoveListener(s, which) \/ ConnAStopListener(s, which)
        \/ Switch(s, "ACTIVE", "SUSPENDED") \/ Switch(s, "SUSPENDED", "ACTIVE")
        \/ ConnAExpireListener(s) \/ ConnAStartListener(s)
    \/ ConnAListen \/ Listened
    \/ \E l \in Entry : RestartBegin(l)
    \/ RestartNoMemory \/ RestartCrashes
    \/ ConnHandlePreventNewListeners \/ ConnAListenerStatus
    \/ \E c \in ConnId : CallbackFrees(c) \/ \E l \in Entry : CallbackEnds(c, l)

Spec == Init /\ [][Next]_vars

\* A killed listener comes out of the engine (KillEnds of Listener), and the
\* workers run.
Fairness == \A c \in ConnId :
    /\ WF_vars(c \in killed /\ CallbackFrees(c))
    /\ \A l \in Entry : WF_vars(CallbackEnds(c, l))

FairSpec == Spec /\ Fairness

-----------------------------------------------------------------------------
(* Properties *)

TypeOK ==
    /\ list \in Seq(Entry) /\ IsInjective(list)
    /\ state \in [Entry -> SUBSET Flags]
    /\ conn \in [Entry -> ConnId \cup {Nil}]
    /\ life \in [ConnId -> {"cached", "live"}]
    /\ data \in [ConnId -> Entry \cup {Nil}] /\ callback \subseteq ConnId \X Entry
    /\ killed \subseteq ConnId /\ preventNew \in BOOLEAN
    /\ pc \in {"idle", "wait", "listen", "listened", "restart", "crashed"}
    /\ {sel, cur} \subseteq Entry \cup {Nil} /\ backup \in ConnId \cup {Nil}

\* The entries that a connection, or the callback of one that was freed, knows.
Names(c) == {l \in Entry : data[c] = l \/ <<c, l>> \in callback}

\* What ConnAListenerCallback asserts when it has the mutex: the entry it found
\* still exists, and its connection is the one that came out of the engine,
\* although it was freed before and the consumer went on stopping, removing,
\* starting and adding listeners.  Only ConnARestartListener takes the
\* connection away for a time.
CameOutRight == \A c \in ConnId : \A l \in Names(c) :
    /\ In(l)
    /\ conn[l] = c \/ (pc \in {"restart", "crashed"} /\ cur = l /\ backup = c)

\* A listener that was stopped or removed loses its connection: its callback
\* comes and finds the entry, whatever is called meanwhile.
StopEnds == \A l \in Entry, c \in ConnId :
    ("STOPPED" \in state[l] /\ data[c] = l) ~> (conn[l] # c \/ pc = "crashed")
====
