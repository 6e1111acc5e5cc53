---- MODULE MCEventData ----
(* A small instance of EventData: streams longer than the receive buffer, with *)
(* every end of line in every place, and client buffers smaller and larger     *)
(* than it.                                                                    *)
EXTENDS EventData
MCText == SeqOf({"cr", "lf"}, 3) \cup {<<"cr", "lf", "cr", "lf">>, <<"cr", "cr", "lf", "lf">>}
====
