---------------------------- MODULE MCSyncSlots ----------------------------
(* Instances of SyncSlots for TLC.                                         *)
EXTENDS SyncSlots, TLC

Symmetry == Permutations(Thread)

\* Once a call has been beside one that writes, nothing is said of the data any
\* more, and nothing but the number of items written decides what can happen:
\* states that differ in the rest of the data alone are one (a VIEW).
SlotView ==
    <<conn, link, pc, frame, sendBuffer, Len(mark), IF beside THEN << >> ELSE <<wire, mark, lost>> >>
=============================================================================
