--------------------------- MODULE MCTaskUnlock ---------------------------
(* The instance of TaskUnlock for TLC: a and c are children of parent,     *)
(* which is paused when a completes and holds c back; c waits for a and b, *)
(* parent for b.                                                           *)
EXTENDS TaskUnlock

CONSTANTS a, b, c, parent

MCParent == [t \in Tasks |-> IF t \in {a, c} THEN parent ELSE None]
MCBeforeIds == [t \in Tasks |-> IF t = parent THEN {c} ELSE {}]
MCAfterIds == [t \in Tasks |-> IF t = parent THEN {a} ELSE {}]
MCInitBlocks == {<<c, a>>, <<c, b>>, <<parent, b>>}
=============================================================================
