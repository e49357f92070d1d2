--------------------------- MODULE NewestRegister ---------------------------
(***************************************************************************)
(* What a holder of versioned values promises: offering a value stores it  *)
(* if it is newer than the one held, in one step, and does nothing         *)
(* otherwise.                                                              *)
(***************************************************************************)
EXTENDS Naturals

CONSTANTS Items, Version, NoItem

VARIABLE held

NewerThan(i, j) == j = NoItem \/ Version[i] > Version[j]

Init == held = NoItem

Offer(i) == held' = IF NewerThan(i, held) THEN i ELSE held

Next == \E i \in Items : Offer(i)

Spec == Init /\ [][Next]_held
=============================================================================
