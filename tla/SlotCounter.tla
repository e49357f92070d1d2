---------------------------- MODULE SlotCounter ----------------------------
(***************************************************************************)
(* What InflightTracker promises for one worker: TryTrack atomically takes *)
(* a slot if fewer than Limit are taken, the function it returns gives the *)
(* slot back, and the count is the number of slots taken.                  *)
(***************************************************************************)
EXTENDS Naturals, FiniteSets

CONSTANTS
  Procs,   \* goroutines
  Limit    \* slots

VARIABLES
  count,   \* the counter the rest of the gateway reads
  holders  \* the goroutines that hold a slot

vars == <<count, holders>>

Init == count = 0 /\ holders = {}

Acquire(p) ==
  /\ p \notin holders
  /\ count < Limit
  /\ count' = count + 1
  /\ holders' = holders \cup {p}

Release(p) ==
  /\ p \in holders
  /\ count' = count - 1
  /\ holders' = holders \ {p}

Next == \E p \in Procs : Acquire(p) \/ Release(p)

Spec == Init /\ [][Next]_vars
=============================================================================
