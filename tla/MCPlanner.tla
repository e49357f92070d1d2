------------------------------ MODULE MCPlanner ------------------------------
(***************************************************************************)
(* The planners and subscribers of Planner, with what PlanScore says their *)
(* decisions hold.  For the scores: three workers, of which the second     *)
(* serves the model twice, once by an adapter.                             *)
(***************************************************************************)
EXTENDS Planner, PlanScore

View(w, b, l, c, y) ==
    [id |-> w, base |-> b, load |-> l, cost |-> c, healthy |-> TRUE, ready |-> y]

MCViews ==
    {View(1, "m", l, 0, TRUE) : l \in {0, 3}}
      \cup {View(2, b, l, 2, y) : b \in {"m", "n"}, l \in {0, 1}, y \in BOOLEAN}
      \cup {View(3, "m", l, 3, TRUE) : l \in {0, 2}}

MCObjectives ==
    {[load |-> l, latency |-> t, cost |-> c, maxCost |-> x] :
        l \in {0, 50}, t \in {0, 20}, c \in {0, 20, 100}, x \in {0, 2}}

\* What a recorded decision holds, whatever the objective and the snapshot it was
\* computed from: the weights of a model's workers are positive shares that never
\* add up to more than the whole, and to less only when a worker serves several
\* adapters of the base and scoreWorkers counts it once for each.
WeightsAreShares == db # {} => EveryWeightIsAShare
=============================================================================
