------------------------------ MODULE PlanScore ------------------------------
(***************************************************************************)
(* plan and scoreWorkers of services/planner: from the objective and the   *)
(* routing snapshot to the weights of each model's workers.                *)
(*                                                                         *)
(* A score of 0.01 is Cent, which keeps the fractions of the runs' loads   *)
(* and prices exact and rounds any other down; the weight of a worker is   *)
(* the pair of its score and the sum of the scores.                        *)
(***************************************************************************)
EXTENDS Integers, FiniteSetsExt, Functions

CONSTANTS Views,      \* rows a snapshot may have, several of one worker
          MaxViews,   \* rows of a snapshot
          Objectives  \* weights in hundredths and the highest price, 0 for none

ASSUME PlanScoreAssumption ==
    /\ MaxViews \in Nat
    /\ \A v \in Views : v.load \in Nat /\ v.cost \in Int
    /\ \A o \in Objectives : o.load \in Int /\ o.latency \in Int /\ o.cost \in Int

Cent == 12   \* divisible by 1 + load for the loads of the runs

-----------------------------------------------------------------------------
\* The score before the floor: weights are in hundredths, so 1.0 is Cent here.
RawScore(o, w, maxCost) ==
    o.load * (Cent \div (1 + w.load)) + o.latency * Cent
      + o.cost * (IF maxCost > 0 THEN Cent - (Cent * w.cost) \div maxCost ELSE Cent)

Floored(sc) == Max({sc, Cent})

\* Mutant: the sum is taken before the floor.
scoreWorkersUnfloored(o, workers) ==
    LET maxCost == Max({0} \cup {workers[i].cost : i \in DOMAIN workers})
        lastRow(w) == workers[Max({i \in DOMAIN workers : workers[i].id = w})]
    IN  [raw |-> [w \in {workers[i].id : i \in DOMAIN workers} |->
                    Floored(RawScore(o, lastRow(w), maxCost))],
         sum |-> SumFunction([i \in DOMAIN workers |-> RawScore(o, workers[i], maxCost)])]

\* scoreWorkers: scores by worker id, while the sum has a term for every row.
scoreWorkers(o, workers) ==
    LET maxCost == Max({0} \cup {workers[i].cost : i \in DOMAIN workers})
        lastRow(w) == workers[Max({i \in DOMAIN workers : workers[i].id = w})]
    IN  [raw |-> [w \in {workers[i].id : i \in DOMAIN workers} |->
                    Floored(RawScore(o, lastRow(w), maxCost))],
         sum |-> SumFunction([i \in DOMAIN workers |->
                    Floored(RawScore(o, workers[i], maxCost))])]

Usable(o, w) ==
    w.healthy /\ w.ready /\ w.base # "none" /\ (o.maxCost <= 0 \/ w.cost <= o.maxCost)

\* plan: one entry for each model with a usable worker, from the rows of the
\* snapshot that are of the model.
plan(o, workers) ==
    LET usable == {i \in DOMAIN workers : Usable(o, workers[i])}
    IN  [m \in {workers[i].base : i \in usable} |->
            scoreWorkers(o, [i \in {j \in usable : workers[j].base = m} |-> workers[i]])]

-----------------------------------------------------------------------------
\* The rows of one worker differ in the model only.
Snapshots ==
    {s \in UNION {[1..n -> Views] : n \in 0..MaxViews} :
        \A i, j \in DOMAIN s : s[i].id = s[j].id => s[i] = [s[j] EXCEPT !.base = s[i].base]}

Rows(o, s, m) == {i \in DOMAIN s : s[i].base = m /\ Usable(o, s[i])}

\* The weights plan gives to the workers of a model are positive shares: they
\* never add up to more than the whole, and to exactly the whole unless a worker
\* serves several adapters of the base and is counted once for each.
EveryWeightIsAShare ==
    \A o \in Objectives, s \in Snapshots :
        LET policy == plan(o, s)
        IN  \A m \in DOMAIN policy :
              LET shares == SumFunction(policy[m].raw)
                  alone  == \A i, j \in Rows(o, s, m) : s[i].id = s[j].id => i = j
              IN  /\ \A w \in DOMAIN policy[m].raw : policy[m].raw[w] > 0
                  /\ shares <= policy[m].sum
                  /\ alone => shares = policy[m].sum

=============================================================================
