----------------------------- MODULE Hysteresis -----------------------------
(***************************************************************************)
(* The damping of the fleet's scaling decisions (services/fleet/           *)
(* hysteresis.go), for one model.  Time is abstracted to what Apply reads  *)
(* of it: which samples are still inside the stabilisation window, and     *)
(* whether the scale-down delay has passed since the last action.          *)
(***************************************************************************)
EXTENDS Integers, Sequences

CONSTANT MaxSamples  \* samples a window holds: its length over the reconcile interval

ASSUME MaxSamplesAssumption == MaxSamples \in Nat \ {0}

\* NewHysteresis: the change one decision may make.
step == 1

\* The state kept for a model; acted says whether lastAction was ever set.
FreshState == [samples |-> <<>>, pending |-> FALSE, acted |-> FALSE]

\* The sample of this call is appended and samples older than the window go:
\* those from position k on are kept, and the newest always is.
Kept(samples, wanted, k) ==
    SubSeq(Append(samples, wanted), k, Len(samples) + 1)

Keeps(samples) ==
    {k \in 1..(Len(samples) + 1) : Len(samples) + 2 - k <= MaxSamples}

\* hi and lo are the extreme samples of the window.
Samples(kept) == {kept[i] : i \in DOMAIN kept}
Extremes(kept, hi, lo) == \A v \in Samples(kept) : lo <= v /\ v <= hi

\* Mutant: a scale-up goes to the highest sample at once.
OutToTarget(st, wanted, current, hi, lo, delayPassed) ==
    IF st.pending THEN current
    ELSE IF wanted > current THEN hi
    ELSE IF wanted < current /\ delayPassed THEN lo
    ELSE current

\* What Apply returns; delayPassed: the delay is zero or has passed.
Out(st, wanted, current, hi, lo, delayPassed) ==
    IF st.pending THEN current
    ELSE IF wanted > current
         THEN IF current + step > hi THEN hi ELSE current + step
    ELSE IF wanted < current /\ delayPassed
         THEN IF current - step < lo THEN lo ELSE current - step
    ELSE current

\* A decision to move marks the model as pending until ClearPending.
Acts(st, wanted, current, delayPassed) ==
    ~st.pending /\ (wanted > current \/ (wanted < current /\ delayPassed))

\* The state Apply leaves behind.
Applied(st, kept, wanted, current, delayPassed) ==
    LET acts == Acts(st, wanted, current, delayPassed)
    IN  [samples |-> kept,
         pending |-> st.pending \/ acts,
         acted   |-> st.acted \/ acts]

ClearPending(st) == [st EXCEPT !.pending = FALSE]
=============================================================================
