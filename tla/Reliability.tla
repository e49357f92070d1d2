---------------------------- MODULE Reliability ----------------------------
(***************************************************************************)
(* The two pieces of shared state that decide whether a worker may be      *)
(* called: the per-worker circuit breaker of reliability/breaker.go and    *)
(* the retry budget of reliability/budget.go.  Every method runs under a   *)
(* mutex, so each is one operator from the old value to the new one.       *)
(*                                                                         *)
(* Time.  Allow compares time.Since(openedAt) with Timeout.  The clock is  *)
(* abstracted to the field "elapsed": FALSE when openedAt is set, TRUE     *)
(* once Timeout has passed (the environment action Gateway!TimeoutElapses).*)
(* The field successes is written and never read by the code: left out.    *)
(*                                                                         *)
(* Budget.  Tokens are counted in units of tokenRatio, so a success adds   *)
(* one unit and a failure takes TokenUnit units (the default ratio 0.1     *)
(* gives TokenUnit = 10).  Floating-point rounding of 0.1 is not modelled. *)
(***************************************************************************)
EXTENDS Naturals

CONSTANTS
  MinRequests,   \* BreakerConfig.MinRequests: outcomes needed before opening
  FailNum,       \* BreakerConfig.FailureRatio = FailNum / FailDen
  FailDen,
  MaxHalfOpen,   \* BreakerConfig.MaxHalfOpen: calls let through half-open
  MaxTokens,     \* RetryBudget.maxTokens, in units
  TokenUnit      \* units taken by one failure: 1 / tokenRatio

(* NewBreakerMap and NewRetryBudget replace zero and negative settings by  *)
(* positive defaults, so every setting that reaches the code is positive.  *)
ASSUME ReliabilityAssumption ==
  /\ MinRequests \in Nat \ {0}
  /\ FailNum \in Nat \ {0}
  /\ FailDen \in Nat \ {0}
  /\ MaxHalfOpen \in Nat \ {0}
  /\ MaxTokens \in Nat \ {0}
  /\ TokenUnit \in Nat \ {0}

BreakerState == {"closed", "halfOpen", "open"}

Breaker == [state: BreakerState, requests: Nat, failures: Nat,
            halfOpenLeft: Nat, elapsed: BOOLEAN]

(* get: a worker never seen before has a closed, zeroed breaker. *)
NewBreaker == [state |-> "closed", requests |-> 0, failures |-> 0,
               halfOpenLeft |-> 0, elapsed |-> FALSE]

(* Whether Allow returns nil rather than ErrOpen. *)
Allows(b) ==
  \/ b.state = "closed"
  \/ b.state = "open" /\ b.elapsed
  \/ b.state = "halfOpen" /\ b.halfOpenLeft > 0

(* What Allow does to the breaker.  The call that finds the timeout elapsed *)
(* moves the breaker to half-open without using one of its own slots.       *)
Allow(b) ==
  CASE b.state = "open" /\ b.elapsed ->
         [b EXCEPT !.state = "halfOpen", !.halfOpenLeft = MaxHalfOpen]
    [] b.state = "halfOpen" /\ b.halfOpenLeft > 0 ->
         [b EXCEPT !.halfOpenLeft = @ - 1]
    [] OTHER -> b

(* Mutant: a success closes an open breaker too. *)
SuccessCloses(b) ==
  IF b.state # "closed"
    THEN [b EXCEPT !.state = "closed", !.requests = 0, !.failures = 0]
    ELSE [b EXCEPT !.requests = @ + 1]

(* Mutant: a success only counts. *)
SuccessCounts(b) == [b EXCEPT !.requests = @ + 1]

(* Success: a half-open breaker closes with cleared counters; a closed one *)
(* halves its window once it holds 2 * MinRequests outcomes.               *)
Success(b) ==
  LET n == b.requests + 1 IN
  CASE b.state = "halfOpen" ->
         [b EXCEPT !.state = "closed", !.requests = 0, !.failures = 0]
    [] b.state = "closed" /\ n >= 2 * MinRequests ->
         [b EXCEPT !.requests = n \div 2, !.failures = @ \div 2]
    [] OTHER -> [b EXCEPT !.requests = n]

(* Failure: a half-open breaker reopens; any other opens (again) once the  *)
(* window is large enough and the failure ratio is reached.                *)
Failure(b) ==
  LET n == b.requests + 1
      f == b.failures + 1
      trips == n >= MinRequests /\ f * FailDen >= FailNum * n
      counted == [b EXCEPT !.requests = n, !.failures = f]
  IN  IF b.state = "halfOpen" \/ trips
        THEN [counted EXCEPT !.state = "open", !.elapsed = FALSE]
        ELSE counted

(* RetryBudget.Allow: more than half of the tokens are left. *)
BudgetAllows(t) == 2 * t > MaxTokens

BudgetOnFailure(t) == IF t < TokenUnit THEN 0 ELSE t - TokenUnit

BudgetOnSuccess(t) == IF t < MaxTokens THEN t + 1 ELSE MaxTokens
=============================================================================
