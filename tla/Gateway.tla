------------------------------ MODULE Gateway ------------------------------
(***************************************************************************)
(* The request path of the gateway, from an accepted HTTP request to its   *)
(* answer: rank the workers, take an admission slot, walk the candidates   *)
(* with retries under the retry budget and the circuit breakers, stream or *)
(* collect the generation, release the slot.                               *)
(*                                                                         *)
(* Each element of Requests is one handler goroutine; an idle one may      *)
(* serve a new request.  A step is one atomic access to shared state (one  *)
(* mutex-protected method, one successful compare-and-swap), so every      *)
(* interleaving of the handlers between two such accesses is a behaviour.  *)
(*                                                                         *)
(* The handlers chatCompletions and completions share this path.  They     *)
(* differ in that only the chat handler tries to activate capacity when    *)
(* ranking fails, and a streaming request differs from a collecting one in *)
(* the function that walks the candidates: streamFirstToken or Failover.Do.*)
(***************************************************************************)
EXTENDS Reliability, Sequences, FiniteSets

CONSTANTS
  Workers,         \* worker ids
  Requests,        \* handler goroutines
  Modes,           \* the kinds of request that arrive: a subset of AllModes
  Outcomes,        \* how a worker call may end: a subset of AllOutcomes
  AdmissionLimit,  \* HandlerConfig.AdmissionLimit
  MaxAttempts,     \* HandlerConfig.MaxAttempts and Failover.Max, one setting
  MaxArrivals,     \* bound: how many requests arrive in a behaviour
  None             \* no worker

StreamModes == {"chatStream", "textStream"}
ChatModes == {"chat", "chatStream"}
AllModes == StreamModes \cup {"chat", "text"}

(* How a call ends, as far as the gateway tells endings apart.             *)
(*   ok         first token received (stream) or text collected            *)
(*   eof        the stream ends before its first token                     *)
(*   retryable  Unavailable, ResourceExhausted, Internal, Unknown, or an   *)
(*              error that is no gRPC status                               *)
(*   fatal      any other gRPC status that is not excluded                 *)
(*   excluded   Canceled or DeadlineExceeded: counted by no breaker        *)
Errors == {"eof", "retryable", "fatal", "excluded"}
AllOutcomes == {"ok"} \cup Errors

ASSUME GatewayAssumption ==
  /\ IsFiniteSet(Requests)
  /\ Modes \subseteq AllModes
  /\ Outcomes \subseteq AllOutcomes
  /\ AdmissionLimit \in Nat \ {0}
  /\ MaxAttempts \in Nat \ {0}
  /\ MaxArrivals \in Nat
  /\ None \notin Workers

VARIABLES
  breaker,   \* BreakerMap.m
  tokens,    \* RetryBudget.tokens
  inflight,  \* InflightTracker.m: slots taken per worker
  arrived,   \* requests that arrived so far
  pc,        \* where each handler is
  mode,      \* the kind of its request
  cand,      \* its candidate list: ranked, admitted or ordered workers
  ordered,   \* Failover.Do: candidates that are not open
  open,      \* Failover.Do: candidates whose breaker refused
  idx,       \* its position in the list it walks
  attempts,  \* calls it has made
  last,      \* the last error it met
  slot,      \* the worker it holds an admission slot of
  ret        \* what the walk returned

shared == <<breaker, tokens, inflight, arrived>>
walk == <<cand, ordered, open, idx, attempts, last, ret>>
vars == <<breaker, tokens, inflight, arrived, pc, mode, cand, ordered, open,
          idx, attempts, last, slot, ret>>

(* What the walk returns: a worker that answered; a first token and then a *)
(* broken stream; the last error; the error "no healthy worker"; or a nil  *)
(* error without a worker.                                                 *)
Returns == {"none", "ok", "broken", "err", "noHealthy", "void"}

Locations == {"idle", "rank", "rerank", "admit", "state", "probe", "budget",
              "allow", "call", "fail", "charge", "refund", "credit",
              "stream", "release"}

TypeOK ==
  /\ breaker \in [Workers -> Breaker]
  /\ tokens \in 0..MaxTokens
  /\ inflight \in [Workers -> Nat]
  /\ arrived \in Nat
  /\ pc \in [Requests -> Locations]
  /\ mode \in [Requests -> AllModes \cup {"none"}]
  /\ cand \in [Requests -> Seq(Workers)]
  /\ ordered \in [Requests -> Seq(Workers)]
  /\ open \in [Requests -> Seq(Workers)]
  /\ idx \in [Requests -> Nat \ {0}]
  /\ attempts \in [Requests -> Nat]
  /\ last \in [Requests -> Errors \cup {"none"}]
  /\ slot \in [Requests -> Workers \cup {None}]
  /\ ret \in [Requests -> Returns]

Init ==
  /\ breaker = [w \in Workers |-> NewBreaker]
  /\ tokens = MaxTokens
  /\ inflight = [w \in Workers |-> 0]
  /\ arrived = 0
  /\ pc = [r \in Requests |-> "idle"]
  /\ mode = [r \in Requests |-> "none"]
  /\ cand = [r \in Requests |-> <<>>]
  /\ ordered = [r \in Requests |-> <<>>]
  /\ open = [r \in Requests |-> <<>>]
  /\ idx = [r \in Requests |-> 1]
  /\ attempts = [r \in Requests |-> 0]
  /\ last = [r \in Requests |-> "none"]
  /\ slot = [r \in Requests |-> None]
  /\ ret = [r \in Requests |-> "none"]

-----------------------------------------------------------------------------
(* Control of one handler *)

Streams(r) == mode[r] \in StreamModes

(* The candidate the handler looks at. *)
Cur(r) == cand[r][idx[r]]

Goto(r, l) == pc' = [pc EXCEPT ![r] = l]

(* The walk ends: the deferred done() is what is left to do. *)
Return(r, what) ==
  /\ Goto(r, "release")
  /\ ret' = [ret EXCEPT ![r] = what]

(* The walk's loop is over: no candidate left, or MaxAttempts calls made   *)
(* (Failover.Do only).                                                     *)
WalkOver(r) ==
  \/ idx[r] >= Len(cand[r])
  \/ ~Streams(r) /\ attempts[r] >= MaxAttempts

(* Mutant: the next round looks at the same candidate. *)
SameCandidate(r) ==
  IF WalkOver(r)
    THEN /\ Return(r, IF last[r] = "none" THEN "noHealthy" ELSE "err")
         /\ UNCHANGED idx
    ELSE /\ Goto(r, "budget")
         /\ UNCHANGED <<idx, ret>>

(* continue: go on with the next candidate, or leave the loop with the     *)
(* last error, or with "no healthy worker" when there is none.             *)
NextCandidate(r) ==
  IF WalkOver(r)
    THEN /\ Return(r, IF last[r] = "none" THEN "noHealthy" ELSE "err")
         /\ UNCHANGED idx
    ELSE /\ Goto(r, "budget")
         /\ idx' = [idx EXCEPT ![r] = @ + 1]
         /\ UNCHANGED ret

(* The handler goroutine ends; it holds nothing. *)
Reset(r) ==
  /\ Goto(r, "idle")
  /\ mode' = [mode EXCEPT ![r] = "none"]
  /\ cand' = [cand EXCEPT ![r] = <<>>]
  /\ ordered' = [ordered EXCEPT ![r] = <<>>]
  /\ open' = [open EXCEPT ![r] = <<>>]
  /\ idx' = [idx EXCEPT ![r] = 1]
  /\ attempts' = [attempts EXCEPT ![r] = 0]
  /\ last' = [last EXCEPT ![r] = "none"]
  /\ ret' = [ret EXCEPT ![r] = "none"]

-----------------------------------------------------------------------------
(* Arrival, ranking and admission *)

(* A request passes the middleware and the validation of its body. *)
Arrive(r) ==
  /\ pc[r] = "idle"
  /\ arrived < MaxArrivals
  /\ arrived' = arrived + 1
  /\ \E m \in Modes : mode' = [mode EXCEPT ![r] = m]
  /\ Goto(r, "rank")
  /\ UNCHANGED <<breaker, tokens, inflight, slot, walk>>

(* The comparison the admission filter and TryTrack make. *)
HasSlot(w) == inflight[w] < AdmissionLimit

(* Candidate lists: no worker twice, at most MaxAttempts of them. *)
Rankings ==
  { s \in UNION { [1..n -> Workers] : n \in 1..MaxAttempts } :
      \A i, j \in DOMAIN s : s[i] = s[j] => i = j }

(* SelectWorkers returns a list.  Which workers are live, capable and well *)
(* scored is the scheduler's business: any list.  The admission filter of  *)
(* the scheduler's chain has seen each of them below its limit.            *)
Rank(r) ==
  /\ pc[r] \in {"rank", "rerank"}
  /\ \E s \in Rankings :
       /\ \A i \in DOMAIN s : HasSlot(s[i])
       /\ cand' = [cand EXCEPT ![r] = s]
  /\ Goto(r, "admit")
  /\ UNCHANGED <<shared, mode, ordered, open, idx, attempts, last, slot, ret>>

(* SelectWorkers fails: no snapshot, unknown model, no live assignee, no   *)
(* capable worker, all saturated.  The handler answers with an error, and  *)
(* the chat handler may first activate capacity and rank once more.        *)
RankError(r) ==
  \/ /\ pc[r] \in {"rank", "rerank"}
     /\ Reset(r)
     /\ UNCHANGED <<shared, slot>>
  \/ /\ pc[r] = "rank"
     /\ mode[r] \in ChatModes
     /\ Goto(r, "rerank")
     /\ UNCHANGED <<shared, mode, slot, walk>>

(* Mutant: the admitted worker also keeps its place. *)
CopyToFront(s, i) == <<s[i]>> \o s

(* The list with its i-th worker moved to the front. *)
MoveToFront(s, i) ==
  <<s[i]>> \o SubSeq(s, 1, i - 1) \o SubSeq(s, i + 1, Len(s))

(* admitFromRanked, one TryTrack: the first candidate with a free slot is  *)
(* admitted and tried first; with none the answer is 429.                  *)
TryAdmit(r) ==
  LET w == Cur(r) IN
  /\ pc[r] = "admit"
  /\ \/ /\ HasSlot(w)
        /\ inflight' = [inflight EXCEPT ![w] = @ + 1]
        /\ slot' = [slot EXCEPT ![r] = w]
        /\ cand' = [cand EXCEPT ![r] = MoveToFront(@, idx[r])]
        /\ idx' = [idx EXCEPT ![r] = 1]
        /\ Goto(r, IF Streams(r) THEN "allow" ELSE "state")
        /\ UNCHANGED <<mode, ordered, open, attempts, last, ret>>
     \/ /\ ~HasSlot(w)
        /\ idx[r] < Len(cand[r])
        /\ idx' = [idx EXCEPT ![r] = @ + 1]
        /\ UNCHANGED <<inflight, slot, pc, mode, cand, ordered, open,
                       attempts, last, ret>>
     \/ /\ ~HasSlot(w)
        /\ idx[r] = Len(cand[r])
        /\ Reset(r)
        /\ UNCHANGED <<inflight, slot>>
  /\ UNCHANGED <<breaker, tokens, arrived>>

-----------------------------------------------------------------------------
(* Failover.Do: candidates with an open breaker are set aside first *)

(* The pass goes on with the next candidate, or ends: the walk then takes  *)
(* the candidates not set aside, or all of them when every one was.        *)
NextInPass(r, kept, aside) ==
  /\ ordered' = [ordered EXCEPT ![r] = kept]
  /\ open' = [open EXCEPT ![r] = aside]
  /\ IF idx[r] < Len(cand[r])
       THEN /\ idx' = [idx EXCEPT ![r] = @ + 1]
            /\ Goto(r, "state")
            /\ UNCHANGED cand
       ELSE /\ idx' = [idx EXCEPT ![r] = 1]
            /\ Goto(r, "allow")
            /\ cand' = [cand EXCEPT ![r] = IF kept = <<>> THEN aside ELSE kept]

(* BreakerMap.State *)
ReadState(r) ==
  /\ pc[r] = "state"
  /\ IF breaker[Cur(r)].state = "open"
       THEN /\ Goto(r, "probe")
            /\ UNCHANGED <<cand, ordered, open, idx>>
       ELSE NextInPass(r, Append(ordered[r], Cur(r)), open[r])
  /\ UNCHANGED <<shared, mode, attempts, last, slot, ret>>

(* BreakerMap.Allow, called when State was open: by now the breaker may be *)
(* half-open or closed.                                                    *)
ProbeOpen(r) ==
  LET w == Cur(r) IN
  /\ pc[r] = "probe"
  /\ breaker' = [breaker EXCEPT ![w] = Allow(@)]
  /\ IF Allows(breaker[w])
       THEN NextInPass(r, Append(ordered[r], w), open[r])
       ELSE NextInPass(r, ordered[r], Append(open[r], w))
  /\ UNCHANGED <<tokens, inflight, arrived, mode, attempts, last, slot, ret>>

-----------------------------------------------------------------------------
(* The walk over the candidates: streamFirstToken and the loop of Do *)

(* Every candidate but the first is a retry and needs budget.  Without it  *)
(* the last error is returned, and that is nil when no call has been made. *)
CheckBudget(r) ==
  /\ pc[r] = "budget"
  /\ IF BudgetAllows(tokens)
       THEN /\ Goto(r, "allow")
            /\ UNCHANGED ret
       ELSE Return(r, IF last[r] = "none" THEN "void" ELSE "err")
  /\ UNCHANGED <<shared, mode, cand, ordered, open, idx, attempts, last, slot>>

(* Breaker.Allow: a refused candidate is skipped unless it is the only one. *)
CheckBreaker(r) ==
  LET w == Cur(r) IN
  /\ pc[r] = "allow"
  /\ breaker' = [breaker EXCEPT ![w] = Allow(@)]
  /\ IF Allows(breaker[w]) \/ Len(cand[r]) = 1
       THEN /\ attempts' = [attempts EXCEPT ![r] = @ + 1]
            /\ Goto(r, "call")
            /\ UNCHANGED <<idx, ret>>
       ELSE /\ NextCandidate(r)
            /\ UNCHANGED attempts
  /\ UNCHANGED <<tokens, inflight, arrived, mode, cand, ordered, open, last,
                 slot>>

(* openGenerate and the first Recv, or the whole of collect, succeed. *)
CallSucceeds(r) ==
  /\ pc[r] = "call"
  /\ "ok" \in Outcomes
  /\ Goto(r, "refund")
  /\ UNCHANGED <<shared, mode, slot, walk>>

(* They fail.  To collect, the end of the stream is no error. *)
CallFails(r) ==
  /\ pc[r] = "call"
  /\ \E e \in Outcomes \cap Errors :
       /\ e = "eof" => Streams(r)
       /\ last' = [last EXCEPT ![r] = e]
       /\ IF e = "excluded"
            THEN Return(r, "err")
            ELSE Goto(r, "fail") /\ UNCHANGED ret
  /\ UNCHANGED <<shared, mode, cand, ordered, open, idx, attempts, slot>>

(* Mutant: an empty stream is retried like any other error. *)
RecordAnyFailure(r) ==
  /\ pc[r] = "fail"
  /\ breaker' = [breaker EXCEPT ![Cur(r)] = Failure(@)]
  /\ IF last[r] = "fatal"
       THEN Return(r, "err")
       ELSE Goto(r, "charge") /\ UNCHANGED ret
  /\ UNCHANGED <<tokens, inflight, arrived, mode, cand, ordered, open, idx,
                 attempts, last, slot>>

(* Breaker.Failure.  An empty stream is counted here and then goes down    *)
(* the success path; a fatal error ends the walk; others are retried.      *)
RecordFailure(r) ==
  /\ pc[r] = "fail"
  /\ breaker' = [breaker EXCEPT ![Cur(r)] = Failure(@)]
  /\ CASE last[r] = "eof" -> Goto(r, "refund") /\ UNCHANGED ret
       [] last[r] = "fatal" -> Return(r, "err")
       [] OTHER -> Goto(r, "charge") /\ UNCHANGED ret
  /\ UNCHANGED <<tokens, inflight, arrived, mode, cand, ordered, open, idx,
                 attempts, last, slot>>

(* Budget.OnFailure, then the next candidate. *)
ChargeBudget(r) ==
  /\ pc[r] = "charge"
  /\ tokens' = BudgetOnFailure(tokens)
  /\ NextCandidate(r)
  /\ UNCHANGED <<breaker, inflight, arrived, mode, cand, ordered, open,
                 attempts, last, slot>>

(* Budget.OnSuccess *)
RefundBudget(r) ==
  /\ pc[r] = "refund"
  /\ tokens' = BudgetOnSuccess(tokens)
  /\ Goto(r, "credit")
  /\ UNCHANGED <<breaker, inflight, arrived, mode, slot, walk>>

(* Breaker.Success; a stream then goes on until it ends. *)
RecordSuccess(r) ==
  /\ pc[r] = "credit"
  /\ breaker' = [breaker EXCEPT ![Cur(r)] = Success(@)]
  /\ IF Streams(r)
       THEN Goto(r, "stream") /\ UNCHANGED ret
       ELSE Return(r, "ok")
  /\ UNCHANGED <<tokens, inflight, arrived, mode, cand, ordered, open, idx,
                 attempts, last, slot>>

(* The rest of the stream: it ends, or it breaks and the error is sent as  *)
(* an event, or the client is gone.  No breaker and no budget hears of it. *)
StreamEnds(r) ==
  /\ pc[r] = "stream"
  /\ \E what \in {"ok", "broken"} : Return(r, what)
  /\ UNCHANGED <<shared, mode, cand, ordered, open, idx, attempts, last, slot>>

(* Mutant: done() is not deferred, so a panic skips it. *)
ReleaseUnlessPanic(r) ==
  LET w == slot[r] IN
  /\ pc[r] = "release"
  /\ inflight' = [inflight EXCEPT ![w] =
                    IF ret[r] = "void" \/ @ = 0 THEN @ ELSE @ - 1]
  /\ slot' = [slot EXCEPT ![r] = None]
  /\ Reset(r)
  /\ UNCHANGED <<breaker, tokens, arrived>>

(* Mutant: the slot of the worker that answered is released, not the one   *)
(* of the worker that was admitted.                                        *)
ReleaseCurrent(r) ==
  LET w == Cur(r) IN
  /\ pc[r] = "release"
  /\ inflight' = [inflight EXCEPT ![w] = IF @ = 0 THEN 0 ELSE @ - 1]
  /\ slot' = [slot EXCEPT ![r] = None]
  /\ Reset(r)
  /\ UNCHANGED <<breaker, tokens, arrived>>

(* The deferred done(): InflightTracker.Dec.  It also runs when the handler *)
(* panics, which it does on a nil stream returned with a nil error.         *)
Release(r) ==
  LET w == slot[r] IN
  /\ pc[r] = "release"
  /\ inflight' = [inflight EXCEPT ![w] = IF @ = 0 THEN 0 ELSE @ - 1]
  /\ slot' = [slot EXCEPT ![r] = None]
  /\ Reset(r)
  /\ UNCHANGED <<breaker, tokens, arrived>>

(* BreakerConfig.Timeout passes since w's breaker was last opened. *)
TimeoutElapses(w) ==
  /\ breaker[w].state = "open"
  /\ ~breaker[w].elapsed
  /\ breaker' = [breaker EXCEPT ![w].elapsed = TRUE]
  /\ UNCHANGED <<tokens, inflight, arrived, pc, mode, slot, walk>>

-----------------------------------------------------------------------------
Handle(r) ==
  \/ Rank(r) \/ RankError(r) \/ TryAdmit(r)
  \/ ReadState(r) \/ ProbeOpen(r)
  \/ CheckBudget(r) \/ CheckBreaker(r)
  \/ CallSucceeds(r) \/ CallFails(r)
  \/ RecordFailure(r) \/ ChargeBudget(r)
  \/ RefundBudget(r) \/ RecordSuccess(r)
  \/ StreamEnds(r) \/ Release(r)

(* Every request has been served. *)
Finished == arrived = MaxArrivals /\ \A r \in Requests : pc[r] = "idle"

Terminating == Finished /\ UNCHANGED vars

Next ==
  \/ \E r \in Requests : Arrive(r) \/ Handle(r)
  \/ \E w \in Workers : TimeoutElapses(w)
  \/ Terminating

Spec == Init /\ [][Next]_vars

(* A handler goroutine keeps running: Go schedules it, and the middleware's *)
(* request timeout (context.WithTimeout) ends a call or a stream that hangs.*)
FairSpec == Spec /\ \A r \in Requests : WF_vars(Handle(r))
-----------------------------------------------------------------------------
(* Properties *)

Holders(w) == {r \in Requests : slot[r] = w}

(* The handlers that have a worker working for them. *)
Upstream == {r \in Requests : pc[r] \in {"call", "stream"}}

(* Where a handler is agrees with what it holds and where it looks: it      *)
(* holds a slot from its admission to its release and at no other time, and *)
(* while it has candidates it looks at one of them.  This is what makes the *)
(* invariants below inductive.                                              *)
HandlerInv ==
  \A r \in Requests :
    /\ slot[r] = None <=> pc[r] \in {"idle", "rank", "rerank", "admit"}
    /\ IF pc[r] \in {"idle", "rank", "rerank"}
         THEN idx[r] = 1
         ELSE idx[r] <= Len(cand[r])

(* Admission slots are neither lost nor taken twice, whatever the order in  *)
(* which handlers admit, fail over and release: the counter TryTrack and    *)
(* Dec maintain is the number of handlers holding a slot of the worker, and *)
(* never exceeds the limit.                                                 *)
SlotsMatchCounters ==
  \A w \in Workers :
    /\ inflight[w] = Cardinality(Holders(w))
    /\ inflight[w] <= AdmissionLimit

(* The counter of each worker as the specification of InflightTracker has   *)
(* it; Inflight shows that the tracker's code implements the same one.      *)
Admission(w) == INSTANCE SlotCounter
                  WITH Procs <- Requests, Limit <- AdmissionLimit,
                       count <- inflight[w], holders <- Holders(w)

(* The handlers use the tracker as it must be used: a handler takes a slot  *)
(* of a worker once, gives back the one it took, after it took it and only  *)
(* once, even when failover moved it to another worker, it answered with    *)
(* an error or it panicked on a nil stream.                                 *)
(* This is \A w \in Workers : Admission(w)!Spec in the form TLC evaluates.  *)
AdmissionIsSlotCounter ==
  /\ \A w \in Workers : Admission(w)!Init
  /\ [][\A w \in Workers : [Admission(w)!Next]_(Admission(w)!vars)]_vars

(* A walk visits no worker twice, and a stream begins with the worker it    *)
(* was admitted to: admitFromRanked's reordering keeps the ranked list and  *)
(* Failover.Do's pass only drops from it.                                   *)
WalkIsSound ==
  \A r \in Requests :
    /\ \A i, j \in DOMAIN cand[r] : cand[r][i] = cand[r][j] => i = j
    /\ pc[r] = "call" => attempts[r] <= idx[r]
    /\ Streams(r) /\ pc[r] = "call" /\ idx[r] = 1 => slot[r] = Cur(r)

(* What the client is told has a cause.  An answer comes from a worker that *)
(* was called, an upstream error from a call that failed, and "no healthy   *)
(* worker" is said only when no worker was called.                          *)
AnswerHasCause ==
  \A r \in Requests : pc[r] = "release" =>
    /\ ret[r] \in {"ok", "broken", "err"} => attempts[r] > 0
    /\ ret[r] = "err" => last[r] \notin {"none", "eof"}
    /\ ret[r] = "noHealthy" => attempts[r] = 0

(* A breaker moves closed -> open -> half-open -> closed or open and in no  *)
(* other way, although the results of calls let through long ago keep       *)
(* arriving: a late success never closes an open breaker, and an open one   *)
(* is tried again only after its timeout.                                   *)
BreakerMoves ==
  [][\A w \in Workers :
       LET from == breaker[w].state
           to == breaker'[w].state
       IN  from # to =>
             \/ from = "closed" /\ to = "open"
             \/ from = "open" /\ to = "halfOpen" /\ breaker[w].elapsed
             \/ from = "halfOpen"]_vars

(* The handler is between Breaker.Allow for w and reporting the outcome. *)
Reporting(r, w) ==
  /\ pc[r] \in {"call", "fail", "refund", "credit"}
  /\ Cur(r) = w

(* A half-open breaker has handed out slots and nobody will report on them: *)
(* it refuses every call from then on.                                      *)
Stuck(w) ==
  /\ breaker[w].state = "halfOpen" /\ breaker[w].halfOpenLeft < MaxHalfOpen
  /\ \A r \in Requests : ~Reporting(r, w)

(* A breaker gets stuck half-open in two ways only, whatever late results   *)
(* of other calls arrive: a call was cancelled, which is reported to no     *)
(* breaker, or the first pass of Failover.Do used a slot without a call.  A *)
(* stream that is not cancelled never does it.                              *)
TrialPending ==
  [][\A w \in Workers : Stuck(w)' =>
       \/ Stuck(w)
       \/ \E r \in Requests : pc[r] = "call" /\ last'[r] = "excluded"
       \/ \E r \in Requests : pc[r] = "probe" /\ pc'[r] # "probe"]_vars

(* Every handler answers and gives its slot back. *)
EveryRequestAnswered ==
  \A r \in Requests : pc[r] # "idle" ~> pc[r] = "idle"

(* README, "Per-worker inflight limits": no worker is given more calls than *)
(* the limit.                                                               *)
PerWorkerInflight ==
  \A w \in Workers :
    Cardinality({r \in Upstream : Cur(r) = w}) <= AdmissionLimit

(* failover.go, "if all open, still try (panic mode)": a collecting request *)
(* that found every breaker open has called some worker when it returns.    *)
PanicModeTries ==
  \A r \in Requests :
    pc[r] = "release" /\ ordered[r] = <<>> /\ open[r] # <<>>
      => attempts[r] > 0

(* dispatch.go, "Returns stream + closer for the successful worker": the    *)
(* walk never returns a nil error without a worker.                         *)
NilErrorHasWorker ==
  \A r \in Requests : ret[r] # "void"

(* dispatch.go, "empty generation - treat as success path": a stream that   *)
(* ends before its first token does not open the worker's breaker.          *)
EmptyGenerationIsSuccess ==
  [][\A r \in Requests :
       pc[r] = "fail" /\ last[r] = "eof" /\ pc'[r] # pc[r]
         => breaker'[Cur(r)].state = breaker[Cur(r)].state]_vars
=============================================================================
