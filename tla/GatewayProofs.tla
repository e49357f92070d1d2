--------------------------- MODULE GatewayProofs ---------------------------
(***************************************************************************)
(* Theorems about Gateway, for any workers, handlers, limits and settings: *)
(* types and breakers first, then the walks of the handlers, which         *)
(* candidates a request tries, why it is answered as it is, and the        *)
(* admission slots it takes on its way.                                    *)
(***************************************************************************)
EXTENDS Gateway, Integers, TLAPS

(* Allow, Success and Failure take a breaker to a breaker. *)
LEMMA BreakerOps ==
  ASSUME NEW b \in Breaker
  PROVE  Allow(b) \in Breaker /\ Success(b) \in Breaker /\ Failure(b) \in Breaker
<1>1. Allow(b) \in Breaker
  <2>1. CASE b.state = "open" /\ b.elapsed
    <3>1. Allow(b) = [b EXCEPT !.state = "halfOpen",
                               !.halfOpenLeft = MaxHalfOpen]
      BY <2>1, Zenon DEF Allow
    <3> QED BY <3>1, ReliabilityAssumption, Zenon DEF Breaker, BreakerState
  <2>2. CASE b.state = "halfOpen" /\ b.halfOpenLeft > 0
    <3>1. Allow(b) = [b EXCEPT !.halfOpenLeft = @ - 1]
      BY <2>2 DEF Allow
    <3> QED BY <2>2, <3>1 DEF Breaker
  <2>3. CASE /\ ~(b.state = "open" /\ b.elapsed)
             /\ ~(b.state = "halfOpen" /\ b.halfOpenLeft > 0)
    BY <2>3, Zenon DEF Allow
  <2> QED BY <2>1, <2>2, <2>3
<1>2. Success(b) \in Breaker
  <2>1. \A n \in Nat : n \div 2 \in Nat
    OBVIOUS
  <2>2. b.requests + 1 \in Nat /\ b.failures \in Nat
    BY DEF Breaker
  <2>3. CASE b.state = "halfOpen"
    BY <2>3, Zenon DEF Success, Breaker, BreakerState
  <2>4. CASE b.state = "closed" /\ b.requests + 1 >= 2 * MinRequests
    <3>1. Success(b) = [b EXCEPT !.requests = (b.requests + 1) \div 2,
                                 !.failures = b.failures \div 2]
      BY <2>4 DEF Success
    <3> QED BY <2>1, <2>2, <3>1, Zenon DEF Breaker
  <2>5. CASE /\ b.state # "halfOpen"
             /\ ~(b.state = "closed" /\ b.requests + 1 >= 2 * MinRequests)
    <3>1. Success(b) = [b EXCEPT !.requests = b.requests + 1]
      BY <2>5 DEF Success
    <3> QED BY <2>2, <3>1 DEF Breaker
  <2> QED BY <2>3, <2>4, <2>5
<1>3. Failure(b) \in Breaker
  <2> DEFINE counted == [b EXCEPT !.requests = b.requests + 1,
                                  !.failures = b.failures + 1]
             opened == [counted EXCEPT !.state = "open", !.elapsed = FALSE]
  <2>1. counted \in Breaker
    <3>1. b.requests + 1 \in Nat /\ b.failures + 1 \in Nat
      BY DEF Breaker
    <3> QED BY <3>1, Zenon DEF Breaker
  <2>2. opened \in Breaker
    <3> HIDE DEF counted
    <3> QED BY <2>1, Zenon DEF Breaker, BreakerState
  <2>3. Failure(b) = opened \/ Failure(b) = counted
    BY Zenon DEF Failure
  <2> QED BY <2>1, <2>2, <2>3
<1> QED BY <1>1, <1>2, <1>3

(* OnFailure and OnSuccess keep the tokens between zero and the maximum. *)
LEMMA BudgetOps ==
  ASSUME NEW t \in 0..MaxTokens
  PROVE  BudgetOnFailure(t) \in 0..MaxTokens /\ BudgetOnSuccess(t) \in 0..MaxTokens
BY ReliabilityAssumption DEF BudgetOnFailure, BudgetOnSuccess

(* What the walks need of numbers and of sequences.                         *)
LEMMA Counting ==
  \A n \in Nat : (n # 0 => n > 0) /\ n + 1 > 0
OBVIOUS

LEMMA ListFacts ==
  ASSUME NEW S, NEW s \in Seq(S)
  PROVE  /\ Len(s) \in Nat /\ DOMAIN s = 1..Len(s)
         /\ \A i \in 1..Len(s) : s[i] \in S
OBVIOUS

LEMMA AppendFacts ==
  ASSUME NEW S, NEW s \in Seq(S), NEW e \in S
  PROVE  /\ Append(s, e) \in Seq(S) /\ Append(s, e) # <<>>
         /\ Len(Append(s, e)) = Len(s) + 1
         /\ \A i \in 1..Len(s) : Append(s, e)[i] = s[i]
         /\ Append(s, e)[Len(s) + 1] = e
OBVIOUS

LEMMA Appended ==
  ASSUME NEW e \in Workers
  PROVE  \A s \in Seq(Workers) : Append(s, e) \in Seq(Workers) /\ Append(s, e) # <<>>
BY AppendFacts, ZenonT(30)

LEMMA ConcatFacts ==
  ASSUME NEW S, NEW s \in Seq(S), NEW t \in Seq(S)
  PROVE  /\ s \o t \in Seq(S) /\ Len(s \o t) = Len(s) + Len(t)
         /\ \A i \in 1..(Len(s) + Len(t)) :
              (s \o t)[i] = IF i <= Len(s) THEN s[i] ELSE t[i - Len(s)]
OBVIOUS

LEMMA SubSeqFacts ==
  ASSUME NEW S, NEW s \in Seq(S), NEW m \in 1..(Len(s) + 1), NEW n \in 0..Len(s), m <= n + 1
  PROVE  /\ SubSeq(s, m, n) \in Seq(S) /\ Len(SubSeq(s, m, n)) = n - m + 1
         /\ \A i \in 1..(n - m + 1) : SubSeq(s, m, n)[i] = s[m + i - 1]
OBVIOUS

(* A ranking is a non-empty list of distinct workers. *)
LEMMA RankingsAreLists ==
  ASSUME NEW s \in Rankings
  PROVE  /\ s \in Seq(Workers)
         /\ Len(s) >= 1
         /\ \A i, j \in DOMAIN s : s[i] = s[j] => i = j
<1>1. PICK n \in 1..MaxAttempts : s \in [1..n -> Workers]
  BY DEF Rankings
<1>2. s \in Seq(Workers)
  BY <1>1, GatewayAssumption
<1>3. Len(s) = n
  BY <1>1, <1>2, GatewayAssumption, ListFacts
<1> QED BY <1>2, <1>3 DEF Rankings

(* admitFromRanked's reordering yields a list of workers of the same length. *)
LEMMA MoveToFrontType ==
  ASSUME NEW s \in Seq(Workers), NEW i \in 1..Len(s)
  PROVE  /\ MoveToFront(s, i) \in Seq(Workers)
         /\ Len(MoveToFront(s, i)) = Len(s)
<1> DEFINE a == <<s[i]>>
           b == SubSeq(s, 1, i - 1)
           c == SubSeq(s, i + 1, Len(s))
<1>1. Len(s) \in Nat /\ \A k \in 1..Len(s) : s[k] \in Workers
  BY ListFacts
<1>2. a \in Seq(Workers) /\ Len(a) = 1
  BY <1>1
<1>3. b \in Seq(Workers) /\ Len(b) = i - 1
  BY <1>1, SubSeqFacts
<1>4. c \in Seq(Workers) /\ Len(c) = Len(s) - i
  BY <1>1, SubSeqFacts
<1> HIDE DEF a, b, c
<1>5. a \o b \in Seq(Workers) /\ Len(a \o b) = i
  <2>1. a \o b \in Seq(Workers) /\ Len(a \o b) = Len(a) + Len(b)
    BY <1>2, <1>3, ConcatFacts, Zenon
  <2> QED BY <2>1, <1>1, <1>2, <1>3
<1> DEFINE d == a \o b
<1> HIDE DEF d
<1>6. d \o c \in Seq(Workers) /\ Len(d \o c) = Len(s)
  <2>1. d \in Seq(Workers)
    BY <1>5 DEF d
  <2>2. d \o c \in Seq(Workers) /\ Len(d \o c) = Len(d) + Len(c)
    BY <2>1, <1>4, ConcatFacts, Zenon
  <2> QED BY <2>2, <1>1, <1>4, <1>5 DEF d
<1> QED BY <1>6, Zenon DEF MoveToFront, a, b, c, d

-----------------------------------------------------------------------------
(* Type correctness.  TypeOK is not inductive by itself: TryAdmit and the   *)
(* steps of the walk read Cur(r), which is a worker only as long as the     *)
(* position of the handler lies in its list.  HandlerInv says so.           *)

TypeInv == TypeOK /\ HandlerInv

(* A handler that has been ranked looks at one of its candidates. *)
LEMMA CurIsWorker ==
  ASSUME TypeInv, NEW r \in Requests, pc[r] \notin {"idle", "rank", "rerank"}
  PROVE  /\ Cur(r) \in Workers
         /\ cand[r] \in Seq(Workers)
         /\ Len(cand[r]) \in Nat
         /\ idx[r] \in 1..Len(cand[r])
<1>1. cand[r] \in Seq(Workers) /\ idx[r] \in Nat \ {0} /\ idx[r] <= Len(cand[r])
  BY DEF TypeInv, TypeOK, HandlerInv
<1>2. Len(cand[r]) \in Nat
  BY <1>1, ListFacts
<1>3. idx[r] \in 1..Len(cand[r])
  BY <1>1, <1>2
<1>4. cand[r][idx[r]] \in Workers
  BY <1>1, <1>3, ListFacts
<1> QED BY <1>1, <1>2, <1>3, <1>4 DEF Cur

(* The types of what a handler has for itself, of the breakers and of the   *)
(* counters.                                                                *)
LEMMA Types ==
  ASSUME TypeInv
  PROVE  /\ breaker \in [Workers -> Breaker] /\ inflight \in [Workers -> Nat]
         /\ pc \in [Requests -> Locations] /\ cand \in [Requests -> Seq(Workers)]
         /\ idx \in [Requests -> Nat \ {0}]
         /\ mode \in [Requests -> AllModes \cup {"none"}]
         /\ ordered \in [Requests -> Seq(Workers)] /\ open \in [Requests -> Seq(Workers)]
         /\ attempts \in [Requests -> Nat] /\ last \in [Requests -> Errors \cup {"none"}]
         /\ slot \in [Requests -> Workers \cup {None}] /\ ret \in [Requests -> Returns]
BY Zenon DEF TypeInv, TypeOK

LEMMA TypeInit == Init => TypeInv
<1> SUFFICES ASSUME Init PROVE TypeInv
  OBVIOUS
<1>1. NewBreaker \in Breaker
  BY DEF NewBreaker, Breaker, BreakerState
<1>2. TypeOK
  BY <1>1, ReliabilityAssumption, GatewayAssumption
  DEF Init, TypeOK, Locations, Returns
<1>3. HandlerInv
  BY DEF Init, HandlerInv
<1> QED BY <1>2, <1>3 DEF TypeInv

(* What the end of a handler does to its variables. *)
LEMMA ResetEffect ==
  ASSUME TypeOK, NEW r \in Requests, Reset(r)
  PROVE  /\ pc' \in [Requests -> Locations]
         /\ mode' \in [Requests -> AllModes \cup {"none"}]
         /\ cand' \in [Requests -> Seq(Workers)]
         /\ ordered' \in [Requests -> Seq(Workers)]
         /\ open' \in [Requests -> Seq(Workers)]
         /\ idx' \in [Requests -> Nat \ {0}]
         /\ attempts' \in [Requests -> Nat]
         /\ last' \in [Requests -> Errors \cup {"none"}]
         /\ ret' \in [Requests -> Returns]
         /\ pc'[r] = "idle" /\ idx'[r] = 1
         /\ \A q \in Requests \ {r} :
              pc'[q] = pc[q] /\ idx'[q] = idx[q] /\ cand'[q] = cand[q]
<1>1. <<>> \in Seq(Workers)
  OBVIOUS
<1>2. /\ cand' \in [Requests -> Seq(Workers)]
      /\ ordered' \in [Requests -> Seq(Workers)]
      /\ open' \in [Requests -> Seq(Workers)]
  BY <1>1 DEF Reset, TypeOK
<1> QED BY <1>2 DEF Reset, Goto, TypeOK, Locations, Returns

Unadmitted == {"idle", "rank", "rerank", "admit"}

(* HandlerInv for one handler; the others keep theirs when a step changes   *)
(* only r's entries.                                                        *)
LEMMA OneHandler ==
  ASSUME HandlerInv, NEW r \in Requests,
         \A q \in Requests \ {r} : /\ pc'[q] = pc[q] /\ slot'[q] = slot[q]
                                   /\ idx'[q] = idx[q] /\ cand'[q] = cand[q],
         slot'[r] = None <=> pc'[r] \in Unadmitted,
         IF pc'[r] \in {"idle", "rank", "rerank"}
           THEN idx'[r] = 1
           ELSE idx'[r] <= Len(cand'[r])
  PROVE  HandlerInv'
<1> SUFFICES ASSUME NEW q \in Requests
             PROVE  /\ slot'[q] = None <=> pc'[q] \in Unadmitted
                    /\ IF pc'[q] \in {"idle", "rank", "rerank"}
                         THEN idx'[q] = 1
                         ELSE idx'[q] <= Len(cand'[q])
  BY Zenon DEF HandlerInv, Unadmitted
<1>1. CASE q = r
  BY <1>1, Zenon
<1>2. CASE q # r
  <2>1. /\ pc'[q] = pc[q] /\ slot'[q] = slot[q]
        /\ idx'[q] = idx[q] /\ cand'[q] = cand[q]
    BY <1>2, Zenon
  <2>2. /\ slot[q] = None <=> pc[q] \in Unadmitted
        /\ IF pc[q] \in {"idle", "rank", "rerank"}
             THEN idx[q] = 1
             ELSE idx[q] <= Len(cand[q])
    BY Zenon DEF HandlerInv, Unadmitted
  <2> QED BY <2>1, <2>2
<1> QED BY <1>1, <1>2

(* An admitted handler goes to another place where it stays admitted. *)
LEMMA StayAdmitted ==
  ASSUME TypeInv, NEW r \in Requests, NEW l \in Locations, Goto(r, l),
         pc[r] \notin Unadmitted, l \notin Unadmitted,
         UNCHANGED <<slot, cand, idx>>
  PROVE  pc' \in [Requests -> Locations] /\ HandlerInv'
<1>1. pc \in [Requests -> Locations] /\ HandlerInv
  BY DEF TypeInv, TypeOK
<1>2. /\ pc' \in [Requests -> Locations] /\ pc'[r] = l
      /\ \A q \in Requests \ {r} : pc'[q] = pc[q]
  BY <1>1 DEF Goto
<1>3. slot[r] # None /\ idx[r] <= Len(cand[r])
  BY <1>1, Zenon DEF HandlerInv, Unadmitted
<1>4. slot'[r] = None <=> pc'[r] \in Unadmitted
  BY <1>2, <1>3
<1>5. pc'[r] \notin {"idle", "rank", "rerank"}
  BY <1>2 DEF Unadmitted
<1> QED BY <1>1, <1>2, <1>3, <1>4, <1>5, OneHandler

LEMMA ReturnType ==
  ASSUME TypeInv, NEW r \in Requests, NEW what \in Returns, Return(r, what)
  PROVE  ret' \in [Requests -> Returns] /\ Goto(r, "release")
BY DEF Return, TypeInv, TypeOK

(* A step of the walk that stays with its candidate: it goes on, or the   *)
(* walk returns.                                                           *)
LEMMA GoesOn ==
  ASSUME TypeInv, NEW r \in Requests, pc[r] \notin Unadmitted,
         UNCHANGED <<slot, cand, idx>>,
         \/ \E l \in Locations \ Unadmitted : Goto(r, l) /\ UNCHANGED ret
         \/ \E what \in Returns : Return(r, what)
  PROVE  /\ pc' \in [Requests -> Locations]
         /\ ret' \in [Requests -> Returns]
         /\ HandlerInv'
<1>1. CASE \E l \in Locations \ Unadmitted : Goto(r, l) /\ UNCHANGED ret
  <2>1. PICK l \in Locations \ Unadmitted : Goto(r, l) /\ UNCHANGED ret
    BY <1>1, Zenon
  <2>2. ret' \in [Requests -> Returns]
    BY <2>1 DEF TypeInv, TypeOK
  <2> QED BY <2>1, <2>2, StayAdmitted
<1>2. CASE \E what \in Returns : Return(r, what)
  <2>1. ret' \in [Requests -> Returns] /\ Goto(r, "release")
    BY <1>2, ReturnType, Zenon
  <2>2. "release" \in Locations /\ "release" \notin Unadmitted
    BY DEF Locations, Unadmitted
  <2> QED BY <2>1, <2>2, StayAdmitted
<1> QED BY <1>1, <1>2

(* What going on to the next candidate does. *)
LEMMA NextCandidateEffect ==
  ASSUME TypeInv, NEW r \in Requests, NextCandidate(r),
         pc[r] \notin Unadmitted, UNCHANGED <<slot, cand>>
  PROVE  /\ pc' \in [Requests -> Locations]
         /\ idx' \in [Requests -> Nat \ {0}]
         /\ ret' \in [Requests -> Returns]
         /\ HandlerInv'
<1>0. pc[r] \notin {"idle", "rank", "rerank"}
  BY DEF Unadmitted
<1>1. Len(cand[r]) \in Nat /\ idx[r] \in 1..Len(cand[r])
  BY <1>0, CurIsWorker
<1>t. /\ pc \in [Requests -> Locations]
      /\ idx \in [Requests -> Nat \ {0}]
      /\ ret \in [Requests -> Returns]
      /\ HandlerInv
  BY Types, Zenon DEF TypeInv
<1>2. CASE WalkOver(r)
  <2>1. PICK what \in {"noHealthy", "err"} : Return(r, what)
    BY <1>2, Zenon DEF NextCandidate
  <2>2. idx' = idx
    BY <1>2, Zenon DEF NextCandidate
  <2>3. what \in Returns /\ "release" \in Locations /\ "release" \notin Unadmitted
    BY DEF Returns, Locations, Unadmitted
  <2>4. ret' \in [Requests -> Returns] /\ Goto(r, "release")
    BY <2>1, <2>3, ReturnType
  <2> QED BY <1>t, <2>2, <2>3, <2>4, StayAdmitted
<1>3. CASE ~WalkOver(r)
  <2>1. idx[r] + 1 <= Len(cand[r]) /\ idx[r] + 1 \in Nat \ {0}
    BY <1>1, <1>3 DEF WalkOver
  <2>2. /\ pc' = [pc EXCEPT ![r] = "budget"]
        /\ idx' = [idx EXCEPT ![r] = idx[r] + 1]
        /\ ret' = ret
    BY <1>3, Zenon DEF NextCandidate, Goto
  <2>3. pc' \in [Requests -> Locations] /\ idx' \in [Requests -> Nat \ {0}]
    BY <1>t, <2>1, <2>2 DEF Locations
  <2>4. pc'[r] = "budget" /\ idx'[r] <= Len(cand'[r])
    BY <1>t, <2>1, <2>2
  <2>5. \A q \in Requests \ {r} : pc'[q] = pc[q] /\ idx'[q] = idx[q]
    BY <1>t, <2>2
  <2>6. slot'[r] # None
    BY <1>t, Zenon DEF HandlerInv, Unadmitted
  <2>7. pc'[r] \notin Unadmitted /\ pc'[r] \notin {"idle", "rank", "rerank"}
    BY <2>4 DEF Unadmitted
  <2>8. HandlerInv'
    BY <1>t, <2>4, <2>5, <2>6, <2>7, OneHandler
  <2> QED BY <1>t, <2>2, <2>3, <2>8
<1> QED BY <1>2, <1>3

(* What a step of the first pass of Failover.Do does. *)
LEMMA NextInPassEffect ==
  ASSUME TypeInv, NEW r \in Requests, pc[r] \in {"state", "probe"},
         NEW kept \in Seq(Workers), NEW aside \in Seq(Workers),
         kept # <<>> \/ aside # <<>>,
         NextInPass(r, kept, aside), UNCHANGED slot
  PROVE  /\ pc' \in [Requests -> Locations]
         /\ idx' \in [Requests -> Nat \ {0}]
         /\ cand' \in [Requests -> Seq(Workers)]
         /\ ordered' \in [Requests -> Seq(Workers)]
         /\ open' \in [Requests -> Seq(Workers)]
         /\ HandlerInv'
<1>1. Len(cand[r]) \in Nat /\ idx[r] \in 1..Len(cand[r])
  BY CurIsWorker
<1>t. /\ pc \in [Requests -> Locations]
      /\ idx \in [Requests -> Nat \ {0}]
      /\ cand \in [Requests -> Seq(Workers)]
      /\ HandlerInv
  BY Types, Zenon DEF TypeInv
<1>2. ordered' \in [Requests -> Seq(Workers)] /\ open' \in [Requests -> Seq(Workers)]
  <2>1. ordered' = [ordered EXCEPT ![r] = kept] /\ open' = [open EXCEPT ![r] = aside]
    BY Zenon DEF NextInPass
  <2> QED BY <2>1, Types
<1>s. slot'[r] # None
  BY <1>t, Zenon DEF HandlerInv
<1>3. CASE idx[r] < Len(cand[r])
  <2>1. /\ pc' = [pc EXCEPT ![r] = "state"]
        /\ idx' = [idx EXCEPT ![r] = idx[r] + 1]
        /\ cand' = cand
    BY <1>3, Zenon DEF NextInPass, Goto
  <2>2. idx[r] + 1 <= Len(cand[r]) /\ idx[r] + 1 \in Nat \ {0}
    BY <1>1, <1>3
  <2>3. pc' \in [Requests -> Locations] /\ idx' \in [Requests -> Nat \ {0}]
    BY <1>t, <2>1, <2>2 DEF Locations
  <2>4. pc'[r] = "state" /\ idx'[r] <= Len(cand'[r])
    BY <1>t, <2>1, <2>2
  <2>5. \A q \in Requests \ {r} : pc'[q] = pc[q] /\ idx'[q] = idx[q]
    BY <1>t, <2>1
  <2>6. pc'[r] \notin Unadmitted /\ pc'[r] \notin {"idle", "rank", "rerank"}
    BY <2>4 DEF Unadmitted
  <2>7. HandlerInv'
    BY <1>t, <1>s, <2>1, <2>4, <2>5, <2>6, OneHandler
  <2> QED BY <1>t, <1>2, <2>1, <2>3, <2>7
<1>4. CASE ~(idx[r] < Len(cand[r]))
  <2> DEFINE s == IF kept = <<>> THEN aside ELSE kept
  <2>1. s \in Seq(Workers) /\ 1 <= Len(s)
    OBVIOUS
  <2>2. /\ cand' = [cand EXCEPT ![r] = s]
        /\ idx' = [idx EXCEPT ![r] = 1]
        /\ pc' = [pc EXCEPT ![r] = "allow"]
    BY <1>4, Zenon DEF NextInPass, Goto
  <2> HIDE DEF s
  <2>3. /\ pc' \in [Requests -> Locations] /\ idx' \in [Requests -> Nat \ {0}]
        /\ cand' \in [Requests -> Seq(Workers)]
    BY <1>t, <2>1, <2>2 DEF Locations
  <2>4. pc'[r] = "allow" /\ idx'[r] <= Len(cand'[r])
    BY <1>t, <2>1, <2>2
  <2>5. \A q \in Requests \ {r} :
          pc'[q] = pc[q] /\ idx'[q] = idx[q] /\ cand'[q] = cand[q]
    BY <1>t, <2>2
  <2>6. pc'[r] \notin Unadmitted /\ pc'[r] \notin {"idle", "rank", "rerank"}
    BY <2>4 DEF Unadmitted
  <2>7. HandlerInv'
    BY <1>t, <1>s, <2>4, <2>5, <2>6, OneHandler, Zenon
  <2> QED BY <1>2, <2>3, <2>7
<1> QED BY <1>3, <1>4

LEMMA TypeNext == TypeInv /\ [Next]_vars => TypeInv'
<1> SUFFICES ASSUME TypeInv, [Next]_vars PROVE TypeInv'
  OBVIOUS
<1> USE DEF TypeInv
<1>1. ASSUME NEW r \in Requests, Arrive(r) PROVE TypeInv'
  <2>1. TypeOK'
    BY <1>1, GatewayAssumption
    DEF Arrive, Goto, walk, TypeOK, Locations, Returns
  <2>2. HandlerInv'
    BY <1>1, GatewayAssumption
    DEF Arrive, Goto, walk, TypeOK, HandlerInv
  <2> QED BY <2>1, <2>2
<1>2. ASSUME NEW r \in Requests, Rank(r) PROVE TypeInv'
  <2>1. TypeOK'
    BY <1>2, RankingsAreLists
    DEF Rank, Goto, shared, TypeOK, Locations, Returns
  <2>2. HandlerInv'
    BY <1>2, RankingsAreLists, SMTT(30)
    DEF Rank, Goto, shared, TypeOK, HandlerInv
  <2> QED BY <2>1, <2>2
<1>3. ASSUME NEW r \in Requests, RankError(r) PROVE TypeInv'
  <2>1. CASE Reset(r) /\ UNCHANGED <<shared, slot>> /\ pc[r] \in {"rank", "rerank"}
    <3>1. TypeOK'
      BY <2>1, ResetEffect, Zenon DEF TypeOK, shared
    <3>2. /\ pc'[r] = "idle" /\ idx'[r] = 1
          /\ \A q \in Requests \ {r} :
               pc'[q] = pc[q] /\ idx'[q] = idx[q] /\ cand'[q] = cand[q]
      BY <2>1, ResetEffect, Zenon
    <3>3. HandlerInv'
      BY <2>1, <3>2 DEF HandlerInv
    <3> QED BY <3>1, <3>3
  <2>2. CASE /\ pc[r] = "rank" /\ Goto(r, "rerank")
             /\ UNCHANGED <<shared, mode, slot, walk>>
    <3>1. /\ pc' \in [Requests -> Locations] /\ pc'[r] = "rerank"
          /\ \A q \in Requests \ {r} : pc'[q] = pc[q]
      BY <2>2, Types DEF Goto, Locations
    <3>2. TypeOK'
      BY <2>2, <3>1, Zenon DEF TypeOK, shared, walk
    <3>3. HandlerInv'
      BY <2>2, <3>1, Zenon DEF HandlerInv, walk
    <3> QED BY <3>2, <3>3
  <2> QED BY <1>3, <2>1, <2>2 DEF RankError
<1>4. ASSUME NEW r \in Requests, TryAdmit(r) PROVE TypeInv'
  <2> DEFINE w == Cur(r)
             rest == UNCHANGED <<breaker, tokens, arrived>>
             s == MoveToFront(cand[r], idx[r])
  <2>0. /\ w \in Workers /\ cand[r] \in Seq(Workers)
        /\ Len(cand[r]) \in Nat /\ idx[r] \in 1..Len(cand[r])
        /\ pc[r] = "admit" /\ slot[r] = None
    BY <1>4, CurIsWorker DEF TryAdmit, HandlerInv
  <2>1. CASE inflight' = [inflight EXCEPT ![w] = @ + 1]
             /\ slot' = [slot EXCEPT ![r] = w]
             /\ cand' = [cand EXCEPT ![r] = s]
             /\ idx' = [idx EXCEPT ![r] = 1]
             /\ Goto(r, IF Streams(r) THEN "allow" ELSE "state")
             /\ UNCHANGED <<mode, ordered, open, attempts, last, ret>>
             /\ rest
    <3>1. s \in Seq(Workers) /\ Len(s) = Len(cand[r])
      BY <2>0, MoveToFrontType
    <3>2. PICK l \in {"allow", "state"} : pc' = [pc EXCEPT ![r] = l]
      BY <2>1, Zenon DEF Goto
    <3>3. w # None
      BY <2>0, GatewayAssumption
    <3> HIDE DEF s, w
    <3>4. /\ pc \in [Requests -> Locations] /\ idx \in [Requests -> Nat \ {0}]
          /\ cand \in [Requests -> Seq(Workers)]
          /\ slot \in [Requests -> Workers \cup {None}]
          /\ inflight \in [Workers -> Nat]
      BY DEF TypeOK
    <3>5. /\ pc' \in [Requests -> Locations] /\ idx' \in [Requests -> Nat \ {0}]
          /\ slot' \in [Requests -> Workers \cup {None}]
      BY <2>0, <2>1, <3>2, <3>4 DEF Locations
    <3>6. cand' \in [Requests -> Seq(Workers)]
      BY <2>1, <3>1, <3>4
    <3>7. inflight' \in [Workers -> Nat]
      BY <2>0, <2>1, <3>4
    <3>8. TypeOK'
      BY <2>1, <3>5, <3>6, <3>7, Zenon DEF TypeOK
    <3>9. /\ pc'[r] \in {"allow", "state"} /\ slot'[r] # None
          /\ idx'[r] = 1 /\ 1 <= Len(cand'[r])
      BY <2>0, <2>1, <3>1, <3>2, <3>3, <3>4
    <3>10. \A q \in Requests \ {r} :
             /\ pc'[q] = pc[q] /\ slot'[q] = slot[q]
             /\ idx'[q] = idx[q] /\ cand'[q] = cand[q]
      BY <2>1, <3>2, <3>4
    <3>11. HandlerInv'
      BY <3>9, <3>10 DEF HandlerInv
    <3> QED BY <3>8, <3>11
  <2>2. CASE /\ idx[r] < Len(cand[r])
             /\ idx' = [idx EXCEPT ![r] = @ + 1]
             /\ UNCHANGED <<inflight, slot, pc, mode, cand, ordered, open,
                            attempts, last, ret>>
             /\ rest
    <3>1. idx[r] + 1 \in Nat \ {0} /\ idx[r] + 1 <= Len(cand[r])
      BY <2>0, <2>2
    <3>2. TypeOK'
      BY <2>2, <3>1, SMTT(30) DEF TypeOK
    <3>3. HandlerInv'
      <4>1. /\ idx'[r] = idx[r] + 1 /\ UNCHANGED <<pc, slot, cand>>
            /\ \A q \in Requests \ {r} : idx'[q] = idx[q]
        BY <2>2, Types, Zenon
      <4> QED BY <2>0, <3>1, <4>1, OneHandler, Zenon DEF Unadmitted
    <3> QED BY <3>2, <3>3
  <2>3. CASE Reset(r) /\ UNCHANGED <<inflight, slot>> /\ rest
    <3>1. TypeOK'
      BY <2>3, ResetEffect, ZenonT(30) DEF TypeOK
    <3>2. /\ pc'[r] = "idle" /\ idx'[r] = 1
          /\ \A q \in Requests \ {r} :
               pc'[q] = pc[q] /\ idx'[q] = idx[q] /\ cand'[q] = cand[q]
      BY <2>3, ResetEffect, Zenon
    <3>3. HandlerInv'
      BY <2>3, <2>0, <3>2 DEF HandlerInv
    <3> QED BY <3>1, <3>3
  <2> QED BY <1>4, <2>1, <2>2, <2>3, SMTT(30) DEF TryAdmit
<1>5. ASSUME NEW r \in Requests, ReadState(r) PROVE TypeInv'
  <2>0. Cur(r) \in Workers /\ pc[r] = "state" /\ pc[r] \notin Unadmitted
    BY <1>5, CurIsWorker DEF ReadState, Unadmitted
  <2>1. /\ \A s \in Seq(Workers) : /\ Append(s, Cur(r)) \in Seq(Workers)
                                  /\ Append(s, Cur(r)) # <<>>
        /\ ordered[r] \in Seq(Workers) /\ open[r] \in Seq(Workers)
    <3>1. \A s \in Seq(Workers) : /\ Append(s, Cur(r)) \in Seq(Workers)
                                  /\ Append(s, Cur(r)) # <<>>
      BY <2>0, Appended, Zenon
    <3> QED BY <3>1, Zenon DEF TypeOK
  <2>u. UNCHANGED <<shared, mode, attempts, last, slot, ret>>
    BY <1>5, Zenon DEF ReadState
  <2>2. CASE NextInPass(r, Append(ordered[r], Cur(r)), open[r])
    <3>1. /\ pc' \in [Requests -> Locations]
          /\ idx' \in [Requests -> Nat \ {0}]
          /\ cand' \in [Requests -> Seq(Workers)]
          /\ ordered' \in [Requests -> Seq(Workers)]
          /\ open' \in [Requests -> Seq(Workers)]
          /\ HandlerInv'
      BY <2>0, <2>1, <2>2, <2>u, NextInPassEffect, Zenon
    <3> QED BY <2>u, <3>1, Zenon DEF shared, TypeOK
  <2>3. CASE Goto(r, "probe") /\ UNCHANGED <<cand, ordered, open, idx>>
    <3>1. "probe" \in Locations /\ "probe" \notin Unadmitted
      BY DEF Locations, Unadmitted
    <3>2. pc' \in [Requests -> Locations] /\ HandlerInv'
      BY <2>0, <2>3, <2>u, <3>1, StayAdmitted
    <3> QED BY <2>3, <2>u, <3>2, Zenon DEF shared, TypeOK
  <2> QED BY <1>5, <2>2, <2>3, Zenon DEF ReadState
<1>6. ASSUME NEW r \in Requests, ProbeOpen(r) PROVE TypeInv'
  <2>0. Cur(r) \in Workers /\ pc[r] = "probe"
    BY <1>6, CurIsWorker DEF ProbeOpen
  <2>1. /\ \A s \in Seq(Workers) : /\ Append(s, Cur(r)) \in Seq(Workers)
                                  /\ Append(s, Cur(r)) # <<>>
        /\ ordered[r] \in Seq(Workers) /\ open[r] \in Seq(Workers)
    <3>1. \A s \in Seq(Workers) : /\ Append(s, Cur(r)) \in Seq(Workers)
                                  /\ Append(s, Cur(r)) # <<>>
      BY <2>0, Appended, Zenon
    <3> QED BY <3>1, Zenon DEF TypeOK
  <2>u. UNCHANGED <<tokens, inflight, arrived, mode, attempts, last, slot, ret>>
    BY <1>6, Zenon DEF ProbeOpen
  <2>2. breaker' \in [Workers -> Breaker]
    BY <1>6, <2>0, BreakerOps DEF ProbeOpen, TypeOK
  <2>3. PICK kept \in Seq(Workers), aside \in Seq(Workers) :
          /\ kept # <<>> \/ aside # <<>>
          /\ NextInPass(r, kept, aside)
    BY <1>6, <2>1, Zenon DEF ProbeOpen
  <2>4. /\ pc' \in [Requests -> Locations]
        /\ idx' \in [Requests -> Nat \ {0}]
        /\ cand' \in [Requests -> Seq(Workers)]
        /\ ordered' \in [Requests -> Seq(Workers)]
        /\ open' \in [Requests -> Seq(Workers)]
        /\ HandlerInv'
    BY <2>0, <2>3, <2>u, NextInPassEffect
  <2> QED BY <2>u, <2>2, <2>4, Zenon DEF TypeOK
<1>w. \A l \in {"allow", "call", "fail", "charge", "refund", "credit", "stream"} :
        l \in Locations \ Unadmitted
  BY DEF Locations, Unadmitted
<1>r. \A what \in {"void", "err", "ok", "broken"} : what \in Returns
  BY DEF Returns
<1>7. ASSUME NEW r \in Requests, CheckBudget(r) PROVE TypeInv'
  <2>0. pc[r] \notin Unadmitted
    BY <1>7 DEF CheckBudget, Unadmitted
  <2>u. UNCHANGED <<shared, mode, cand, ordered, open, idx, attempts, last, slot>>
    BY <1>7, Zenon DEF CheckBudget
  <2>1. \/ Goto(r, "allow") /\ UNCHANGED ret
        \/ Return(r, "void") \/ Return(r, "err")
    BY <1>7, Zenon DEF CheckBudget
  <2>9. /\ pc' \in [Requests -> Locations]
        /\ ret' \in [Requests -> Returns]
        /\ HandlerInv'
    BY <1>w, <1>r, <2>0, <2>1, <2>u, GoesOn
  <2> QED BY <2>u, <2>9, Zenon DEF shared, TypeOK
<1>8. ASSUME NEW r \in Requests, CheckBreaker(r) PROVE TypeInv'
  <2>0. Cur(r) \in Workers /\ pc[r] \notin Unadmitted
    BY <1>8, CurIsWorker DEF CheckBreaker, Unadmitted
  <2>u. UNCHANGED <<tokens, inflight, arrived, mode, cand, ordered, open, last,
                    slot>>
    BY <1>8, Zenon DEF CheckBreaker
  <2>1. breaker' \in [Workers -> Breaker]
    BY <1>8, <2>0, BreakerOps DEF CheckBreaker, TypeOK
  <2>2. CASE /\ attempts' = [attempts EXCEPT ![r] = @ + 1]
             /\ Goto(r, "call") /\ UNCHANGED <<idx, ret>>
    <3>1. attempts' \in [Requests -> Nat]
      BY <2>2 DEF TypeOK
    <3>2. /\ pc' \in [Requests -> Locations]
          /\ ret' \in [Requests -> Returns]
          /\ HandlerInv'
      BY <1>w, <2>0, <2>2, <2>u, GoesOn
    <3> QED BY <2>u, <2>1, <2>2, <3>1, <3>2, Zenon DEF TypeOK
  <2>3. CASE NextCandidate(r) /\ UNCHANGED attempts
    <3>1. /\ pc' \in [Requests -> Locations]
          /\ idx' \in [Requests -> Nat \ {0}]
          /\ ret' \in [Requests -> Returns]
          /\ HandlerInv'
      BY <2>0, <2>3, <2>u, NextCandidateEffect
    <3> QED BY <2>u, <2>1, <2>3, <3>1, Zenon DEF TypeOK
  <2> QED BY <1>8, <2>2, <2>3, Zenon DEF CheckBreaker
<1>9. ASSUME NEW r \in Requests, CallSucceeds(r) PROVE TypeInv'
  <2>0. pc[r] \notin Unadmitted
    BY <1>9 DEF CallSucceeds, Unadmitted
  <2>u. Goto(r, "refund") /\ UNCHANGED <<shared, mode, slot, walk>>
    BY <1>9, Zenon DEF CallSucceeds
  <2>9. /\ pc' \in [Requests -> Locations]
        /\ ret' \in [Requests -> Returns]
        /\ HandlerInv'
    BY <1>w, <2>0, <2>u, GoesOn DEF walk
  <2> QED BY <2>u, <2>9, Zenon DEF shared, walk, TypeOK
<1>10. ASSUME NEW r \in Requests, CallFails(r) PROVE TypeInv'
  <2>0. pc[r] \notin Unadmitted
    BY <1>10 DEF CallFails, Unadmitted
  <2>u. UNCHANGED <<shared, mode, cand, ordered, open, idx, attempts, slot>>
    BY <1>10, Zenon DEF CallFails
  <2>1. PICK e \in Errors :
          /\ last' = [last EXCEPT ![r] = e]
          /\ \/ Return(r, "err")
             \/ Goto(r, "fail") /\ UNCHANGED ret
    BY <1>10, Zenon DEF CallFails
  <2>2. last' \in [Requests -> Errors \cup {"none"}]
    BY <2>1 DEF TypeOK
  <2>9. /\ pc' \in [Requests -> Locations]
        /\ ret' \in [Requests -> Returns]
        /\ HandlerInv'
    BY <1>w, <1>r, <2>0, <2>1, <2>u, GoesOn
  <2> QED BY <2>u, <2>2, <2>9, Zenon DEF shared, TypeOK
<1>11. ASSUME NEW r \in Requests, RecordFailure(r) PROVE TypeInv'
  <2>0. Cur(r) \in Workers /\ pc[r] \notin Unadmitted
    BY <1>11, CurIsWorker DEF RecordFailure, Unadmitted
  <2>u. UNCHANGED <<tokens, inflight, arrived, mode, cand, ordered, open, idx,
                    attempts, last, slot>>
    BY <1>11, Zenon DEF RecordFailure
  <2>1. breaker' \in [Workers -> Breaker]
    BY <1>11, <2>0, BreakerOps DEF RecordFailure, TypeOK
  <2>2. \/ Goto(r, "refund") /\ UNCHANGED ret
        \/ Return(r, "err")
        \/ Goto(r, "charge") /\ UNCHANGED ret
    BY <1>11, Zenon DEF RecordFailure
  <2>9. /\ pc' \in [Requests -> Locations]
        /\ ret' \in [Requests -> Returns]
        /\ HandlerInv'
    BY <1>w, <1>r, <2>0, <2>2, <2>u, GoesOn
  <2> QED BY <2>u, <2>1, <2>9, Zenon DEF TypeOK
<1>12. ASSUME NEW r \in Requests, ChargeBudget(r) PROVE TypeInv'
  <2>0. pc[r] \notin Unadmitted
    BY <1>12 DEF ChargeBudget, Unadmitted
  <2>u. /\ NextCandidate(r)
        /\ UNCHANGED <<breaker, inflight, arrived, mode, cand, ordered, open,
                       attempts, last, slot>>
    BY <1>12, Zenon DEF ChargeBudget
  <2>1. tokens' \in 0..MaxTokens
    BY <1>12, BudgetOps DEF ChargeBudget, TypeOK
  <2>2. /\ pc' \in [Requests -> Locations]
        /\ idx' \in [Requests -> Nat \ {0}]
        /\ ret' \in [Requests -> Returns]
        /\ HandlerInv'
    BY <2>0, <2>u, NextCandidateEffect
  <2> QED BY <2>u, <2>1, <2>2, Zenon DEF TypeOK
<1>13. ASSUME NEW r \in Requests, RefundBudget(r) PROVE TypeInv'
  <2>0. pc[r] \notin Unadmitted
    BY <1>13 DEF RefundBudget, Unadmitted
  <2>u. Goto(r, "credit") /\ UNCHANGED <<breaker, inflight, arrived, mode, slot, walk>>
    BY <1>13, Zenon DEF RefundBudget
  <2>1. tokens' \in 0..MaxTokens
    BY <1>13, BudgetOps DEF RefundBudget, TypeOK
  <2>9. /\ pc' \in [Requests -> Locations]
        /\ ret' \in [Requests -> Returns]
        /\ HandlerInv'
    BY <1>w, <2>0, <2>u, GoesOn DEF walk
  <2> QED BY <2>u, <2>1, <2>9, Zenon DEF walk, TypeOK
<1>14. ASSUME NEW r \in Requests, RecordSuccess(r) PROVE TypeInv'
  <2>0. Cur(r) \in Workers /\ pc[r] \notin Unadmitted
    BY <1>14, CurIsWorker DEF RecordSuccess, Unadmitted
  <2>u. UNCHANGED <<tokens, inflight, arrived, mode, cand, ordered, open, idx,
                    attempts, last, slot>>
    BY <1>14, Zenon DEF RecordSuccess
  <2>1. breaker' \in [Workers -> Breaker]
    BY <1>14, <2>0, BreakerOps DEF RecordSuccess, TypeOK
  <2>2. \/ Goto(r, "stream") /\ UNCHANGED ret
        \/ Return(r, "ok")
    BY <1>14, Zenon DEF RecordSuccess
  <2>9. /\ pc' \in [Requests -> Locations]
        /\ ret' \in [Requests -> Returns]
        /\ HandlerInv'
    BY <1>w, <1>r, <2>0, <2>2, <2>u, GoesOn
  <2> QED BY <2>u, <2>1, <2>9, Zenon DEF TypeOK
<1>15. ASSUME NEW r \in Requests, StreamEnds(r) PROVE TypeInv'
  <2>0. pc[r] \notin Unadmitted
    BY <1>15 DEF StreamEnds, Unadmitted
  <2>u. UNCHANGED <<shared, mode, cand, ordered, open, idx, attempts, last, slot>>
    BY <1>15, Zenon DEF StreamEnds
  <2>1. \E what \in {"ok", "broken"} : Return(r, what)
    BY <1>15, Zenon DEF StreamEnds
  <2>9. /\ pc' \in [Requests -> Locations]
        /\ ret' \in [Requests -> Returns]
        /\ HandlerInv'
    BY <1>r, <2>0, <2>1, <2>u, GoesOn
  <2> QED BY <2>u, <2>9, Zenon DEF shared, TypeOK
<1>16. ASSUME NEW r \in Requests, Release(r) PROVE TypeInv'
  <2>1. inflight' \in [Workers -> Nat]
    <3>1. slot[r] \in Workers /\ inflight[slot[r]] \in Nat
      BY <1>16, Zenon DEF Release, HandlerInv, TypeOK
    <3>2. (IF inflight[slot[r]] = 0 THEN 0 ELSE inflight[slot[r]] - 1) \in Nat
      BY <3>1
    <3> QED BY <1>16, <3>1, <3>2 DEF Release, TypeOK
  <2>2. Reset(r) /\ UNCHANGED <<breaker, tokens, arrived>>
    BY <1>16 DEF Release
  <2>3. slot' = [slot EXCEPT ![r] = None]
    BY <1>16 DEF Release
  <2>4. TypeOK'
    BY <2>1, <2>2, <2>3, ResetEffect, Zenon DEF TypeOK
  <2>5. /\ pc'[r] = "idle" /\ idx'[r] = 1
        /\ \A q \in Requests \ {r} :
             pc'[q] = pc[q] /\ idx'[q] = idx[q] /\ cand'[q] = cand[q]
    BY <2>2, ResetEffect, Zenon
  <2>6. HandlerInv'
    BY <2>3, <2>5 DEF TypeOK, HandlerInv
  <2> QED BY <2>4, <2>6
<1>17. ASSUME NEW w \in Workers, TimeoutElapses(w) PROVE TypeInv'
  <2>1. [breaker[w] EXCEPT !.elapsed = TRUE] \in Breaker
    BY ZenonT(30) DEF TypeOK, Breaker
  <2>2. TypeOK'
    BY <1>17, <2>1 DEF TimeoutElapses, walk, TypeOK
  <2>3. HandlerInv'
    BY <1>17 DEF TimeoutElapses, walk, HandlerInv
  <2> QED BY <2>2, <2>3
<1>18. CASE UNCHANGED vars
  BY <1>18 DEF vars, TypeOK, HandlerInv
<1> QED
  BY <1>1, <1>2, <1>3, <1>4, <1>5, <1>6, <1>7, <1>8, <1>9, <1>10, <1>11,
     <1>12, <1>13, <1>14, <1>15, <1>16, <1>17, <1>18, SMTT(30)
  DEF Next, Handle, Terminating

(* Whatever the interleaving, every variable keeps its type and a handler's *)
(* position and slot agree with where it is.                                *)
THEOREM TypeCorrect == Spec => [](TypeOK /\ HandlerInv)
BY TypeInit, TypeNext, PTL DEF Spec, TypeInv

-----------------------------------------------------------------------------
(* Circuit breakers *)

(* The moves a breaker may make from one state to the next. *)
Moves(b, c) ==
  b.state # c.state =>
    \/ b.state = "closed" /\ c.state = "open"
    \/ b.state = "open" /\ c.state = "halfOpen" /\ b.elapsed
    \/ b.state = "halfOpen"

(* Each method of BreakerMap makes only those. *)
LEMMA BreakerOpsMove ==
  ASSUME NEW b \in Breaker
  PROVE  /\ Moves(b, Allow(b))
         /\ Moves(b, Success(b))
         /\ Moves(b, Failure(b))
         /\ Moves(b, [b EXCEPT !.elapsed = TRUE])
<1>1. b.state \in {"closed", "halfOpen", "open"} /\ b.elapsed \in BOOLEAN
  BY DEF Breaker, BreakerState
<1>2. Moves(b, Allow(b))
  <2>1. CASE b.state = "open" /\ b.elapsed
    BY <2>1, Zenon DEF Moves, Allow, Breaker
  <2>2. CASE b.state = "halfOpen"
    BY <2>2 DEF Moves
  <2>3. CASE b.state = "closed" \/ (b.state = "open" /\ ~b.elapsed)
    <3>1. Allow(b) = b
      BY <2>3, Zenon DEF Allow
    <3> QED BY <3>1 DEF Moves
  <2> QED BY <1>1, <2>1, <2>2, <2>3
<1>3. Moves(b, Success(b))
  <2>1. CASE b.state = "halfOpen"
    BY <2>1 DEF Moves
  <2>2. CASE b.state # "halfOpen"
    <3>1. Success(b).state = b.state
      BY <2>2 DEF Success, Breaker
    <3> QED BY <3>1 DEF Moves
  <2> QED BY <2>1, <2>2
<1>4. Moves(b, Failure(b))
  <2>1. Failure(b).state \in {"open", b.state}
    BY DEF Failure, Breaker
  <2> QED BY <1>1, <2>1 DEF Moves
<1>5. Moves(b, [b EXCEPT !.elapsed = TRUE])
  BY DEF Moves, Breaker
<1> QED BY <1>2, <1>3, <1>4, <1>5

(* A step changes a breaker, if at all, by one of those methods. *)
LEMMA BreakerStep ==
  ASSUME TypeInv, [Next]_vars, NEW w \in Workers
  PROVE  breaker'[w] \in {breaker[w], Allow(breaker[w]), Success(breaker[w]),
                         Failure(breaker[w]), [breaker[w] EXCEPT !.elapsed = TRUE]}
<1>0. breaker \in [Workers -> Breaker]
  BY Types, Zenon
<1>1. ASSUME NEW r \in Requests, ProbeOpen(r) \/ CheckBreaker(r)
      PROVE  breaker'[w] \in {breaker[w], Allow(breaker[w])}
  BY <1>0, <1>1, Zenon DEF ProbeOpen, CheckBreaker
<1>2. ASSUME NEW r \in Requests, RecordFailure(r)
      PROVE  breaker'[w] \in {breaker[w], Failure(breaker[w])}
  BY <1>0, <1>2 DEF RecordFailure
<1>3. ASSUME NEW r \in Requests, RecordSuccess(r)
      PROVE  breaker'[w] \in {breaker[w], Success(breaker[w])}
  BY <1>0, <1>3, SMTT(30) DEF RecordSuccess
<1>4. ASSUME NEW r \in Requests, Arrive(r) \/ Handle(r), ~ProbeOpen(r),
             ~CheckBreaker(r), ~RecordFailure(r), ~RecordSuccess(r)
      PROVE  breaker' = breaker
  BY <1>4, Zenon DEF Handle, Arrive, Rank, RankError, TryAdmit, ReadState, CheckBudget,
     CallSucceeds, CallFails, ChargeBudget, RefundBudget, StreamEnds, Release, shared
<1>5. ASSUME NEW v \in Workers, TimeoutElapses(v)
      PROVE  breaker'[w] \in {breaker[w], [breaker[w] EXCEPT !.elapsed = TRUE]}
  BY <1>0, <1>5, Zenon DEF TimeoutElapses
<1>6. CASE UNCHANGED vars
  BY <1>6 DEF vars
<1> QED
  BY <1>1, <1>2, <1>3, <1>4, <1>5, <1>6 DEF Next, Terminating

(* Late results never short-cut a breaker: an open breaker leaves that      *)
(* state only after its timeout and only to half-open, and a closed one     *)
(* only opens, whatever calls are still out.                                *)
THEOREM BreakersCorrect == Spec => BreakerMoves
<1>1. TypeInv /\ [Next]_vars
        => [\A w \in Workers :
              LET from == breaker[w].state
                  to == breaker'[w].state
              IN  from # to =>
                    \/ from = "closed" /\ to = "open"
                    \/ from = "open" /\ to = "halfOpen" /\ breaker[w].elapsed
                    \/ from = "halfOpen"]_vars
  <2> SUFFICES ASSUME TypeInv, [Next]_vars, NEW w \in Workers
               PROVE  Moves(breaker[w], breaker'[w])
    BY DEF Moves
  <2>1. breaker[w] \in Breaker
    BY DEF TypeInv, TypeOK
  <2>2. Moves(breaker[w], breaker[w])
    BY DEF Moves
  <2> QED BY <2>1, <2>2, BreakerStep, BreakerOpsMove, Zenon
<1> QED BY <1>1, TypeInit, TypeNext, PTL DEF Spec, BreakerMoves

-----------------------------------------------------------------------------
(* Half-open breakers *)

(* A half-open breaker that has handed out a slot. *)
Trial(b) == b.state = "halfOpen" /\ b.halfOpenLeft < MaxHalfOpen

(* A report ends the trial, and the clock does not begin one.  Allow begins *)
(* one only by letting a call through.                                      *)
LEMMA TrialOps ==
  ASSUME NEW b \in Breaker
  PROVE  /\ ~Trial(Success(b))
         /\ ~Trial(Failure(b))
         /\ b.state = "open" => ~Trial([b EXCEPT !.elapsed = TRUE])
         /\ Trial(Allow(b)) => Trial(b) \/ Allows(b)
<1>1. b.state \in {"closed", "halfOpen", "open"} /\ b.halfOpenLeft \in Nat
  BY DEF Breaker, BreakerState
<1>2. Success(b).state # "halfOpen"
  <2>1. CASE b.state = "halfOpen"
    BY <2>1, Zenon DEF Success, Breaker
  <2>2. CASE b.state # "halfOpen"
    BY <2>2 DEF Success, Breaker
  <2> QED BY <2>1, <2>2
<1>3. Failure(b).state # "halfOpen"
  BY <1>1 DEF Failure, Breaker
<1>4. b.state = "open" => [b EXCEPT !.elapsed = TRUE].state = "open"
  BY DEF Breaker
<1>5. CASE Allows(b)
  BY <1>2, <1>3, <1>4, <1>5 DEF Trial
<1>6. CASE ~Allows(b)
  <2>1. Allow(b) = b
    BY <1>6, Zenon DEF Allow, Allows
  <2> QED BY <1>2, <1>3, <1>4, <2>1 DEF Trial
<1> QED BY <1>5, <1>6

(* What a handler has for itself. *)
Own(s) == <<pc[s], mode[s], cand[s], ordered[s], open[s], idx[s], attempts[s],
            last[s], slot[s], ret[s]>>

(* A handler's step leaves every other handler alone. *)
LEMMA OthersKept ==
  ASSUME TypeInv, NEW r \in Requests, Arrive(r) \/ Handle(r),
         NEW s \in Requests, s # r
  PROVE  Own(s)' = Own(s)
<1>0. /\ pc \in [Requests -> Locations] /\ cand \in [Requests -> Seq(Workers)]
      /\ idx \in [Requests -> Nat \ {0}]
      /\ mode \in [Requests -> AllModes \cup {"none"}]
      /\ ordered \in [Requests -> Seq(Workers)] /\ open \in [Requests -> Seq(Workers)]
      /\ attempts \in [Requests -> Nat] /\ last \in [Requests -> Errors \cup {"none"}]
      /\ slot \in [Requests -> Workers \cup {None}] /\ ret \in [Requests -> Returns]
  BY Types, Zenon
<1> DEFINE Kept == Own(s)' = Own(s)
           Walk == /\ mode'[s] = mode[s] /\ cand'[s] = cand[s] /\ ordered'[s] = ordered[s]
                   /\ open'[s] = open[s] /\ idx'[s] = idx[s] /\ attempts'[s] = attempts[s]
                   /\ last'[s] = last[s] /\ ret'[s] = ret[s]
<1>k. ASSUME Walk, pc'[s] = pc[s], slot'[s] = slot[s] PROVE Kept
  BY <1>k, Zenon DEF Own
<1>1. ASSUME NEW l, Goto(r, l) PROVE pc'[s] = pc[s]
  BY <1>0, <1>1 DEF Goto
<1>2. ASSUME NEW what, Return(r, what) PROVE pc'[s] = pc[s] /\ ret'[s] = ret[s]
  BY <1>0, <1>2, <1>1 DEF Return
<1>3. ASSUME Reset(r) PROVE Walk /\ pc'[s] = pc[s]
  BY <1>0, <1>1, <1>3 DEF Reset
<1>4. ASSUME NextCandidate(r) PROVE pc'[s] = pc[s] /\ idx'[s] = idx[s] /\ ret'[s] = ret[s]
  BY <1>0, <1>1, <1>2, <1>4, SMTT(30) DEF NextCandidate
<1>5. ASSUME NEW k, NEW o, NextInPass(r, k, o)
      PROVE  /\ pc'[s] = pc[s] /\ cand'[s] = cand[s] /\ idx'[s] = idx[s]
             /\ ordered'[s] = ordered[s] /\ open'[s] = open[s]
  BY <1>0, <1>1, <1>5, SMTT(30) DEF NextInPass
<1>6. ASSUME Arrive(r) \/ RankError(r) \/ Release(r) PROVE Kept
  BY <1>0, <1>k, <1>1, <1>3, <1>6 DEF Arrive, RankError, Release, walk
<1>7. ASSUME Rank(r) PROVE Kept
  BY <1>0, <1>k, <1>1, <1>7, SMTT(30) DEF Rank
<1>8. ASSUME TryAdmit(r) PROVE Kept
  BY <1>0, <1>k, <1>1, <1>3, <1>8 DEF TryAdmit
<1>9. ASSUME ReadState(r) PROVE Kept
  BY <1>k, <1>1, <1>5, <1>9, Zenon DEF ReadState
<1>10. ASSUME ProbeOpen(r) PROVE Kept
  BY <1>k, <1>5, <1>10, ZenonT(30) DEF ProbeOpen
<1>11. ASSUME CheckBudget(r) \/ CheckBreaker(r) \/ ChargeBudget(r) PROVE Kept
  BY <1>0, <1>k, <1>1, <1>2, <1>4, <1>11 DEF CheckBudget, CheckBreaker, ChargeBudget
<1>12. ASSUME CallSucceeds(r) \/ RefundBudget(r) \/ StreamEnds(r) PROVE Kept
  BY <1>k, <1>1, <1>2, <1>12, Zenon DEF CallSucceeds, RefundBudget, StreamEnds, walk
<1>13. ASSUME CallFails(r) PROVE Kept
  BY <1>0, <1>k, <1>1, <1>2, <1>13 DEF CallFails
<1>14. ASSUME RecordFailure(r) \/ RecordSuccess(r) PROVE Kept
  BY <1>k, <1>1, <1>2, <1>14 DEF RecordFailure, RecordSuccess
<1> QED
  BY <1>6, <1>7, <1>8, <1>9, <1>10, <1>11, <1>12, <1>13, <1>14 DEF Handle

(* In particular it leaves their reports to them. *)
LEMMA OthersStay ==
  ASSUME TypeInv, NEW r \in Requests, Arrive(r) \/ Handle(r),
         NEW s \in Requests, s # r, NEW w, Reporting(s, w)
  PROVE  Reporting(s, w)'
<1>1. pc'[s] = pc[s] /\ cand'[s] = cand[s] /\ idx'[s] = idx[s]
  BY OthersKept, Zenon DEF Own
<1> QED BY <1>1 DEF Reporting, Cur

(* The two ways to get stuck. *)
Excused ==
  \/ \E r \in Requests : pc[r] = "call" /\ last'[r] = "excluded"
  \/ \E r \in Requests : pc[r] = "probe" /\ pc'[r] # "probe"

(* A handler that is to report on a worker still is after its own step, or  *)
(* it has reported, or it is excused.                                       *)
LEMMA ReporterSteps ==
  ASSUME TypeInv, NEW r \in Requests, Arrive(r) \/ Handle(r), ~Excused,
         NEW w \in Workers, Reporting(r, w)
  PROVE  Reporting(r, w)' \/ ~Trial(breaker'[w])
<1>b. breaker[w] \in Breaker
  BY Types, Zenon
<1>0. /\ breaker \in [Workers -> Breaker] /\ pc \in [Requests -> Locations]
      /\ last \in [Requests -> Errors \cup {"none"}]
  BY Types, Zenon
<1>1. pc[r] \in {"call", "fail", "refund", "credit"} /\ Cur(r) = w
  BY DEF Reporting
<1>2. \/ CallSucceeds(r) \/ CallFails(r) \/ RecordFailure(r)
      \/ RefundBudget(r) \/ RecordSuccess(r)
  BY <1>1, Zenon DEF Handle, Arrive, Rank, RankError, TryAdmit, ReadState, ProbeOpen, CheckBudget,
     CheckBreaker, ChargeBudget, StreamEnds, Release
<1>3. CASE CallSucceeds(r)
  BY <1>0, <1>1, <1>3, Zenon DEF CallSucceeds, Goto, Reporting, Cur, walk
<1>4. CASE CallFails(r)
  <2>1. PICK e \in Errors : /\ last' = [last EXCEPT ![r] = e]
                            /\ e # "excluded" => Goto(r, "fail")
    BY <1>4, Zenon DEF CallFails
  <2>2. pc[r] = "call" /\ last'[r] = e /\ UNCHANGED <<cand, idx>>
    BY <1>0, <1>4, <2>1 DEF CallFails
  <2>3. e # "excluded"
    BY <2>2 DEF Excused
  <2> QED BY <1>0, <1>1, <2>1, <2>2, <2>3, Zenon DEF Goto, Reporting, Cur
<1>5. CASE RecordFailure(r)
  <2>1. breaker'[w] = Failure(breaker[w])
    BY <1>0, <1>1, <1>5, ZenonT(30) DEF RecordFailure
  <2> QED BY <1>b, <2>1, TrialOps, Zenon
<1>6. CASE RefundBudget(r)
  BY <1>0, <1>1, <1>6 DEF RefundBudget, Goto, Reporting, Cur, walk
<1>7. CASE RecordSuccess(r)
  <2>1. breaker'[w] = Success(breaker[w])
    BY <1>0, <1>1, <1>7, Zenon DEF RecordSuccess
  <2> QED BY <1>b, <2>1, TrialOps, Zenon
<1> QED BY <1>2, <1>3, <1>4, <1>5, <1>6, <1>7

(* A step that begins a trial is that of a handler which now makes a call.  *)
LEMMA TrialBegins ==
  ASSUME TypeInv, [Next]_vars, ~Excused,
         NEW w \in Workers, ~Trial(breaker[w]), Trial(breaker'[w])
  PROVE  \E r \in Requests : Reporting(r, w)'
<1>b. breaker[w] \in Breaker
  BY Types, Zenon
<1>0. /\ breaker \in [Workers -> Breaker] /\ pc \in [Requests -> Locations]
  BY Types, Zenon
<1>1. ASSUME NEW r \in Requests, CheckBreaker(r)
      PROVE  Reporting(r, w)'
  <2>1. Cur(r) = w /\ breaker'[w] = Allow(breaker[w])
    <3>1. breaker' = [breaker EXCEPT ![Cur(r)] = Allow(breaker[Cur(r)])]
      BY <1>1, Zenon DEF CheckBreaker
    <3> QED BY <1>0, <3>1
  <2>2. Allows(breaker[w])
    BY <1>b, <2>1, TrialOps, Zenon
  <2>3. pc' = [pc EXCEPT ![r] = "call"] /\ UNCHANGED <<cand, idx>>
    BY <1>1, <2>1, <2>2 DEF CheckBreaker, Goto
  <2> QED BY <1>0, <2>1, <2>3 DEF Reporting, Cur
<1>2. ASSUME NEW r \in Requests, ProbeOpen(r)
      PROVE  FALSE
  <2>1. pc[r] = "probe" /\ pc'[r] \in {"state", "allow"}
    BY <1>0, <1>2 DEF ProbeOpen, NextInPass, Goto
  <2> QED BY <2>1 DEF Excused
<1>3. ASSUME NEW r \in Requests, RecordFailure(r) \/ RecordSuccess(r)
      PROVE  FALSE
  <2>1. breaker'[w] \in {breaker[w], Failure(breaker[w]), Success(breaker[w])}
    BY <1>0, <1>3, SMTT(30) DEF RecordFailure, RecordSuccess
  <2> QED BY <1>b, <2>1, TrialOps, Zenon
<1>4. ASSUME NEW r \in Requests, Arrive(r) \/ Handle(r), ~ProbeOpen(r),
             ~CheckBreaker(r), ~RecordFailure(r), ~RecordSuccess(r)
      PROVE  FALSE
  <2>1. breaker' = breaker
    BY <1>4, Zenon DEF Handle, Arrive, Rank, RankError, TryAdmit, ReadState, CheckBudget,
       CallSucceeds, CallFails, ChargeBudget, RefundBudget, StreamEnds, Release, shared
  <2> QED BY <2>1
<1>5. ASSUME NEW v \in Workers, TimeoutElapses(v)
      PROVE  FALSE
  <2>1. breaker'[w] = breaker[w]
          \/ (breaker[w].state = "open" /\ breaker'[w] = [breaker[w] EXCEPT !.elapsed = TRUE])
    BY <1>0, <1>5, Zenon DEF TimeoutElapses
  <2> QED BY <1>b, <2>1, TrialOps, Zenon
<1>6. CASE UNCHANGED vars
  BY <1>6 DEF vars
<1> QED BY <1>1, <1>2, <1>3, <1>4, <1>5, <1>6, Zenon DEF Next, Terminating

(* A half-open breaker always has someone to report on the slot it handed   *)
(* out, for any number of late results, unless the call was cancelled or    *)
(* the first pass of Failover.Do took the slot.                             *)
THEOREM TrialsCorrect == Spec => TrialPending
<1>1. ASSUME TypeInv, [Next]_vars, ~Excused, NEW w \in Workers, ~Stuck(w)
      PROVE  ~Stuck(w)'
  <2> SUFFICES ASSUME Trial(breaker'[w])
               PROVE  \E r \in Requests : Reporting(r, w)'
    BY DEF Stuck, Trial
  <2>1. CASE ~Trial(breaker[w])
    BY <1>1, <2>1, TrialBegins
  <2>2. CASE Trial(breaker[w])
    <3>1. PICK r \in Requests : Reporting(r, w)
      BY <1>1, <2>2 DEF Stuck, Trial
    <3>2. ASSUME NEW s \in Requests, Arrive(s) \/ Handle(s)
          PROVE  Reporting(r, w)'
      BY <1>1, <3>1, <3>2, OthersStay, ReporterSteps
    <3>3. CASE UNCHANGED <<pc, cand, idx>>
      BY <3>1, <3>3 DEF Reporting, Cur
    <3>4. \A v \in Workers : TimeoutElapses(v) => UNCHANGED <<pc, cand, idx>>
      BY DEF TimeoutElapses, walk
    <3>5. UNCHANGED vars => UNCHANGED <<pc, cand, idx>>
      BY DEF vars
    <3> QED BY <1>1, <3>2, <3>3, <3>4, <3>5 DEF Next, Terminating
  <2> QED BY <2>1, <2>2
<1>2. TypeInv /\ [Next]_vars
        => [\A w \in Workers : Stuck(w)' =>
              \/ Stuck(w)
              \/ \E r \in Requests : pc[r] = "call" /\ last'[r] = "excluded"
              \/ \E r \in Requests : pc[r] = "probe" /\ pc'[r] # "probe"]_vars
  BY <1>1 DEF Excused
<1> QED BY <1>2, TypeInit, TypeNext, PTL DEF Spec, TrialPending

-----------------------------------------------------------------------------
(* The answer *)

Outside == {"state", "probe"} \cup Unadmitted
InCall == {"call", "fail", "charge", "refund", "credit", "stream"}

(* AnswerHasCause is about the end of a walk only.  Along the walk a        *)
(* handler has made a call exactly if it has met an error to go on from,    *)
(* and the end of an empty stream is no such error.                         *)
Cause(r) ==
  /\ pc[r] \in Outside => attempts[r] = 0 /\ last[r] = "none"
  /\ pc[r] \in {"budget", "allow"} =>
       (attempts[r] = 0 <=> last[r] = "none") /\ last[r] # "eof"
  /\ pc[r] \in InCall => attempts[r] > 0
  /\ pc[r] = "fail" => last[r] # "none"
  /\ pc[r] = "charge" => last[r] \notin {"none", "eof"}
  /\ pc[r] = "release" =>
       /\ ret[r] \in {"ok", "broken", "err"} => attempts[r] > 0
       /\ ret[r] = "err" => last[r] \notin {"none", "eof"}
       /\ ret[r] = "noHealthy" => attempts[r] = 0

CauseInv == \A r \in Requests : Cause(r)

(* What a step of the pass of Failover.Do does to the handler. *)
LEMMA NextInPassIs ==
  ASSUME TypeInv, NEW r \in Requests, NEW kept, NEW aside, NextInPass(r, kept, aside)
  PROVE  /\ ordered'[r] = kept /\ open'[r] = aside
         /\ \/ pc'[r] = "state" /\ idx'[r] = idx[r] + 1 /\ cand'[r] = cand[r]
            \/ /\ pc'[r] = "allow" /\ idx'[r] = 1
               /\ cand'[r] = IF kept = <<>> THEN aside ELSE kept
BY Types, Zenon DEF NextInPass, Goto

(* The end of a walk that has no candidate left, and the round to the next. *)
LEMMA NextCandidateCause ==
  ASSUME TypeInv, NEW r \in Requests, NextCandidate(r),
         last'[r] = last[r], attempts'[r] = attempts[r],
         attempts[r] = 0 <=> last[r] = "none", last[r] # "eof"
  PROVE  Cause(r)'
<1>0. pc \in [Requests -> Locations] /\ ret \in [Requests -> Returns]
      /\ attempts[r] \in Nat
  BY Types, Zenon
<1>1. CASE WalkOver(r)
  <2>1. /\ pc'[r] = "release"
        /\ ret'[r] = IF last[r] = "none" THEN "noHealthy" ELSE "err"
    BY <1>0, <1>1 DEF NextCandidate, Return, Goto
  <2> QED BY <1>0, <2>1 DEF Cause, Outside, InCall, Unadmitted
<1>2. CASE ~WalkOver(r)
  <2>1. pc'[r] = "budget"
    BY <1>0, <1>2 DEF NextCandidate, Goto
  <2> QED BY <2>1 DEF Cause, Outside, InCall, Unadmitted
<1> QED BY <1>1, <1>2

LEMMA CauseStep ==
  ASSUME TypeInv, NEW r \in Requests, Cause(r), Arrive(r) \/ Handle(r)
  PROVE  Cause(r)'
<1>0. /\ pc \in [Requests -> Locations] /\ ret \in [Requests -> Returns]
      /\ attempts \in [Requests -> Nat] /\ last \in [Requests -> Errors \cup {"none"}]
  BY Types, Zenon
<1> USE DEF Outside, InCall, Unadmitted
<1>1. CASE Reset(r)
  <2>1. pc'[r] = "idle" /\ attempts'[r] = 0 /\ last'[r] = "none"
    BY <1>0, <1>1, Zenon DEF Reset, Goto
  <2> QED BY <2>1, Zenon DEF Cause
<1>2. CASE Arrive(r) \/ Rank(r)
  <2>1. /\ pc[r] \in Outside /\ pc'[r] \in {"rank", "admit"}
        /\ UNCHANGED <<attempts, last>>
    BY <1>0, <1>2, Zenon DEF Arrive, Rank, Goto, walk
  <2> QED BY <2>1, Zenon DEF Cause
<1>3. CASE RankError(r) /\ ~Reset(r)
  <2>1. pc[r] \in Outside /\ pc'[r] = "rerank" /\ UNCHANGED <<attempts, last>>
    BY <1>0, <1>3, Zenon DEF RankError, Goto, walk
  <2> QED BY <2>1, Zenon DEF Cause
<1>4. CASE TryAdmit(r) /\ ~Reset(r)
  <2>1. /\ pc[r] \in Outside /\ pc'[r] \in {"admit", "allow", "state"}
        /\ UNCHANGED <<attempts, last>>
    BY <1>0, <1>4, Zenon DEF TryAdmit, Goto
  <2> QED BY <2>1, Zenon DEF Cause
<1>5. CASE ReadState(r) \/ ProbeOpen(r)
  <2>1. /\ pc[r] \in Outside /\ pc'[r] \in {"probe", "allow", "state"}
        /\ UNCHANGED <<attempts, last>>
    <3>1. CASE ReadState(r)
      <4>1. /\ pc[r] = "state" /\ UNCHANGED <<attempts, last>>
            /\ Goto(r, "probe") \/ \E k, a : NextInPass(r, k, a)
        BY <3>1, Zenon DEF ReadState
      <4> QED BY <1>0, <4>1, NextInPassIs, Zenon DEF Goto
    <3>2. CASE ProbeOpen(r)
      BY <3>2, NextInPassIs, Zenon DEF ProbeOpen
    <3> QED BY <1>5, <3>1, <3>2, Zenon
  <2> QED BY <2>1, Zenon DEF Cause
<1>6. CASE CheckBudget(r)
  <2>1. /\ pc[r] = "budget"
        /\ UNCHANGED <<attempts, last>>
        /\ \/ pc'[r] = "allow"
           \/ pc'[r] = "release" /\ ret'[r] = IF last[r] = "none" THEN "void" ELSE "err"
    BY <1>0, <1>6, Zenon DEF CheckBudget, Return, Goto
  <2>2. attempts[r] # 0 => attempts[r] > 0
    BY <1>0, Counting, Zenon
  <2> QED BY <2>1, <2>2, Zenon DEF Cause
<1>7. CASE CheckBreaker(r)
  <2>1. pc[r] = "allow" /\ UNCHANGED last
    BY <1>7 DEF CheckBreaker
  <2>2. \/ attempts'[r] = attempts[r] + 1 /\ pc'[r] = "call"
        \/ NextCandidate(r) /\ UNCHANGED attempts
    BY <1>0, <1>7, Zenon DEF CheckBreaker, Goto
  <2>3. CASE attempts'[r] = attempts[r] + 1 /\ pc'[r] = "call"
    BY <1>0, <2>3, Counting, Zenon DEF Cause
  <2>4. CASE NextCandidate(r) /\ UNCHANGED attempts
    <3>1. (attempts[r] = 0 <=> last[r] = "none") /\ last[r] # "eof"
      BY <2>1, Zenon DEF Cause
    <3> QED BY <2>1, <2>4, <3>1, NextCandidateCause, Zenon
  <2> QED BY <2>2, <2>3, <2>4, Zenon
<1>8. CASE CallSucceeds(r) \/ RefundBudget(r) \/ RecordSuccess(r) \/ StreamEnds(r)
  <2>1. /\ pc[r] \in InCall /\ UNCHANGED <<attempts, last>>
        /\ \/ pc'[r] \in {"refund", "credit", "stream"}
           \/ pc'[r] = "release" /\ ret'[r] \in {"ok", "broken"}
    BY <1>0, <1>8
    DEF CallSucceeds, RefundBudget, RecordSuccess, StreamEnds, Return, Goto, walk
  <2> QED BY <2>1, Zenon DEF Cause
<1>9. CASE CallFails(r)
  <2>1. PICK e \in Errors : /\ last' = [last EXCEPT ![r] = e]
                            /\ IF e = "excluded"
                                 THEN Return(r, "err")
                                 ELSE Goto(r, "fail") /\ UNCHANGED ret
    BY <1>9, Zenon DEF CallFails
  <2>2. /\ pc[r] = "call" /\ UNCHANGED attempts /\ last'[r] = e
        /\ \/ pc'[r] = "fail"
           \/ e = "excluded" /\ pc'[r] = "release" /\ ret'[r] = "err"
    BY <1>0, <1>9, <2>1 DEF CallFails, Return, Goto
  <2> QED BY <2>2, Zenon DEF Cause, Errors
<1>10. CASE RecordFailure(r)
  <2>1. /\ pc[r] = "fail" /\ UNCHANGED <<attempts, last>>
        /\ \/ pc'[r] = "refund"
           \/ last[r] = "fatal" /\ pc'[r] = "release" /\ ret'[r] = "err"
           \/ last[r] # "eof" /\ pc'[r] = "charge"
    BY <1>0, <1>10, Zenon DEF RecordFailure, Return, Goto
  <2> QED BY <2>1, Zenon DEF Cause
<1>11. CASE ChargeBudget(r)
  <2>1. pc[r] = "charge" /\ NextCandidate(r) /\ UNCHANGED <<attempts, last>>
    BY <1>11 DEF ChargeBudget
  <2>2. (attempts[r] = 0 <=> last[r] = "none") /\ last[r] # "eof"
    BY <1>0, <2>1 DEF Cause
  <2> QED BY <2>1, <2>2, NextCandidateCause, Zenon
<1>12. Release(r) => Reset(r)
  BY DEF Release
<1> QED
  BY <1>1, <1>2, <1>3, <1>4, <1>5, <1>6, <1>7, <1>8, <1>9, <1>10, <1>11, <1>12
  DEF Handle

(* A step of the clock, or none, leaves every handler alone. *)
LEMMA NoHandlerStep ==
  ASSUME UNCHANGED vars \/ \E w \in Workers : TimeoutElapses(w), NEW s \in Requests
  PROVE  Own(s)' = Own(s)
BY Zenon DEF vars, TimeoutElapses, walk, Own

(* For any workers, limits and interleaving, what a client is told has its  *)
(* cause (AnswerHasCause).                                                  *)
THEOREM AnswersCorrect == Spec => []AnswerHasCause
<1>1. Init => CauseInv
  BY DEF Init, CauseInv, Cause, Outside, InCall, Unadmitted
<1>2. ASSUME TypeInv, CauseInv, [Next]_vars PROVE CauseInv'
  <2>1. ASSUME NEW s \in Requests, Own(s)' = Own(s) PROVE Cause(s)'
    <3>1. /\ pc'[s] = pc[s] /\ attempts'[s] = attempts[s] /\ last'[s] = last[s]
          /\ ret'[s] = ret[s]
      BY <2>1, Zenon DEF Own
    <3> QED BY <1>2, <3>1 DEF CauseInv, Cause
  <2>2. ASSUME NEW r \in Requests, Arrive(r) \/ Handle(r), NEW s \in Requests
        PROVE  Cause(s)'
    BY <1>2, <2>1, <2>2, OthersKept, CauseStep, Zenon DEF CauseInv
  <2>3. CASE UNCHANGED vars \/ \E w \in Workers : TimeoutElapses(w)
    BY <2>1, <2>3, NoHandlerStep DEF CauseInv
  <2> QED BY <1>2, <2>2, <2>3 DEF CauseInv, Next, Terminating
<1>3. CauseInv => AnswerHasCause
  BY DEF CauseInv, Cause, AnswerHasCause
<1> QED BY <1>1, <1>2, <1>3, TypeInit, TypeNext, PTL DEF Spec
-----------------------------------------------------------------------------
(* The walk *)

Distinct(s) == \A i, j \in DOMAIN s : s[i] = s[j] => i = j

(* s picks candidates of c before position n, each once. *)
Picked(s, c, n) ==
  Distinct(s) /\ \A i \in DOMAIN s : \E j \in 1..(n - 1) : s[i] = c[j]

(* The reordering keeps the candidates distinct and puts the i-th first. *)
LEMMA MoveToFrontDistinct ==
  ASSUME NEW s \in Seq(Workers), NEW i \in 1..Len(s), Distinct(s)
  PROVE  Distinct(MoveToFront(s, i)) /\ MoveToFront(s, i)[1] = s[i]
<1> DEFINE a == <<s[i]>>
           b == SubSeq(s, 1, i - 1)
           c == SubSeq(s, i + 1, Len(s))
           m == MoveToFront(s, i)
           At(k) == IF k = 1 THEN i ELSE IF k <= i THEN k - 1 ELSE k
<1>1. Len(s) \in Nat /\ DOMAIN s = 1..Len(s)
  BY ListFacts
<1>e. \A k \in 1..Len(s) : s[k] \in Workers
  BY ListFacts
<1>2. a \in Seq(Workers) /\ Len(a) = 1 /\ a[1] = s[i]
  BY <1>e
<1>3. /\ b \in Seq(Workers) /\ Len(b) = i - 1
      /\ \A k \in 1..(i - 1) : b[k] = s[k]
  BY <1>1, <1>e, SubSeqFacts
<1>4. /\ c \in Seq(Workers) /\ Len(c) = Len(s) - i
      /\ \A k \in 1..(Len(s) - i) : c[k] = s[i + k]
  <2> DEFINE p == i + 1
             q == Len(s)
  <2>1. p \in Int /\ q \in Int /\ \A k \in p..q : s[k] \in Workers
    BY <1>1, <1>e
  <2>0. i \in Int /\ i <= Len(s)
    BY <1>1
  <2>a. \A n, j \in Int : j <= n =>
          n - (j + 1) + 1 = n - j /\ (~(j + 1 <= n) => n - j = 0)
    OBVIOUS
  <2>2. q - p + 1 = Len(s) - i /\ (~(p <= q) => Len(s) - i = 0)
    BY <2>0, <2>1, <2>a, Zenon
  <2>3. \A k \in 1..(Len(s) - i) : p + k - 1 = i + k
    BY <1>1
  <2> HIDE DEF p, q
  <2>4. /\ SubSeq(s, p, q) \in Seq(Workers)
        /\ Len(SubSeq(s, p, q)) = IF p <= q THEN q - p + 1 ELSE 0
        /\ \A k \in 1..(q - p + 1) : SubSeq(s, p, q)[k] = s[p + k - 1]
    BY <2>1, SubSeqFacts
  <2>5. c = SubSeq(s, p, q)
    BY Zenon DEF p, q, c
  <2> QED BY <2>2, <2>3, <2>4, <2>5, Zenon
<1> HIDE DEF a, b, c
<1> DEFINE d == a \o b
<1>5. /\ d \in Seq(Workers) /\ Len(d) = i
      /\ \A k \in 1..i : d[k] = IF k <= 1 THEN a[k] ELSE b[k - 1]
  <2>1. /\ d \in Seq(Workers) /\ Len(d) = Len(a) + Len(b)
        /\ \A k \in 1..(Len(a) + Len(b)) :
             d[k] = IF k <= Len(a) THEN a[k] ELSE b[k - Len(a)]
    BY <1>2, <1>3, ConcatFacts, Zenon
  <2> QED BY <2>1, <1>1, <1>2, <1>3
<1> HIDE DEF d
<1>6. /\ d \o c \in Seq(Workers) /\ Len(d \o c) = Len(s)
      /\ \A k \in 1..Len(s) : (d \o c)[k] = IF k <= i THEN d[k] ELSE c[k - i]
  <2>1. /\ d \o c \in Seq(Workers) /\ Len(d \o c) = Len(d) + Len(c)
        /\ \A k \in 1..(Len(d) + Len(c)) :
             (d \o c)[k] = IF k <= Len(d) THEN d[k] ELSE c[k - Len(d)]
    <3>1. d \in Seq(Workers) /\ c \in Seq(Workers)
      BY <1>4, <1>5
    <3> QED BY <3>1, ConcatFacts, Zenon
  <2> QED BY <2>1, <1>1, <1>4, <1>5
<1>7. m = d \o c
  BY Zenon DEF MoveToFront, a, b, c, d
<1>8. DOMAIN m = 1..Len(s)
  BY <1>6, <1>7, ListFacts, Zenon
<1>9. \A k \in 1..Len(s) : m[k] = s[At(k)]
  <2> SUFFICES ASSUME NEW k \in 1..Len(s) PROVE m[k] = s[At(k)]
    OBVIOUS
  <2> HIDE DEF m
  <2>1. CASE k = 1
    BY <2>1, <1>1, <1>2, <1>5, <1>6, <1>7
  <2>2. CASE k # 1 /\ k <= i
    <3>1. m[k] = b[k - 1] /\ k - 1 \in 1..(i - 1)
      BY <2>2, <1>1, <1>5, <1>6, <1>7
    <3> QED BY <2>2, <3>1, <1>3
  <2>3. CASE k > i
    <3>1. m[k] = c[k - i] /\ k - i \in 1..(Len(s) - i) /\ i + (k - i) = k
      BY <2>3, <1>1, <1>6, <1>7
    <3> QED BY <2>3, <3>1, <1>4
  <2> QED BY <2>1, <2>2, <2>3, <1>1
<1> HIDE DEF m
<1>10. \A k, l \in 1..Len(s) : At(k) \in 1..Len(s) /\ (At(k) = At(l) => k = l)
  BY <1>1
<1>11. Distinct(m)
  <2> HIDE DEF At
  <2> QED BY <1>1, <1>8, <1>9, <1>10, ZenonT(30) DEF Distinct
<1>12. m[1] = s[i]
  BY <1>1, <1>9
<1> QED BY <1>11, <1>12 DEF m

(* A candidate seen next is not yet among those picked before. *)
LEMMA PickNext ==
  ASSUME NEW c \in Seq(Workers), NEW n \in 1..Len(c), Distinct(c),
         NEW s \in Seq(Workers), Picked(s, c, n)
  PROVE  Picked(Append(s, c[n]), c, n + 1) /\ Picked(s, c, n + 1)
<1>1. Len(c) \in Nat /\ DOMAIN c = 1..Len(c) /\ c[n] \in Workers
  BY ListFacts
<1>2. Len(s) \in Nat /\ DOMAIN s = 1..Len(s)
  BY ListFacts
<1>3. /\ DOMAIN Append(s, c[n]) = 1..(Len(s) + 1)
      /\ \A i \in 1..Len(s) : Append(s, c[n])[i] = s[i]
      /\ Append(s, c[n])[Len(s) + 1] = c[n]
  BY <1>1, <1>2, AppendFacts, ListFacts
<1>4. \A i \in 1..Len(s) : \E j \in 1..(n - 1) : s[i] = c[j]
  BY <1>2 DEF Picked
<1>5. \A i \in 1..Len(s) : s[i] # c[n]
  <2>1. n \in 1..Len(c) /\ \A j \in 1..(n - 1) : j \in 1..Len(c) /\ j # n
    BY <1>1
  <2> QED BY <1>1, <1>4, <2>1, Zenon DEF Distinct
<1>6. Picked(s, c, n + 1)
  BY <1>1, <1>2, <1>4 DEF Picked
<1> DEFINE t == Append(s, c[n])
<1>t. /\ DOMAIN t = 1..(Len(s) + 1) /\ \A i \in 1..Len(s) : t[i] = s[i]
      /\ t[Len(s) + 1] = c[n]
  BY <1>3
<1> HIDE DEF t
<1>7. Distinct(t)
  BY <1>2, <1>5, <1>t DEF Picked, Distinct
<1>8. \A i \in DOMAIN t : \E j \in 1..n : t[i] = c[j]
  BY <1>1, <1>2, <1>4, <1>t
<1> QED BY <1>1, <1>6, <1>7, <1>8 DEF Picked, t
(* WalkIsSound strengthened: where the pass of Failover.Do is, its two      *)
(* lists are picked from the candidates seen so far; a stream never makes   *)
(* that pass and so keeps the admitted worker in front; and every call had  *)
(* a position of its own.                                                   *)
Walks(r) ==
  /\ Distinct(cand[r])
  /\ pc[r] \in Outside => attempts[r] = 0
  /\ pc[r] \in {"budget", "allow"} => attempts[r] < idx[r]
  /\ pc[r] \in {"call", "fail", "charge"} => attempts[r] <= idx[r]
  /\ pc[r] \in Unadmitted => ordered[r] = <<>> /\ open[r] = <<>>
  /\ pc[r] \in {"state", "probe"} =>
       /\ ~Streams(r)
       /\ Picked(ordered[r], cand[r], idx[r])
       /\ Picked(open[r], cand[r], idx[r])
  /\ Streams(r) /\ pc[r] \notin Unadmitted => cand[r][1] = slot[r]

WalkInv == \A r \in Requests : Walks(r)

LEMMA EmptyPicked == \A c, n : Picked(<<>>, c, n) /\ Distinct(<<>>)
<1>1. DOMAIN <<>> = {}
  OBVIOUS
<1> QED BY <1>1, Zenon DEF Picked, Distinct

(* A step of the walk that stays with its candidate or leaves the walk. *)
LEMMA WalkStays ==
  ASSUME NEW r \in Requests, Walks(r),
         pc[r] \notin Outside, pc'[r] \notin Outside \cup {"budget", "allow"},
         pc'[r] \in {"call", "fail", "charge"} => attempts'[r] <= idx[r],
         UNCHANGED <<mode, cand, idx, slot>>
  PROVE  Walks(r)'
BY Zenon DEF Walks, Outside, Unadmitted, Streams

(* The round to the next candidate. *)
LEMMA NextCandidateWalks ==
  ASSUME TypeInv, NEW r \in Requests, Walks(r), NextCandidate(r),
         pc[r] \notin Outside, attempts[r] <= idx[r],
         UNCHANGED <<mode, cand, slot, attempts>>
  PROVE  Walks(r)'
<1>0. /\ pc \in [Requests -> Locations] /\ idx \in [Requests -> Nat \ {0}]
      /\ attempts[r] \in Nat
  BY Types, Zenon
<1>1. CASE WalkOver(r)
  <2>1. pc'[r] = "release" /\ UNCHANGED idx
    BY <1>0, <1>1 DEF NextCandidate, Return, Goto
  <2> QED BY <2>1, WalkStays DEF Outside, Unadmitted
<1>2. CASE ~WalkOver(r)
  <2>1. pc'[r] = "budget" /\ idx'[r] = idx[r] + 1
    BY <1>0, <1>2, SMTT(30) DEF NextCandidate, Goto
  <2>2. attempts'[r] < idx'[r]
    BY <1>0, <2>1
  <2>3. Distinct(cand'[r]) /\ (Streams(r)' => cand'[r][1] = slot'[r])
    BY Zenon DEF Walks, Outside, Streams
  <2> QED BY <2>1, <2>2, <2>3, Zenon DEF Walks, Outside, Unadmitted
<1> QED BY <1>1, <1>2

(* A step of the pass of Failover.Do. *)
LEMMA NextInPassWalks ==
  ASSUME TypeInv, NEW r \in Requests, Walks(r), pc[r] \in {"state", "probe"},
         NEW kept \in Seq(Workers), NEW aside \in Seq(Workers),
         Picked(kept, cand[r], idx[r] + 1), Picked(aside, cand[r], idx[r] + 1),
         NextInPass(r, kept, aside), UNCHANGED <<mode, slot, attempts>>
  PROVE  Walks(r)'
<1>1. ~Streams(r)' /\ attempts'[r] = 0
  BY Zenon DEF Walks, Streams, Outside
<1>0. /\ ordered'[r] = kept /\ open'[r] = aside
      /\ \/ pc'[r] = "state" /\ idx'[r] = idx[r] + 1 /\ cand'[r] = cand[r]
         \/ /\ pc'[r] = "allow" /\ idx'[r] = 1
            /\ cand'[r] = IF kept = <<>> THEN aside ELSE kept
  BY NextInPassIs, Zenon
<1>2. CASE pc'[r] = "state" /\ idx'[r] = idx[r] + 1 /\ cand'[r] = cand[r]
  <2>1. Distinct(cand'[r])
    BY <1>2, Zenon DEF Walks
  <2> QED BY <1>0, <1>1, <1>2, <2>1, Zenon DEF Walks, Outside, Unadmitted
<1>3. CASE /\ pc'[r] = "allow" /\ idx'[r] = 1
           /\ cand'[r] = IF kept = <<>> THEN aside ELSE kept
  <2>1. Distinct(cand'[r])
    BY <1>3, ZenonT(30) DEF Picked
  <2>2. attempts'[r] < idx'[r]
    BY <1>1, <1>3
  <2> QED BY <1>1, <1>3, <2>1, <2>2, Zenon DEF Walks, Outside, Unadmitted
<1> QED BY <1>0, <1>2, <1>3, Zenon

LEMMA WalkStep ==
  ASSUME TypeInv, NEW r \in Requests, Walks(r), Arrive(r) \/ Handle(r)
  PROVE  Walks(r)'
<1>0. /\ pc \in [Requests -> Locations] /\ idx \in [Requests -> Nat \ {0}]
      /\ cand \in [Requests -> Seq(Workers)]
      /\ ordered \in [Requests -> Seq(Workers)] /\ open \in [Requests -> Seq(Workers)]
      /\ attempts \in [Requests -> Nat] /\ slot \in [Requests -> Workers \cup {None}]
  BY Types, Zenon
<1>1. CASE Reset(r)
  <2>1. /\ pc'[r] = "idle" /\ attempts'[r] = 0 /\ cand'[r] = <<>>
        /\ ordered'[r] = <<>> /\ open'[r] = <<>>
    BY <1>0, <1>1 DEF Reset, Goto
  <2> QED BY <2>1, EmptyPicked, Zenon DEF Walks, Unadmitted
<1>2. CASE Arrive(r) \/ (RankError(r) /\ ~Reset(r))
  <2>1. /\ pc[r] \in Unadmitted /\ pc'[r] \in {"rank", "rerank"}
        /\ UNCHANGED <<cand, ordered, open, attempts>>
    BY <1>0, <1>2 DEF Arrive, RankError, Goto, walk, Unadmitted
  <2> QED BY <2>1, Zenon DEF Walks, Outside, Unadmitted
<1>3. CASE Rank(r)
  <2>1. PICK s \in Rankings : cand' = [cand EXCEPT ![r] = s]
    BY <1>3, Zenon DEF Rank
  <2>2. Distinct(s)
    BY RankingsAreLists DEF Distinct
  <2>3. /\ pc[r] \in Unadmitted /\ pc'[r] = "admit" /\ cand'[r] = s
        /\ UNCHANGED <<ordered, open, attempts>>
    BY <1>0, <1>3, <2>1 DEF Rank, Goto, Unadmitted
  <2> QED BY <2>2, <2>3, Zenon DEF Walks, Outside, Unadmitted
<1>4. CASE TryAdmit(r) /\ ~Reset(r)
  <2>1. /\ pc[r] = "admit" /\ UNCHANGED <<mode, ordered, open, attempts>>
    BY <1>4 DEF TryAdmit
  <2>2. cand[r] \in Seq(Workers) /\ idx[r] \in 1..Len(cand[r])
    BY <2>1, CurIsWorker
  <2>3. CASE HasSlot(Cur(r))
    <3>1. /\ slot' = [slot EXCEPT ![r] = Cur(r)]
          /\ cand' = [cand EXCEPT ![r] = MoveToFront(cand[r], idx[r])]
          /\ idx' = [idx EXCEPT ![r] = 1]
          /\ pc' = [pc EXCEPT ![r] = IF Streams(r) THEN "allow" ELSE "state"]
      BY <1>4, <2>3, Zenon DEF TryAdmit, Goto
    <3>2. /\ slot'[r] = cand[r][idx[r]] /\ cand'[r] = MoveToFront(cand[r], idx[r])
          /\ idx'[r] = 1
          /\ pc'[r] = IF Streams(r) THEN "allow" ELSE "state"
      BY <1>0, <3>1, Zenon DEF Cur
    <3>3. Distinct(cand'[r]) /\ cand'[r][1] = slot'[r]
      BY <2>2, <3>2, MoveToFrontDistinct, Zenon DEF Walks
    <3>4. attempts'[r] = 0 /\ ordered'[r] = <<>> /\ open'[r] = <<>>
      BY <2>1, Zenon DEF Walks, Outside, Unadmitted
    <3>5. CASE Streams(r)
      <4>1. attempts'[r] < idx'[r]
        BY <3>2, <3>4
      <4> QED
        BY <2>1, <3>2, <3>3, <3>4, <3>5, <4>1, ZenonT(30) DEF Walks, Outside, Unadmitted, Streams
    <3>6. CASE ~Streams(r)
      BY <2>1, <3>2, <3>3, <3>4, <3>6, EmptyPicked, Zenon DEF Walks, Outside, Unadmitted, Streams
    <3> QED BY <3>5, <3>6
  <2>4. CASE ~HasSlot(Cur(r))
    <3>1. UNCHANGED <<pc, cand>>
      BY <1>4, <2>4 DEF TryAdmit
    <3> QED BY <2>1, <3>1, Zenon DEF Walks, Outside, Unadmitted
  <2> QED BY <2>3, <2>4
<1>5. CASE ReadState(r) \/ ProbeOpen(r)
  <2>1. /\ pc[r] \in {"state", "probe"} /\ UNCHANGED <<mode, slot, attempts>>
    BY <1>5, Zenon DEF ReadState, ProbeOpen
  <2>2. cand[r] \in Seq(Workers) /\ idx[r] \in 1..Len(cand[r]) /\ Cur(r) \in Workers
    BY <2>1, CurIsWorker, Zenon
  <2>3. /\ Distinct(cand[r]) /\ Picked(ordered[r], cand[r], idx[r])
        /\ Picked(open[r], cand[r], idx[r])
    BY <2>1, Zenon DEF Walks
  <2>4. ordered[r] \in Seq(Workers) /\ open[r] \in Seq(Workers)
    BY <1>0
  <2>5. /\ Picked(ordered[r], cand[r], idx[r] + 1)
        /\ Picked(open[r], cand[r], idx[r] + 1)
        /\ Picked(Append(ordered[r], Cur(r)), cand[r], idx[r] + 1)
        /\ Picked(Append(open[r], Cur(r)), cand[r], idx[r] + 1)
    BY <2>2, <2>3, <2>4, PickNext, ZenonT(30) DEF Cur
  <2>6. Append(ordered[r], Cur(r)) \in Seq(Workers) /\ Append(open[r], Cur(r)) \in Seq(Workers)
    BY <2>2, <2>4, AppendFacts
  <2>7. \/ pc'[r] = "probe" /\ UNCHANGED <<cand, ordered, open, idx>>
        \/ NextInPass(r, Append(ordered[r], Cur(r)), open[r])
        \/ NextInPass(r, ordered[r], Append(open[r], Cur(r)))
    <3>1. CASE ReadState(r)
      BY <1>0, <3>1, Zenon DEF ReadState, Goto
    <3>2. CASE ProbeOpen(r)
      BY <3>2, Zenon DEF ProbeOpen
    <3> QED BY <1>5, <3>1, <3>2, Zenon
  <2>8. CASE pc'[r] = "probe" /\ UNCHANGED <<cand, ordered, open, idx>>
    BY <2>1, <2>8, Zenon DEF Walks, Outside, Unadmitted, Streams
  <2> QED BY <2>1, <2>4, <2>5, <2>6, <2>7, <2>8, NextInPassWalks, Zenon
<1>6. CASE CheckBudget(r)
  <2>1. /\ pc[r] = "budget" /\ UNCHANGED <<mode, cand, idx, slot, attempts>>
        /\ pc'[r] \in {"allow", "release"}
    BY <1>0, <1>6 DEF CheckBudget, Return, Goto
  <2> QED BY <2>1, Zenon DEF Walks, Outside, Unadmitted, Streams
<1>7. CASE CheckBreaker(r)
  <2>1. pc[r] = "allow" /\ UNCHANGED <<mode, cand, slot>>
    BY <1>7 DEF CheckBreaker
  <2>2. attempts[r] <= idx[r] /\ attempts[r] + 1 <= idx[r]
    BY <1>0, <2>1 DEF Walks
  <2>3. \/ attempts'[r] = attempts[r] + 1 /\ pc'[r] = "call" /\ UNCHANGED idx
        \/ NextCandidate(r) /\ UNCHANGED attempts
    BY <1>0, <1>7, Zenon DEF CheckBreaker, Goto
  <2>4. CASE attempts'[r] = attempts[r] + 1 /\ pc'[r] = "call" /\ UNCHANGED idx
    <3>1. attempts'[r] <= idx[r]
      BY <2>2, <2>4, Zenon
    <3> QED BY <2>1, <2>4, <3>1, WalkStays, Zenon DEF Outside, Unadmitted
  <2>5. CASE NextCandidate(r) /\ UNCHANGED attempts
    <3>1. attempts[r] <= idx[r] /\ pc[r] \notin Outside
      BY <2>1, <2>2, Zenon DEF Outside, Unadmitted
    <3> QED BY <2>1, <2>5, <3>1, NextCandidateWalks, Zenon
  <2> QED BY <2>3, <2>4, <2>5, Zenon
<1>8. CASE CallSucceeds(r) \/ RefundBudget(r) \/ RecordSuccess(r) \/ StreamEnds(r)
  <2>1. /\ pc[r] \in InCall /\ UNCHANGED <<mode, cand, idx, slot>>
        /\ pc'[r] \in {"refund", "credit", "stream", "release"}
    BY <1>0, <1>8
    DEF CallSucceeds, RefundBudget, RecordSuccess, StreamEnds, Return, Goto, walk, InCall
  <2> QED BY <2>1, WalkStays, ZenonT(30) DEF Outside, Unadmitted, InCall
<1>9. CASE CallFails(r) \/ RecordFailure(r)
  <2>1. /\ pc[r] \in {"call", "fail"} /\ UNCHANGED <<mode, cand, idx, slot, attempts>>
        /\ pc'[r] \in {"fail", "refund", "charge", "release"}
    BY <1>0, <1>9 DEF CallFails, RecordFailure, Return, Goto
  <2>2. attempts'[r] <= idx[r]
    BY <2>1, Zenon DEF Walks
  <2> QED BY <2>1, <2>2, WalkStays, Zenon DEF Outside, Unadmitted
<1>10. CASE ChargeBudget(r)
  <2>1. /\ pc[r] = "charge" /\ NextCandidate(r)
        /\ UNCHANGED <<mode, cand, slot, attempts>>
    BY <1>10 DEF ChargeBudget
  <2>2. attempts[r] <= idx[r] /\ pc[r] \notin Outside
    BY <2>1, Zenon DEF Walks, Outside, Unadmitted
  <2> QED BY <2>1, <2>2, NextCandidateWalks, Zenon
<1>11. Release(r) => Reset(r)
  BY DEF Release
<1> QED
  BY <1>1, <1>2, <1>3, <1>4, <1>5, <1>6, <1>7, <1>8, <1>9, <1>10, <1>11 DEF Handle

(* For any workers, attempts and interleaving, no walk visits a worker      *)
(* twice and a stream begins with the worker it was admitted to             *)
(* (WalkIsSound).                                                           *)
THEOREM WalksCorrect == Spec => []WalkIsSound
<1>1. Init => WalkInv
  BY EmptyPicked DEF Init, WalkInv, Walks, Unadmitted
<1>2. ASSUME TypeInv, WalkInv, [Next]_vars PROVE WalkInv'
  <2>1. ASSUME NEW s \in Requests, Own(s)' = Own(s) PROVE Walks(s)'
    <3>1. /\ pc'[s] = pc[s] /\ mode'[s] = mode[s] /\ cand'[s] = cand[s]
          /\ ordered'[s] = ordered[s] /\ open'[s] = open[s] /\ idx'[s] = idx[s]
          /\ attempts'[s] = attempts[s] /\ slot'[s] = slot[s]
      BY <2>1, Zenon DEF Own
    <3> QED BY <1>2, <3>1, Zenon DEF WalkInv, Walks, Streams
  <2>2. ASSUME NEW r \in Requests, Arrive(r) \/ Handle(r), NEW s \in Requests
        PROVE  Walks(s)'
    BY <1>2, <2>1, <2>2, OthersKept, WalkStep, Zenon DEF WalkInv
  <2>3. CASE UNCHANGED vars \/ \E w \in Workers : TimeoutElapses(w)
    BY <2>1, <2>3, NoHandlerStep DEF WalkInv
  <2> QED BY <1>2, <2>2, <2>3 DEF WalkInv, Next, Terminating
<1>3. TypeInv /\ WalkInv => WalkIsSound
  BY Zenon DEF WalkInv, Walks, WalkIsSound, Distinct, Unadmitted, Cur
<1> QED BY <1>1, <1>2, <1>3, TypeInit, TypeNext, PTL DEF Spec

-----------------------------------------------------------------------------
(* Admission.  Only TryAdmit and Release touch the counters and the slots,  *)
(* and each does what SlotCounter allows for the worker concerned.          *)

Takes(r, w) ==
  /\ slot[r] = None
  /\ inflight[w] < AdmissionLimit
  /\ inflight' = [inflight EXCEPT ![w] = inflight[w] + 1]
  /\ slot' = [slot EXCEPT ![r] = w]

GivesBack(r, w) ==
  /\ slot[r] = w
  /\ inflight' = [inflight EXCEPT ![w] =
                    IF inflight[w] = 0 THEN 0 ELSE inflight[w] - 1]
  /\ slot' = [slot EXCEPT ![r] = None]

LEMMA AdmissionStep ==
  ASSUME TypeInv, [Next]_vars
  PROVE  \/ UNCHANGED <<inflight, slot>>
         \/ \E r \in Requests, w \in Workers : Takes(r, w) \/ GivesBack(r, w)
<1>1. ASSUME NEW r \in Requests, TryAdmit(r)
      PROVE  UNCHANGED <<inflight, slot>> \/ \E w \in Workers : Takes(r, w)
  <2>1. Cur(r) \in Workers /\ slot[r] = None
    BY <1>1, CurIsWorker, ZenonT(30) DEF TryAdmit, TypeInv, HandlerInv
  <2>2. UNCHANGED <<inflight, slot>> \/ Takes(r, Cur(r))
    BY <1>1, <2>1 DEF TryAdmit, HasSlot, Takes
  <2> QED BY <2>1, <2>2
<1>2. ASSUME NEW r \in Requests, Release(r)
      PROVE  \E w \in Workers : GivesBack(r, w)
  <2>1. slot[r] \in Workers
    BY <1>2, Zenon DEF Release, TypeInv, TypeOK, HandlerInv
  <2>2. GivesBack(r, slot[r])
    BY <1>2 DEF Release, GivesBack
  <2> QED BY <2>1, <2>2
<1>3. ASSUME NEW r \in Requests, Arrive(r) \/ Handle(r), ~TryAdmit(r), ~Release(r)
      PROVE  UNCHANGED <<inflight, slot>>
  BY <1>3 DEF Handle, Arrive, Rank, RankError, ReadState, ProbeOpen, CheckBudget,
     CheckBreaker, CallSucceeds, CallFails, RecordFailure, ChargeBudget,
     RefundBudget, RecordSuccess, StreamEnds, shared
<1>4. ASSUME NEW w \in Workers, TimeoutElapses(w)
      PROVE  UNCHANGED <<inflight, slot>>
  BY <1>4 DEF TimeoutElapses
<1>5. CASE UNCHANGED vars
  BY <1>5 DEF vars
<1> QED
  BY <1>1, <1>2, <1>3, <1>4, <1>5 DEF Next, Terminating

(* What counting the holders needs of finite sets; CountsCorrect has it. *)
CountFacts ==
  \A S \in SUBSET Requests :
    /\ Cardinality(S) \in Nat
    /\ S = {} => Cardinality(S) = 0
    /\ \A x : x \notin S => Cardinality(S \cup {x}) = Cardinality(S) + 1
    /\ \A x \in S : Cardinality(S \ {x}) = Cardinality(S) - 1 /\ Cardinality(S) # 0

LEMMA HoldersCount ==
  ASSUME CountFacts, NEW w
  PROVE  /\ Cardinality(Holders(w)) \in Nat
         /\ \A x : x \notin Holders(w) =>
              Cardinality(Holders(w) \cup {x}) = Cardinality(Holders(w)) + 1
         /\ \A x \in Holders(w) :
              /\ Cardinality(Holders(w) \ {x}) = Cardinality(Holders(w)) - 1
              /\ Cardinality(Holders(w)) # 0
<1>1. Holders(w) \in SUBSET Requests
  BY DEF Holders
<1> QED BY <1>1, Zenon DEF CountFacts

(* Taking a slot adds one holder to the worker's and to no other's. *)
LEMMA TakesHolders ==
  ASSUME TypeInv, NEW r \in Requests, NEW w \in Workers, Takes(r, w),
         NEW v \in Workers
  PROVE  /\ r \notin Holders(w)
         /\ Holders(v)' = IF v = w THEN Holders(v) \cup {r} ELSE Holders(v)
<1>1. None \notin Workers
  BY GatewayAssumption
<1>2. slot \in [Requests -> Workers \cup {None}]
  BY Types, Zenon
<1> QED BY <1>1, <1>2 DEF Takes, Holders

(* Giving a slot back removes that holder. *)
LEMMA GivesBackHolders ==
  ASSUME TypeInv, NEW r \in Requests, NEW w \in Workers, GivesBack(r, w),
         NEW v \in Workers
  PROVE  /\ r \in Holders(w)
         /\ Holders(v)' = IF v = w THEN Holders(v) \ {r} ELSE Holders(v)
<1>1. None \notin Workers
  BY GatewayAssumption
<1>2. slot \in [Requests -> Workers \cup {None}]
  BY Types, Zenon
<1> QED BY <1>1, <1>2 DEF GivesBack, Holders

LEMMA SlotsNext ==
  ASSUME CountFacts, TypeInv, SlotsMatchCounters, [Next]_vars
  PROVE  SlotsMatchCounters'
<1>1. CASE UNCHANGED <<inflight, slot>>
  BY <1>1 DEF SlotsMatchCounters, Holders
<1>2. ASSUME NEW r \in Requests, NEW w \in Workers, Takes(r, w)
      PROVE  SlotsMatchCounters'
  <2> SUFFICES ASSUME NEW v \in Workers
               PROVE  /\ inflight'[v] = Cardinality(Holders(v)')
                      /\ inflight'[v] <= AdmissionLimit
    BY DEF SlotsMatchCounters
  <2>1. inflight \in [Workers -> Nat] /\ AdmissionLimit \in Nat
    BY GatewayAssumption, Types, Zenon
  <2>2. inflight[v] = Cardinality(Holders(v)) /\ inflight[v] <= AdmissionLimit
    BY DEF SlotsMatchCounters
  <2>3. CASE v = w
    <3>1. Holders(v)' = Holders(v) \cup {r} /\ r \notin Holders(v)
      BY <1>2, <2>3, TakesHolders
    <3>2. Cardinality(Holders(v)') = Cardinality(Holders(v)) + 1
      BY <3>1, HoldersCount, Zenon
    <3>3. inflight'[v] = inflight[v] + 1 /\ inflight[v] < AdmissionLimit
      BY <1>2, <2>1, <2>3 DEF Takes
    <3> QED BY <2>1, <2>2, <3>2, <3>3
  <2>4. CASE v # w
    <3>1. Holders(v)' = Holders(v)
      BY <1>2, <2>4, TakesHolders
    <3>2. inflight'[v] = inflight[v]
      BY <1>2, <2>1, <2>4 DEF Takes
    <3> QED BY <2>2, <3>1, <3>2
  <2> QED BY <2>3, <2>4
<1>3. ASSUME NEW r \in Requests, NEW w \in Workers, GivesBack(r, w)
      PROVE  SlotsMatchCounters'
  <2> SUFFICES ASSUME NEW v \in Workers
               PROVE  /\ inflight'[v] = Cardinality(Holders(v)')
                      /\ inflight'[v] <= AdmissionLimit
    BY DEF SlotsMatchCounters
  <2>1. inflight \in [Workers -> Nat] /\ AdmissionLimit \in Nat
    BY GatewayAssumption, Types, Zenon
  <2>2. inflight[v] = Cardinality(Holders(v)) /\ inflight[v] <= AdmissionLimit
    BY DEF SlotsMatchCounters
  <2>3. CASE v = w
    <3>1. Holders(v)' = Holders(v) \ {r} /\ r \in Holders(v)
      BY <1>3, <2>3, GivesBackHolders
    <3>2. Cardinality(Holders(v)') = Cardinality(Holders(v)) - 1
      BY <3>1, HoldersCount, Zenon
    <3>3. Cardinality(Holders(v)) # 0
      BY <3>1, HoldersCount, Zenon
    <3>4. inflight'[v] = inflight[v] - 1
      BY <1>3, <2>1, <2>2, <2>3, <3>3 DEF GivesBack
    <3> QED BY <2>1, <2>2, <3>2, <3>4
  <2>4. CASE v # w
    <3>1. Holders(v)' = Holders(v)
      BY <1>3, <2>4, GivesBackHolders
    <3>2. inflight'[v] = inflight[v]
      BY <1>3, <2>1, <2>4 DEF GivesBack
    <3> QED BY <2>2, <3>1, <3>2
  <2> QED BY <2>3, <2>4
<1> QED BY <1>1, <1>2, <1>3, AdmissionStep

(* A step of the handlers takes or gives back a slot as SlotCounter does. *)
LEMMA AdmissionNext ==
  ASSUME CountFacts, TypeInv, SlotsMatchCounters, [Next]_vars
  PROVE  \A w \in Workers : [Admission(w)!Next]_(Admission(w)!vars)
<1> SUFFICES ASSUME NEW v \in Workers
             PROVE  Admission(v)!Next \/ UNCHANGED <<inflight[v], Holders(v)>>
  BY Zenon DEF Admission!vars
<1>0. inflight \in [Workers -> Nat]
  BY Types, ZenonT(30)
<1>1. CASE UNCHANGED <<inflight, slot>>
  BY <1>1, SMTT(30) DEF Holders
<1>2. ASSUME NEW r \in Requests, NEW w \in Workers, Takes(r, w)
      PROVE  Admission(v)!Next \/ UNCHANGED <<inflight[v], Holders(v)>>
  <2>1. CASE v = w
    <3>1. Admission(v)!Acquire(r)
      BY <1>0, <1>2, <2>1, TakesHolders, Zenon DEF Admission!Acquire, Takes
    <3> QED BY <3>1 DEF Admission!Next
  <2>2. CASE v # w
    BY <1>0, <1>2, <2>2, TakesHolders, ZenonT(30) DEF Takes
  <2> QED BY <2>1, <2>2, ZenonT(30)
<1>3. ASSUME NEW r \in Requests, NEW w \in Workers, GivesBack(r, w)
      PROVE  Admission(v)!Next \/ UNCHANGED <<inflight[v], Holders(v)>>
  <2>1. CASE v = w
    <3>1. r \in Holders(v) /\ Holders(v)' = Holders(v) \ {r}
      BY <1>3, <2>1, GivesBackHolders
    <3>2. inflight[v] # 0
      BY <3>1, HoldersCount, Zenon DEF SlotsMatchCounters
    <3>3. Admission(v)!Release(r)
      BY <1>0, <1>3, <2>1, <3>1, <3>2 DEF Admission!Release, GivesBack
    <3> QED BY <3>3 DEF Admission!Next
  <2>2. CASE v # w
    BY <1>0, <1>3, <2>2, GivesBackHolders, Zenon DEF GivesBack
  <2> QED BY <2>1, <2>2, SMTT(30)
<1> QED BY <1>1, <1>2, <1>3, AdmissionStep

(* Requests are finite in number, and so are the holders of any slot. *)
INSTANCE FiniteSetTheorems

LEMMA CountsCorrect == CountFacts
<1> SUFFICES ASSUME NEW S \in SUBSET Requests
             PROVE  /\ Cardinality(S) \in Nat
                    /\ S = {} => Cardinality(S) = 0
                    /\ \A x : x \notin S => Cardinality(S \cup {x}) = Cardinality(S) + 1
                    /\ \A x \in S : /\ Cardinality(S \ {x}) = Cardinality(S) - 1
                                    /\ Cardinality(S) # 0
  BY Zenon DEF CountFacts
<1>1. IsFiniteSet(S)
  BY FS_Subset, GatewayAssumption
<1>2. Cardinality(S) \in Nat /\ (Cardinality(S) = 0 <=> S = {})
  BY <1>1, FS_CardinalityType, FS_EmptySet, ZenonT(30)
<1>3. \A x : x \notin S => Cardinality(S \cup {x}) = Cardinality(S) + 1
  BY <1>1, FS_AddElement
<1>4. \A x \in S : Cardinality(S \ {x}) = Cardinality(S) - 1
  BY <1>1, FS_RemoveElement
<1>5. \A x \in S : Cardinality(S) # 0
  BY <1>2, Zenon
<1> QED BY <1>2, <1>3, <1>4, <1>5, ZenonT(30)

(* Admission slots are never lost nor taken twice: in every reachable state *)
(* a worker's inflight counter is the number of handlers that hold one of   *)
(* its slots, and at most AdmissionLimit.                                   *)
THEOREM SlotsCorrect == Spec => []SlotsMatchCounters
<1>1. Init => SlotsMatchCounters
  <2> SUFFICES ASSUME Init, NEW w \in Workers
               PROVE  inflight[w] = Cardinality(Holders(w)) /\ inflight[w] <= AdmissionLimit
    BY DEF SlotsMatchCounters
  <2>1. Holders(w) = {}
    BY GatewayAssumption DEF Init, Holders
  <2>2. Cardinality({}) = 0
    BY CountsCorrect, Zenon DEF CountFacts
  <2> QED BY <2>1, <2>2, GatewayAssumption, SMTT(30) DEF Init
<1>2. TypeInv /\ SlotsMatchCounters /\ [Next]_vars => SlotsMatchCounters'
  BY SlotsNext, CountsCorrect, Zenon
<1> QED BY <1>1, <1>2, TypeInit, TypeNext, PTL DEF Spec

(* The handlers use the tracker as its specification, SlotCounter, has it:  *)
(* every step takes one free slot, gives back one held slot, or leaves the  *)
(* counter and the holders of a worker alone.                               *)
THEOREM AdmissionCorrect == Spec => AdmissionIsSlotCounter
<1>1. Init => \A w \in Workers : Admission(w)!Init
  BY GatewayAssumption DEF Init, Admission!Init, Holders
<1>2. TypeInv /\ SlotsMatchCounters /\ [Next]_vars
        => \A w \in Workers : [Admission(w)!Next]_(Admission(w)!vars)
  BY AdmissionNext, CountsCorrect, Zenon
<1> QED
  BY <1>1, <1>2, TypeInit, TypeNext, SlotsCorrect, PTL DEF Spec, AdmissionIsSlotCounter
=============================================================================
