-------------------------- MODULE SchedulerProofs --------------------------
(***************************************************************************)
(* Proofs about the ranking of workers, for any requests, snapshots,       *)
(* catalogs, prices, weights and limits, and about the overlap of block    *)
(* keys, for any prompts.                                                  *)
(*                                                                         *)
(* Induction over data is by smallest counterexamples: the subsets of a    *)
(* finite set are well founded, so that a set of counterexamples has a     *)
(* member that contains no other.                                          *)
(***************************************************************************)
EXTENDS Scheduler, TLAPS

\* The larger and the smaller of two numbers.
LEMMA OfTwo ==
  ASSUME NEW a \in Int, NEW b \in Int
  PROVE  /\ Max({a, b}) = IF a >= b THEN a ELSE b
         /\ Min({a, b}) = IF a <= b THEN a ELSE b
BY DEF Max, Min

\* Whole quotients of numbers.
LEMMA Quotients ==
  ASSUME NEW a \in Int, NEW b \in Nat \ {0}
  PROVE  a \div b \in Int /\ (a \in Nat => a \div b \in Nat)
OBVIOUS

\* The terms other requests can disturb are between 0 and One.
LEMMA SharedTerms ==
  ASSUME NEW c, c.cost \in Int, NEW max \in Int, NEW w
  PROVE  CostScore(max, c) \in 0..One /\ AffinityScore(w, c) \in {0, One}
<1>1. CASE max <= 0
  BY <1>1 DEF CostScore, AffinityScore, One
<1>2. CASE max > 0
  <2> DEFINE x == (One * c.cost) \div max
  <2>1. x \in Int
    BY <1>2, Quotients DEF One
  <2> HIDE DEF x
  <2>2. Max({0, Min({One, x})}) \in 0..One
    <3> DEFINE y == Min({One, x})
    <3>1. y \in Int /\ y <= One
      <4>1. One \in Int
        BY DEF One
      <4>2. Min({One, x}) = IF One <= x THEN One ELSE x
        BY <2>1, <4>1, OfTwo
      <4> QED BY <2>1, <4>1, <4>2
    <3> HIDE DEF y
    <3>2. Max({0, y}) = IF 0 >= y THEN 0 ELSE y
      BY <3>1, OfTwo
    <3> QED BY <3>1, <3>2 DEF y, One
  <2>3. CostScore(max, c) = One - Max({0, Min({One, x})})
    BY <1>2 DEF CostScore, x
  <2> QED BY <2>2, <2>3 DEF AffinityScore, One
<1> QED BY <1>1, <1>2


\* Each prompt has finitely many blocks, and a key for each.
LEMMA Blocks ==
  ASSUME NEW p \in Prompts
  PROVE  \E n \in Nat : /\ DOMAIN ChunkTokens(p) = 1..n /\ Len(ChunkTokens(p)) = n
                        /\ \A a : DOMAIN HashBlocks(p, a) = 1..n /\ Len(HashBlocks(p, a)) = n
                                  /\ (n = 0 <=> HashBlocks(p, a) = <<>>)
<1>1. Len(p) \in Nat
  BY BlockAssumption DEF Prompts
<1> DEFINE n == (Len(p) + BlockSize - 1) \div BlockSize
<1>2. n \in Nat
  BY <1>1, BlockAssumption, Quotients
<1>3. ChunkTokens(p) = [i \in 1..n |->
        SubSeq(p, (i - 1) * BlockSize + 1, Min({i * BlockSize, Len(p)}))]
  BY DEF ChunkTokens
<1> HIDE DEF n
<1>4. DOMAIN ChunkTokens(p) = 1..n /\ Len(ChunkTokens(p)) = n
  BY <1>2, <1>3
<1>5. ASSUME NEW a
      PROVE  DOMAIN HashBlocks(p, a) = 1..n /\ Len(HashBlocks(p, a)) = n
             /\ (n = 0 <=> HashBlocks(p, a) = <<>>)
  <2> DEFINE key[i \in 0..Len(ChunkTokens(p))] ==
               IF i = 0 THEN <<>> ELSE <<a, key[i - 1], ChunkTokens(p)[i]>>
  <2>1. HashBlocks(p, a) = [i \in DOMAIN ChunkTokens(p) |-> key[i]]
    BY DEF HashBlocks
  <2> HIDE DEF key
  <2>2. HashBlocks(p, a) = [i \in 1..n |-> key[i]]
    BY <1>4, <2>1
  <2> QED BY <1>2, <2>2
<1> QED BY <1>2, <1>4, <1>5

\* A term is at most its weight.
LEMMA TermIsBounded ==
  ASSUME NEW w \in Nat, NEW x \in 0..One
  PROVE  w * x \in Int /\ 0 <= w * x /\ w * x <= w * One /\ w * One \in Int
BY DEF One

\* A lead that no terms in their range can make up.
LEMMA LeadStays ==
  ASSUME NEW A \in Nat, NEW C \in Nat, NEW u \in Int, NEW v \in Int,
         NEW a \in 0..One, NEW b \in 0..One, NEW c \in 0..One, NEW d \in 0..One,
         u > v + (A + C) * One
  PROVE  u + A * a + C * c > v + A * b + C * d
<1>1. /\ A * a \in Int /\ 0 <= A * a /\ C * c \in Int /\ 0 <= C * c
      /\ A * b \in Int /\ A * b <= A * One /\ C * d \in Int /\ C * d <= C * One
      /\ A * One \in Int /\ C * One \in Int
  BY TermIsBounded, Zenon
<1>2. (A + C) * One = A * One + C * One
  BY DEF One
<1> QED BY <1>1, <1>2

\* The terms only the request itself decides are numbers, the overlap aside.
LEMMA OwnTerms ==
  ASSUME NEW q, NEW c, c.depth \in Nat, c.lat \in Int
  PROVE  LeastLoaded(c) \in Int /\ LatencyScore(c) \in Int /\ PolicyScore(q, c) \in Int
<1>1. LeastLoaded(c) \in Int
  BY Quotients DEF LeastLoaded, One
<1>2. LatencyScore(c) \in Int
  BY Quotients DEF LatencyScore, One
<1>3. PolicyScore(q, c) \in Int
  BY Quotients, SchedulerAssumption DEF PolicyScore, One
<1> QED BY <1>1, <1>2, <1>3

LEMMA OwnSum ==
  ASSUME NEW q, NEW c, c.depth \in Nat, c.lat \in Int, OverlapScore(q, c) \in Int
  PROVE  OwnScore(q, c) \in Int
<1>1. LeastLoaded(c) \in Int /\ LatencyScore(c) \in Int /\ PolicyScore(q, c) \in Int
  BY OwnTerms
<1>2. /\ Weight.load \in Int /\ Weight.latency \in Int
      /\ Weight.policy \in Int /\ Weight.overlap \in Int
  BY SchedulerAssumption
<1> QED BY <1>1, <1>2 DEF OwnScore

\* The two weights of the terms other requests can disturb.
LEMMA WeightsAre ==
  /\ Weight.affinity \in Nat /\ Weight.cost \in Nat
BY SchedulerAssumption

\* Rank cuts the sorted list to the number of attempts.
Cut(all) == SubSeq(all, 1, Min({MaxAttempts, Len(all)}))

IsCut(o, all, n) ==
  LET k == Min({MaxAttempts, n})
  IN  k \in 0..n /\ o = [i \in 1..k |-> all[i]] /\ Len(o) = k

LEMMA CutIs ==
  ASSUME NEW n \in Nat, NEW S, NEW all \in [1..n -> S]
  PROVE  IsCut(Cut(all), all, n)
<1> DEFINE k == Min({MaxAttempts, n})
<1>1. all \in Seq(S) /\ Len(all) = n
  OBVIOUS
<1>2. k \in 0..n
  <2>1. k = IF MaxAttempts <= n THEN MaxAttempts ELSE n
    <3>1. MaxAttempts \in Int /\ n \in Int
      BY SchedulerAssumption
    <3> QED BY <3>1, OfTwo, Zenon
  <2> QED BY <2>1, SchedulerAssumption
<1>3. Cut(all) = SubSeq(all, 1, k)
  BY <1>1 DEF Cut
<1> HIDE DEF k
<1>4. Cut(all) = [i \in 1..k |-> all[i]] /\ Len(Cut(all)) = k
  BY <1>1, <1>2, <1>3
<1> QED BY <1>2, <1>4 DEF k, IsCut

-----------------------------------------------------------------------------
\* The inductive invariant.  Each request, by what it alone writes: how the
\* snapshot, the catalog and the filters decided its outcome, and how far its
\* candidates are scored.
Steps == {"clear", "prefer", "reread", "prices", "affinity", "cost", "sort"}

Outcome(r, p, q, snap, left) ==
  p \notin {"idle", "no snapshot"} =>
    LET in == filterByWorkerIDs(CandidatesFromSnapshot(snap), q)
    IN  /\ snap \in Snapshots /\ \E cat \in Catalogs : q = resolveModel(cat, Req[r])
        /\ left = Filtered(q, in)
        /\ p = "no live assignee" => in = <<>>
        /\ p = "no capacity" => q.any \/ in # <<>>
        /\ p \in {"no capacity", "admission rejected"} => left = <<>> /\ p = FilterError(q, in)
        /\ p \in Steps => left # <<>>

\* A score before and after the price is added.  The two terms that need the
\* shared fields are in their range, and exact for a request on its own.
Half(q, in, k, x, al) ==
  \E a \in {0, One} :
    /\ x = OwnScore(q, in[k]) + Weight.affinity * a
    /\ al => a = AffinityScore(Preferred(q, in), in[k])

Score(q, in, k, x, al) ==
  \E a \in {0, One}, c \in 0..One :
    /\ x = OwnScore(q, in[k]) + Weight.affinity * a + Weight.cost * c
    /\ al => a = AffinityScore(Preferred(q, in), in[k]) /\ c = CostScore(MaxCost(in), in[k])

Progress(p, q, in, t, o, al) ==
  /\ p \in {"idle", "clear", "prefer", "reread", "prices"} => t = <<>>
  /\ p = "affinity" => Len(t) < Len(in) /\ \A k \in 1..Len(t) : Score(q, in, k, t[k], al)
  /\ p = "cost" => /\ Len(t) \in 1..Len(in)
                   /\ \A k \in 1..(Len(t) - 1) : Score(q, in, k, t[k], al)
                   /\ Half(q, in, Len(t), t[Len(t)], al)
  /\ p \in {"sort", "done"} => Len(t) = Len(in) /\ \A k \in 1..Len(t) : Score(q, in, k, t[k], al)
  /\ p = "done" => o = Cut(Sorted(in, t))

\* The shared fields, as a request on its own finds them: words are the words
\* of the preferred worker it has yet to write.
Fields(p, q, in, ws, l, a, m) ==
  LET worker == Preferred(q, in)
      size == IF worker = Nil THEN 0 ELSE 1
  IN  /\ p = "clear" => ("len" \notin ws => l = 0) /\ ("ptr" \notin ws => a = Nil)
      /\ p = "prefer" => ("len" \notin ws => l = size) /\ ("ptr" \notin ws => a = worker)
      /\ p \in {"reread", "prices", "affinity", "cost"} => l = size /\ a = worker
      /\ p \in {"affinity", "cost"} => m = MaxCost(in)

TypeInv ==
  /\ pc \in [Requests -> Steps \cup Refusals \cup {"idle", "done", "panic"}]
  /\ DOMAIN ask = Requests /\ DOMAIN rows = Requests /\ DOMAIN cand = Requests
  /\ DOMAIN got = Requests /\ DOMAIN out = Requests
  /\ total \in [Requests -> Seq(Int)]
  /\ words \in [Requests -> SUBSET {"len", "ptr"}]
  /\ alone \in [Requests -> BOOLEAN]
  /\ maxUSD \in Int

Own(r) ==
  /\ Outcome(r, pc[r], ask[r], rows[r], cand[r])
  /\ Progress(pc[r], ask[r], cand[r], total[r], out[r], alone[r])

Solo(r) ==
  alone[r] /\ pc[r] \in Steps =>
    /\ \A s \in Requests \ {r} : pc[s] \notin Steps
    /\ Fields(pc[r], ask[r], cand[r], words[r], len, ptr, maxUSD)

IInv == TypeInv /\ \A r \in Requests : Own(r) /\ Solo(r)

\* A request asks for a model, and its key is that of a prompt.
LEMMA AskIs ==
  ASSUME NEW r \in Requests, NEW cat \in Catalogs, NEW q, q = resolveModel(cat, Req[r])
  PROVE  q.base # "none" /\ (q.key # 0 => Prompt[q.key] \in Prompts)
BY SchedulerAssumption DEF resolveModel

\* Finitely many candidates, of different workers, with what the scorers use.
Sized(in) ==
  \E n \in Nat :
    /\ DOMAIN in = 1..n /\ Len(in) = n /\ (n = 0 <=> in = <<>>)
    /\ \A i \in 1..n : /\ in[i].id \in Nat \ {0} /\ in[i].depth \in Nat
                       /\ in[i].lat \in Int /\ in[i].cost \in Int
    /\ \A i, j \in 1..n : i # j => in[i].id # in[j].id

\* What scoring needs of a request whose candidates are scored: numbers.  It
\* follows from what the request decided, by the lemma OwnIsScorable.
Scorable(r) ==
  pc[r] \in Steps =>
    /\ Sized(cand[r]) /\ MaxCost(cand[r]) \in Int
    /\ \A k \in 1..Len(cand[r]) : OwnScore(ask[r], cand[r][k]) \in Int

-----------------------------------------------------------------------------
\* A step of one request leaves what another alone writes as it is; the other
\* may find that it is not on its own any more.
Same(s) ==
  /\ pc'[s] = pc[s] /\ ask'[s] = ask[s] /\ rows'[s] = rows[s] /\ cand'[s] = cand[s]
  /\ total'[s] = total[s] /\ out'[s] = out[s] /\ words'[s] = words[s]
  /\ alone'[s] => alone[s]

LEMMA Untouched ==
  ASSUME TypeInv, NEW r \in Requests, NEW s \in Requests, s # r, Rank(r)
  PROVE  Same(s)
<1> USE DEF TypeInv, Same
<1>1. CASE NoSnapshot(r)
  BY <1>1, Zenon DEF NoSnapshot
<1>2. CASE Begin(r)
  BY <1>2, Zenon DEF Begin
<1>3. CASE Clear(r)
  BY <1>3, Zenon DEF Clear, StoreWord
<1>4. CASE Prefer(r)
  BY <1>4, Zenon DEF Prefer, StoreWord
<1>5. CASE Reread(r)
  BY <1>5 DEF Reread
<1>6. CASE Prices(r)
  BY <1>6 DEF Prices
<1>7. CASE ScoreAffinity(r)
  BY <1>7 DEF ScoreAffinity
<1>8. CASE ScoreCost(r)
  BY <1>8 DEF ScoreCost
<1>9. CASE Sort(r)
  BY <1>9 DEF Sort
<1> QED BY <1>1, <1>2, <1>3, <1>4, <1>5, <1>6, <1>7, <1>8, <1>9, Zenon DEF Rank

\* A score holds as well for a request that is not on its own any more.
LEMMA ProgressWeakens ==
  ASSUME NEW p, NEW q, NEW in, NEW t, NEW o, NEW al \in BOOLEAN, NEW be \in BOOLEAN, be => al,
         Progress(p, q, in, t, o, al)
  PROVE  Progress(p, q, in, t, o, be)
<1>1. \A k, x : Score(q, in, k, x, al) => Score(q, in, k, x, be)
  BY DEF Score
<1>2. \A k, x : Half(q, in, k, x, al) => Half(q, in, k, x, be)
  BY DEF Half
<1> QED BY <1>1, <1>2, Zenon DEF Progress

\* What the filters decided stays decided while the candidates are scored.
LEMMA OutcomeStays ==
  ASSUME NEW r, NEW p \in Steps, NEW q, NEW snap, NEW left, Outcome(r, p, q, snap, left),
         NEW next \in Steps \cup {"done", "panic"}
  PROVE  Outcome(r, next, q, snap, left)
<1>1. /\ p \notin {"idle", "no snapshot"} /\ next \notin {"idle", "no snapshot"}
      /\ next \notin {"no live assignee", "no capacity", "admission rejected"}
  BY Zenon DEF Steps
<1> QED BY <1>1, Zenon DEF Outcome

\* A step of one request, for the others.
LEMMA OthersStay ==
  ASSUME IInv, NEW r \in Requests, NEW s \in Requests, s # r, Rank(r), alone' \in [Requests -> BOOLEAN]
  PROVE  Own(s)' /\ Solo(s)'
<1>1. TypeInv /\ Own(s) /\ Solo(s)
  BY DEF IInv
<1>2. Same(s)
  BY <1>1, Untouched
<1>3. alone[s] \in BOOLEAN /\ alone'[s] \in BOOLEAN
  BY <1>1 DEF TypeInv
<1>4. Own(s)'
  <2>1. Outcome(s, pc'[s], ask'[s], rows'[s], cand'[s])
    BY <1>1, <1>2, Zenon DEF Own, Same
  <2>2. Progress(pc'[s], ask'[s], cand'[s], total'[s], out'[s], alone'[s])
    <3>1. Progress(pc[s], ask[s], cand[s], total[s], out[s], alone[s])
      BY <1>1 DEF Own
    <3>2. Progress(pc[s], ask[s], cand[s], total[s], out[s], alone'[s])
      BY <1>2, <1>3, <3>1, ProgressWeakens DEF Same
    <3> QED BY <1>2, <3>2, Zenon DEF Same
  <2> QED BY <2>1, <2>2 DEF Own
<1>5. Solo(s)'
  <2> SUFFICES ASSUME alone'[s], pc'[s] \in Steps
               PROVE  /\ \A t \in Requests \ {s} : pc'[t] \notin Steps
                      /\ Fields(pc'[s], ask'[s], cand'[s], words'[s], len', ptr', maxUSD')
    BY DEF Solo
  <2>1. alone[s] /\ pc[s] \in Steps
    BY <1>2 DEF Same
  <2>2. /\ \A t \in Requests \ {s} : pc[t] \notin Steps
        /\ Fields(pc[s], ask[s], cand[s], words[s], len, ptr, maxUSD)
    BY <1>1, <2>1 DEF Solo
  <2>3. pc[r] \notin Steps
    BY <2>2
  <2>4. CASE NoSnapshot(r)
    <3>1. \A t \in Requests : pc'[t] = IF t = r THEN "no snapshot" ELSE pc[t]
      BY <1>1, <2>4, Zenon DEF NoSnapshot, TypeInv
    <3>2. \A t \in Requests \ {s} : pc'[t] \notin Steps
      BY <2>2, <3>1, Zenon DEF Steps
    <3>3. len' = len /\ ptr' = ptr /\ maxUSD' = maxUSD
      BY <2>4, Zenon DEF NoSnapshot
    <3> QED BY <1>2, <2>2, <3>2, <3>3 DEF Same
  <2>5. CASE Begin(r)
    <3>1. alone'[s] = (alone[s] /\ ~Running(s))
      BY <2>5, Zenon DEF Begin
    <3> QED BY <2>1, <3>1, Zenon DEF Running, Steps, Refusals
  <2>6. CASE ~(NoSnapshot(r) \/ Begin(r))
    BY <2>3, <2>6 DEF Rank, Clear, Prefer, Reread, Prices, ScoreAffinity, ScoreCost, Sort, Steps
  <2> QED BY <2>4, <2>5, <2>6, Zenon
<1> QED BY <1>4, <1>5

\* A request on its own stays so while nobody else begins.
LEMMA SoloStays ==
  ASSUME IInv, NEW r \in Requests, Rank(r), pc[r] \in Steps, alone' = alone,
         alone[r] /\ pc'[r] \in Steps =>
           Fields(pc'[r], ask'[r], cand'[r], words'[r], len', ptr', maxUSD')
  PROVE  Solo(r)'
<1> SUFFICES ASSUME alone[r], pc'[r] \in Steps
             PROVE  \A t \in Requests \ {r} : pc'[t] \notin Steps
  BY DEF Solo
<1>1. \A t \in Requests \ {r} : pc[t] \notin Steps
  BY DEF IInv, Solo
<1>2. \A t \in Requests \ {r} : pc'[t] = pc[t]
  BY Untouched, Zenon DEF IInv, Same
<1> QED BY <1>1, <1>2, Zenon

\* Before the first publish.
LEMMA NoSnapshotKeeps ==
  ASSUME IInv, NEW r \in Requests, NoSnapshot(r)
  PROVE  TypeInv' /\ Own(r)' /\ Solo(r)'
<1>1. TypeInv
  BY DEF IInv
<1>2. pc'[r] = "no snapshot"
  BY <1>1, Zenon DEF TypeInv, NoSnapshot
<1>3. TypeInv'
  BY <1>1, Zenon DEF TypeInv, NoSnapshot, Refusals
<1>4. Own(r)'
  BY <1>2, Zenon DEF Own, Outcome, Progress
<1>5. Solo(r)'
  BY <1>2, Zenon DEF Solo, Steps
<1> QED BY <1>3, <1>4, <1>5

\* What the early returns of SelectWorkers decide.
LEMMA BeginKeeps ==
  ASSUME IInv, NEW r \in Requests, Begin(r)
  PROVE  TypeInv' /\ Own(r)' /\ Solo(r)'
<1>1. TypeInv
  BY DEF IInv
<1>2. PICK snap \in Snapshots, cat \in Catalogs :
        LET q == resolveModel(cat, Req[r])
            in == filterByWorkerIDs(CandidatesFromSnapshot(snap), q)
            left == Filtered(q, in)
        IN  /\ ask' = [ask EXCEPT ![r] = q]
            /\ rows' = [rows EXCEPT ![r] = snap]
            /\ cand' = [cand EXCEPT ![r] = left]
            /\ pc' = [pc EXCEPT ![r] =
                  CASE ~q.known -> "model not found"
                    [] q.known /\ ~q.any /\ in = <<>> -> "no live assignee"
                    [] q.known /\ (q.any \/ in # <<>>) /\ left = <<>> -> FilterError(q, in)
                    [] OTHER -> "clear"]
  BY Zenon DEF Begin
<1> DEFINE q == resolveModel(cat, Req[r])
           in == filterByWorkerIDs(CandidatesFromSnapshot(snap), q)
           left == Filtered(q, in)
           p == CASE ~q.known -> "model not found"
                  [] q.known /\ ~q.any /\ in = <<>> -> "no live assignee"
                  [] q.known /\ (q.any \/ in # <<>>) /\ left = <<>> -> FilterError(q, in)
                  [] OTHER -> "clear"
<1>3. /\ ask' = [ask EXCEPT ![r] = q] /\ rows' = [rows EXCEPT ![r] = snap]
      /\ cand' = [cand EXCEPT ![r] = left] /\ pc' = [pc EXCEPT ![r] = p]
  BY <1>2, Zenon
<1>4. q.known \in BOOLEAN /\ q.any \in BOOLEAN
  BY Zenon DEF resolveModel
<1>5. FilterError(q, in) \in {"no capacity", "admission rejected"}
  BY DEF FilterError
<1>6. q = resolveModel(cat, Req[r])
  OBVIOUS
<1>7. in = filterByWorkerIDs(CandidatesFromSnapshot(snap), q)
  OBVIOUS
<1>8. left = Filtered(q, in)
  OBVIOUS
<1> HIDE DEF q, in, left
<1>9. \/ p = "model not found"
      \/ p = "no live assignee" /\ in = <<>>
      \/ p = FilterError(q, in) /\ (q.any \/ in # <<>>) /\ left = <<>>
      \/ p = "clear" /\ left # <<>>
  BY <1>4, Zenon
<1> HIDE DEF p
<1>10. Outcome(r, p, q, snap, left)
  BY <1>5, <1>6, <1>7, <1>8, <1>9, Zenon DEF Outcome, Steps
<1>11. /\ p \in Steps \cup Refusals /\ (p \in Steps => p = "clear")
       /\ p \notin {"affinity", "cost", "sort", "done"}
  <2>1. p \in {"model not found", "no live assignee", "no capacity", "admission rejected", "clear"}
    BY <1>5, <1>9, Zenon
  <2> QED BY <2>1, Zenon DEF Steps, Refusals
<1>12. ask'[r] = q /\ rows'[r] = snap /\ cand'[r] = left /\ pc'[r] = p
  BY <1>1, <1>3 DEF TypeInv
<1>13. total' = total /\ out' = out /\ words'[r] = {"len", "ptr"} /\ pc[r] = "idle"
       /\ alone' = [s \in Requests |-> IF s = r THEN \A t \in Requests : ~Running(t)
                                      ELSE alone[s] /\ ~Running(s)]
  BY <1>1, Zenon DEF Begin, TypeInv
<1>14. TypeInv'
  BY <1>1, <1>3, <1>11, Zenon DEF TypeInv, Begin
<1>15. Own(r)'
  <2>1. total[r] = <<>>
    BY <1>13, Zenon DEF IInv, Own, Progress
  <2>2. Progress(p, q, left, total[r], out[r], alone'[r])
    BY <1>11, <2>1, Zenon DEF Progress
  <2> QED BY <1>10, <1>12, <1>13, <2>2, Zenon DEF Own
<1>16. Solo(r)'
  <2> SUFFICES ASSUME alone'[r], pc'[r] \in Steps
               PROVE  /\ \A t \in Requests \ {r} : pc'[t] \notin Steps
                      /\ Fields(pc'[r], ask'[r], cand'[r], words'[r], len', ptr', maxUSD')
    BY DEF Solo
  <2>1. \A t \in Requests : ~Running(t)
    BY <1>13
  <2>2. \A t \in Requests \ {r} : pc'[t] = pc[t]
    BY <1>1, <1>3 DEF TypeInv
  <2>3. \A t \in Requests \ {r} : pc'[t] \notin Steps
    BY <2>1, <2>2, Zenon DEF Running, Steps, Refusals
  <2>4. pc'[r] = "clear"
    BY <1>11, <1>12
  <2>5. Fields(pc'[r], ask'[r], cand'[r], words'[r], len', ptr', maxUSD')
    BY <1>13, <2>4 DEF Fields
  <2> QED BY <2>3, <2>5, Zenon
<1> QED BY <1>14, <1>15, <1>16

\* The two words of the preferred worker, in either order.
LEMMA StoreWordKeeps ==
  ASSUME IInv, NEW r \in Requests, Rank(r), NEW value, NEW next, StoreWord(r, value, next),
         \/ /\ pc[r] = "clear" /\ value = Nil
            /\ next = IF ask[r].key = 0 THEN "prices" ELSE "prefer"
         \/ /\ pc[r] = "prefer" /\ value = Preferred(ask[r], cand[r]) /\ next = "reread"
  PROVE  TypeInv' /\ Own(r)' /\ Solo(r)'
<1>1. TypeInv /\ Own(r) /\ Solo(r)
  BY DEF IInv
<1>2. PICK word \in words[r] :
        /\ len' = IF word = "len" THEN (IF value = Nil THEN 0 ELSE 1) ELSE len
        /\ ptr' = IF word = "ptr" THEN value ELSE ptr
        /\ words' = [words EXCEPT ![r] = IF words[r] = {word} THEN {"len", "ptr"} ELSE @ \ {word}]
        /\ pc' = [pc EXCEPT ![r] = IF words[r] = {word} THEN next ELSE @]
  BY Zenon DEF StoreWord
<1>3. /\ ask' = ask /\ rows' = rows /\ cand' = cand /\ total' = total /\ out' = out
      /\ got' = got /\ maxUSD' = maxUSD /\ alone' = alone
  BY DEF StoreWord
<1>4. words[r] \in SUBSET {"len", "ptr"} /\ word \in {"len", "ptr"}
  BY <1>1, <1>2 DEF TypeInv
<1>5. /\ words'[r] = IF words[r] = {word} THEN {"len", "ptr"} ELSE words[r] \ {word}
      /\ pc'[r] = IF words[r] = {word} THEN next ELSE pc[r]
  BY <1>1, <1>2, Zenon DEF TypeInv
<1>6. pc[r] \in Steps /\ next \in {"prices", "prefer", "reread"}
  BY DEF Steps
<1>7. pc'[r] \in {"clear", "prices", "prefer", "reread"}
  BY <1>5, <1>6, Zenon
<1>8. TypeInv'
  <2>1. pc'[r] \in Steps
    BY <1>7, Zenon DEF Steps
  <2>2. pc' \in [Requests -> Steps \cup Refusals \cup {"idle", "done", "panic"}]
    BY <1>1, <1>2, <1>5, <2>1 DEF TypeInv
  <2>3. words'[r] \in SUBSET {"len", "ptr"}
    BY <1>4, <1>5, Zenon
  <2>4. words' \in [Requests -> SUBSET {"len", "ptr"}]
    BY <1>1, <1>2, <1>5, <2>3, Zenon DEF TypeInv
  <2> QED BY <1>1, <1>3, <2>2, <2>4, Zenon DEF TypeInv
<1>9. Own(r)'
  <2>1. Outcome(r, pc[r], ask[r], rows[r], cand[r])
    BY <1>1, Zenon DEF Own
  <2>2. pc'[r] \in Steps \cup {"done", "panic"}
    BY <1>7 DEF Steps
  <2>3. Outcome(r, pc'[r], ask[r], rows[r], cand[r])
    BY <1>6, <2>1, <2>2, OutcomeStays, Zenon
  <2>4. total[r] = <<>>
    BY <1>1, Zenon DEF Own, Progress
  <2>5. Progress(pc'[r], ask[r], cand[r], total[r], out[r], alone[r])
    BY <1>7, <2>4, Zenon DEF Progress
  <2> QED BY <1>3, <2>3, <2>5, Zenon DEF Own
<1>10. ASSUME alone[r]
       PROVE  Fields(pc'[r], ask[r], cand[r], words'[r], len', ptr', maxUSD)
  <2>1. Fields(pc[r], ask[r], cand[r], words[r], len, ptr, maxUSD)
    BY <1>1, <1>6, <1>10, Zenon DEF Solo
  <2>2. ask[r].key = 0 => Preferred(ask[r], cand[r]) = Nil
    BY Zenon DEF Preferred
  <2> DEFINE P == Preferred(ask[r], cand[r])
  <2>3. CASE pc[r] = "clear" /\ words[r] = {word}
    <3>1. len' = 0 /\ ptr' = Nil
      BY <1>2, <1>4, <2>1, <2>3, Zenon DEF Fields
    <3> QED BY <1>5, <2>2, <2>3, <3>1, Zenon DEF Fields
  <2>4. CASE pc[r] = "prefer" /\ words[r] = {word}
    <3>1. len' = (IF P = Nil THEN 0 ELSE 1) /\ ptr' = P
      BY <1>2, <1>4, <2>1, <2>4, Zenon DEF Fields
    <3> QED BY <1>5, <2>4, <3>1, Zenon DEF Fields
  <2>5. CASE words[r] # {word}
    <3>1. pc'[r] = pc[r] /\ \A x \in {"len", "ptr"} : x \notin words'[r] => x = word \/ x \notin words[r]
      BY <1>5, <2>5, Zenon
    <3>2. CASE pc[r] = "clear"
      <4>1. ("len" \notin words'[r] => len' = 0) /\ ("ptr" \notin words'[r] => ptr' = Nil)
        BY <1>2, <2>1, <3>1, <3>2, Zenon DEF Fields
      <4> QED BY <3>1, <3>2, <4>1, Zenon DEF Fields
    <3>3. CASE pc[r] = "prefer"
      <4>1. /\ "len" \notin words'[r] => len' = (IF P = Nil THEN 0 ELSE 1)
            /\ "ptr" \notin words'[r] => ptr' = P
        BY <1>2, <2>1, <3>1, <3>3, Zenon DEF Fields
      <4> QED BY <3>1, <3>3, <4>1, Zenon DEF Fields
    <3> QED BY <3>2, <3>3, Zenon
  <2> QED BY <2>3, <2>4, <2>5, Zenon
<1>11. Solo(r)'
  BY <1>3, <1>6, <1>10, SoloStays, Zenon
<1> QED BY <1>8, <1>9, <1>11

\* The reread of the preferred worker for the metrics.
LEMMA RereadKeeps ==
  ASSUME IInv, NEW r \in Requests, Rank(r), Reread(r)
  PROVE  TypeInv' /\ Own(r)' /\ Solo(r)'
<1>1. TypeInv /\ Own(r) /\ Solo(r)
  BY DEF IInv
<1>2. /\ pc[r] = "reread" /\ pc'[r] = "prices"
      /\ ask' = ask /\ rows' = rows /\ cand' = cand /\ total' = total /\ out' = out
      /\ words' = words /\ len' = len /\ ptr' = ptr /\ maxUSD' = maxUSD /\ alone' = alone
  BY <1>1 DEF Reread, TypeInv
<1>3. TypeInv'
  BY <1>1 DEF TypeInv, Reread, Steps
<1>4. Own(r)'
  <2>1. Outcome(r, pc'[r], ask[r], rows[r], cand[r])
    BY <1>1, <1>2, OutcomeStays, Zenon DEF Own, Steps
  <2>2. Progress(pc'[r], ask[r], cand[r], total[r], out[r], alone[r])
    BY <1>1, <1>2, Zenon DEF Own, Progress
  <2> QED BY <1>2, <2>1, <2>2, Zenon DEF Own
<1>5. pc[r] \in Steps
  BY <1>2, Zenon DEF Steps
<1>6. alone[r] => Fields(pc'[r], ask[r], cand[r], words[r], len, ptr, maxUSD)
  BY <1>1, <1>2, <1>5, Zenon DEF Solo, Fields
<1>7. Solo(r)'
  BY <1>2, <1>5, <1>6, SoloStays, Zenon
<1> QED BY <1>3, <1>4, <1>7

\* CostScorer.Prepare.
LEMMA PricesKeeps ==
  ASSUME IInv, NEW r \in Requests, Rank(r), Prices(r), Scorable(r)
  PROVE  TypeInv' /\ Own(r)' /\ Solo(r)'
<1>1. TypeInv /\ Own(r) /\ Solo(r)
  BY DEF IInv
<1>2. /\ pc[r] = "prices" /\ pc'[r] = "affinity" /\ maxUSD' = MaxCost(cand[r])
      /\ ask' = ask /\ rows' = rows /\ cand' = cand /\ total' = total /\ out' = out
      /\ words' = words /\ len' = len /\ ptr' = ptr /\ alone' = alone
  BY <1>1 DEF Prices, TypeInv
<1>3. pc[r] \in Steps /\ pc'[r] \in Steps /\ pc[r] \notin {"idle", "no snapshot"}
  BY <1>2 DEF Steps
<1>4. Sized(cand[r]) /\ cand[r] # <<>>
  BY <1>1, <1>3, Zenon DEF Scorable, Own, Outcome
<1>5. MaxCost(cand[r]) \in Int
  BY <1>3, Zenon DEF Scorable
<1>6. Len(cand[r]) \in Nat \ {0}
  BY <1>4, Zenon DEF Sized
<1>7. TypeInv'
  BY <1>1, <1>2, <1>5, Zenon DEF TypeInv, Prices, Steps
<1>8. Own(r)'
  <2>1. Outcome(r, pc'[r], ask[r], rows[r], cand[r])
    BY <1>1, <1>2, <1>3, OutcomeStays, Zenon DEF Own
  <2>2. total[r] = <<>>
    BY <1>1, <1>2, ZenonT(30) DEF Own, Progress
  <2>3. Progress("affinity", ask[r], cand[r], <<>>, out[r], alone[r])
    BY <1>6 DEF Progress
  <2> QED BY <1>2, <2>1, <2>2, <2>3, Zenon DEF Own
<1>9. alone[r] => Fields(pc'[r], ask[r], cand[r], words[r], len, ptr, maxUSD')
  BY <1>1, <1>2, <1>3, Zenon DEF Solo, Fields
<1>10. Solo(r)'
  BY <1>2, <1>3, <1>9, SoloStays, Zenon
<1> QED BY <1>7, <1>8, <1>10

\* The scores grow by one candidate, first without its price, then with it.
LEMMA OneMoreScore ==
  ASSUME NEW q, NEW in, NEW t \in Seq(Int), NEW o, NEW al, Len(in) \in Nat,
         Progress("affinity", q, in, t, o, al),
         NEW x \in Int, Half(q, in, Len(t) + 1, x, al)
  PROVE  Append(t, x) \in Seq(Int) /\ Progress("cost", q, in, Append(t, x), o, al)
<1> DEFINE n == Len(t)
           u == Append(t, x)
<1>1. n \in Nat /\ u \in Seq(Int) /\ Len(u) = n + 1 /\ u[n + 1] = x
  OBVIOUS
<1>2. \A k \in 1..n : u[k] = t[k]
  OBVIOUS
<1>3. n < Len(in) /\ \A k \in 1..n : Score(q, in, k, t[k], al)
  BY DEF Progress
<1>4. Half(q, in, n + 1, x, al)
  OBVIOUS
<1> HIDE DEF n, u
<1>5. Len(u) \in 1..Len(in) /\ Len(u) - 1 = n
  BY <1>1, <1>3
<1>6. \A k \in 1..(Len(u) - 1) : Score(q, in, k, u[k], al)
  BY <1>2, <1>3, <1>5, Zenon
<1>7. Half(q, in, Len(u), u[Len(u)], al)
  BY <1>1, <1>4
<1>8. Progress("cost", q, in, u, o, al)
  BY <1>5, <1>6, <1>7 DEF Progress
<1> QED BY <1>1, <1>8 DEF u

LEMMA OneMorePrice ==
  ASSUME NEW q, NEW in, NEW t \in Seq(Int), NEW o, NEW al, Len(in) \in Nat,
         Progress("cost", q, in, t, o, al),
         NEW c \in 0..One, al => c = CostScore(MaxCost(in), in[Len(t)]),
         NEW u, u = [t EXCEPT ![Len(t)] = t[Len(t)] + Weight.cost * c]
  PROVE  /\ u \in Seq(Int)
         /\ Progress(IF Len(t) = Len(in) THEN "sort" ELSE "affinity", q, in, u, o, al)
<1> DEFINE n == Len(t)
<1>1. n \in 1..Len(in)
  BY DEF Progress
<1>2. t[n] \in Int /\ n \in Nat /\ DOMAIN t = 1..n
  BY <1>1
<1>3. Weight.cost * c \in Int
  BY WeightsAre DEF One
<1>4. /\ u[n] = t[n] + Weight.cost * c /\ \A k \in 1..(n - 1) : u[k] = t[k]
      /\ u \in Seq(Int) /\ Len(u) = n
  <2> DEFINE y == t[n] + Weight.cost * c
  <2>1. y \in Int /\ u = [t EXCEPT ![n] = y] /\ n \in 1..n /\ \A k \in 1..n : t[k] \in Int
    BY <1>1, <1>2, <1>3
  <2> HIDE DEF y, n
  <2>2. DOMAIN u = 1..n /\ u[n] = y /\ \A k \in 1..n : k # n => u[k] = t[k]
    BY <1>2, <2>1
  <2>3. u \in [1..n -> Int]
    BY <1>2, <2>1, <2>2
  <2>4. u \in Seq(Int) /\ Len(u) = n
    BY <1>2, <2>3
  <2> QED BY <1>2, <2>2, <2>4 DEF y
<1>5. (\A k \in 1..(n - 1) : Score(q, in, k, t[k], al)) /\ Half(q, in, n, t[n], al)
  BY DEF Progress
<1> HIDE DEF n
<1>6. Score(q, in, n, u[n], al)
  <2>1. PICK a \in {0, One} : /\ t[n] = OwnScore(q, in[n]) + Weight.affinity * a
                              /\ al => a = AffinityScore(Preferred(q, in), in[n])
    BY <1>5 DEF Half
  <2>2. u[n] = OwnScore(q, in[n]) + Weight.affinity * a + Weight.cost * c
    BY <1>4, <2>1
  <2> QED BY <2>1, <2>2 DEF Score, n
<1>7. \A k \in 1..n : Score(q, in, k, u[k], al)
  <2> SUFFICES ASSUME NEW k \in 1..n PROVE Score(q, in, k, u[k], al)
    OBVIOUS
  <2>1. CASE k = n
    BY <1>6, <2>1
  <2>2. CASE k # n
    BY <1>2, <1>4, <1>5, <2>2
  <2> QED BY <2>1, <2>2
<1>8. CASE n = Len(in)
  BY <1>4, <1>7, <1>8 DEF Progress, n
<1>9. CASE n # Len(in)
  <2>1. n < Len(in)
    BY <1>1, <1>9
  <2> QED BY <1>4, <1>7, <1>9, <2>1, Zenon DEF Progress, n
<1> QED BY <1>8, <1>9

\* The scores that need no price.
LEMMA ScoreAffinityKeeps ==
  ASSUME IInv, NEW r \in Requests, Rank(r), ScoreAffinity(r), Scorable(r)
  PROVE  TypeInv' /\ Own(r)' /\ Solo(r)'
<1> DEFINE q == ask[r]
           in == cand[r]
           t == total[r]
           c == in[Len(t) + 1]
           x == OwnScore(q, c) + Weight.affinity * AffinityScore(Seen, c)
<1>1. TypeInv /\ Own(r) /\ Solo(r)
  BY DEF IInv
<1>2. /\ pc[r] = "affinity"
      /\ ask' = ask /\ rows' = rows /\ cand' = cand /\ out' = out /\ got' = got
      /\ words' = words /\ len' = len /\ ptr' = ptr /\ maxUSD' = maxUSD /\ alone' = alone
      /\ IF Torn
         THEN pc' = [pc EXCEPT ![r] = "panic"] /\ total' = total
         ELSE total' = [total EXCEPT ![r] = Append(t, x)] /\ pc' = [pc EXCEPT ![r] = "cost"]
  BY DEF ScoreAffinity
<1>3. pc[r] \in Steps /\ pc[r] \notin {"idle", "no snapshot"}
  BY <1>2 DEF Steps
<1>4. Sized(in) /\ \A k \in 1..Len(in) : OwnScore(q, in[k]) \in Int
  BY <1>3, Zenon DEF Scorable
<1>5. /\ t \in Seq(Int) /\ Outcome(r, pc[r], q, rows[r], in)
      /\ Progress("affinity", q, in, t, out[r], alone[r])
  BY <1>1, <1>2, Zenon DEF TypeInv, Own
<1>6. alone[r] => len = (IF Preferred(q, in) = Nil THEN 0 ELSE 1) /\ ptr = Preferred(q, in)
                  /\ maxUSD = MaxCost(in)
  BY <1>1, <1>2, <1>3, Zenon DEF Solo, Fields
<1>7. CASE Torn
  <2>1. pc'[r] = "panic"
    BY <1>1, <1>2, <1>7 DEF TypeInv
  <2>2. TypeInv'
    BY <1>1, <1>2, <1>7, Zenon DEF TypeInv
  <2>3. Outcome(r, "panic", q, rows[r], in)
    BY <1>3, <1>5, OutcomeStays, Zenon
  <2>4. Progress("panic", q, in, t, out[r], alone[r])
    BY Zenon DEF Progress
  <2>5. Own(r)'
    BY <1>2, <1>7, <2>1, <2>3, <2>4, Zenon DEF Own
  <2>6. Solo(r)'
    BY <2>1, Zenon DEF Solo, Steps
  <2> QED BY <2>2, <2>5, <2>6
<1>8. CASE ~Torn
  <2>1. Len(t) \in Nat /\ Len(in) \in Nat /\ Len(t) + 1 \in 1..Len(in)
    <3>1. Len(t) < Len(in)
      BY <1>5, Zenon DEF Progress
    <3>2. Len(t) \in Nat
      BY <1>5
    <3>3. Len(in) \in Nat
      BY <1>4, Zenon DEF Sized
    <3> HIDE DEF t, in
    <3> QED BY <3>1, <3>2, <3>3
  <2>2. AffinityScore(Seen, c) \in {0, One}
    BY DEF AffinityScore
  <2>3. OwnScore(q, c) \in Int
    BY <1>4, <2>1, Zenon
  <2>4. x \in Int
    <3> HIDE DEF c, q
    <3> QED BY <2>2, <2>3, WeightsAre DEF One
  <2>5. alone[r] => Seen = Preferred(q, in)
    BY <1>6 DEF Seen
  <2>6. Half(q, in, Len(t) + 1, x, alone[r])
    BY <2>2, <2>5 DEF Half
  <2>7. Append(t, x) \in Seq(Int) /\ Progress("cost", q, in, Append(t, x), out[r], alone[r])
    <3> HIDE DEF q, in, t, x
    <3> QED BY <1>5, <2>1, <2>4, <2>6, OneMoreScore, Zenon
  <2>8. pc'[r] = "cost" /\ total'[r] = Append(t, x)
    BY <1>1, <1>2, <1>8, Zenon DEF TypeInv
  <2>9. TypeInv'
    <3> HIDE DEF x, t
    <3>1. total' \in [Requests -> Seq(Int)]
      BY <1>1, <1>2, <1>8, <2>7, ZenonT(30) DEF TypeInv
    <3>2. pc' \in [Requests -> Steps \cup Refusals \cup {"idle", "done", "panic"}]
      <4>1. "cost" \in Steps
        BY Zenon DEF Steps
      <4> QED BY <1>1, <1>2, <1>8, <4>1, ZenonT(30) DEF TypeInv
    <3> QED BY <1>1, <1>2, <3>1, <3>2, Zenon DEF TypeInv
  <2>10. Outcome(r, "cost", q, rows[r], in)
    BY <1>3, <1>5, OutcomeStays, Zenon DEF Steps
  <2>11. Own(r)'
    BY <1>2, <2>7, <2>8, <2>10, Zenon DEF Own
  <2>12. alone[r] => Fields("cost", q, in, words[r], len, ptr, maxUSD)
    BY <1>6 DEF Fields
  <2>13. Solo(r)'
    BY <1>2, <1>3, <2>8, <2>12, SoloStays, Zenon
  <2> QED BY <2>9, <2>11, <2>13
<1> QED BY <1>7, <1>8

\* The price of the candidate against the highest one.
LEMMA ScoreCostKeeps ==
  ASSUME IInv, NEW r \in Requests, Rank(r), ScoreCost(r), Scorable(r)
  PROVE  TypeInv' /\ Own(r)' /\ Solo(r)'
<1> DEFINE q == ask[r]
           in == cand[r]
           t == total[r]
           n == Len(t)
           c == CostScore(maxUSD, in[n])
           u == [t EXCEPT ![n] = t[n] + Weight.cost * c]
           next == IF n = Len(in) THEN "sort" ELSE "affinity"
<1>1. TypeInv /\ Own(r) /\ Solo(r)
  BY DEF IInv
<1>2. /\ pc[r] = "cost"
      /\ ask' = ask /\ rows' = rows /\ cand' = cand /\ out' = out /\ got' = got
      /\ words' = words /\ len' = len /\ ptr' = ptr /\ maxUSD' = maxUSD /\ alone' = alone
      /\ total' = [total EXCEPT ![r][n] = @ + Weight.cost * c]
      /\ pc' = [pc EXCEPT ![r] = next]
  BY DEF ScoreCost
<1>3. pc[r] \in Steps /\ pc[r] \notin {"idle", "no snapshot"} /\ next \in Steps
  BY <1>2 DEF Steps
<1>4. Sized(in)
  BY <1>3, Zenon DEF Scorable
<1>5. /\ t \in Seq(Int) /\ Outcome(r, pc[r], q, rows[r], in)
      /\ Progress("cost", q, in, t, out[r], alone[r])
  BY <1>1, <1>2, Zenon DEF TypeInv, Own
<1>6. alone[r] => len = (IF Preferred(q, in) = Nil THEN 0 ELSE 1) /\ ptr = Preferred(q, in)
                  /\ maxUSD = MaxCost(in)
  BY <1>1, <1>2, <1>3 DEF Solo, Fields
<1>7. n \in 1..Len(in) /\ Len(in) \in Nat /\ in[n].cost \in Int
  <2>1. n \in 1..Len(in)
    BY <1>5, Zenon DEF Progress
  <2> HIDE DEF n
  <2> QED BY <1>4, <2>1, Zenon DEF Sized
<1>8. c \in 0..One
  <2>1. maxUSD \in Int
    BY <1>1 DEF TypeInv
  <2> QED BY <1>7, <2>1, SharedTerms, Zenon
<1>9. alone[r] => c = CostScore(MaxCost(in), in[n])
  BY <1>6, Zenon
<1>10. u \in Seq(Int) /\ Progress(next, q, in, u, out[r], alone[r])
  <2>1. u = [t EXCEPT ![Len(t)] = t[Len(t)] + Weight.cost * c]
    OBVIOUS
  <2> HIDE DEF q, in, t, c, u
  <2> QED BY <1>5, <1>7, <1>8, <1>9, <2>1, OneMorePrice, Zenon
<1>11. total' = [total EXCEPT ![r] = u]
  BY <1>1, <1>2 DEF TypeInv
<1> HIDE DEF u, next
<1>12. pc'[r] = next /\ total'[r] = u
  BY <1>1, <1>2, <1>11 DEF TypeInv
<1>13. TypeInv'
  <2>1. total' \in [Requests -> Seq(Int)]
    BY <1>1, <1>10, <1>11, Zenon DEF TypeInv
  <2>2. pc' \in [Requests -> Steps \cup Refusals \cup {"idle", "done", "panic"}]
    BY <1>1, <1>2, <1>3, Zenon DEF TypeInv
  <2> QED BY <1>1, <1>2, <2>1, <2>2, Zenon DEF TypeInv
<1>14. Outcome(r, next, q, rows[r], in)
  BY <1>3, <1>5, OutcomeStays, Zenon
<1>15. Own(r)'
  BY <1>2, <1>10, <1>12, <1>14 DEF Own
<1>16. alone[r] => Fields(next, q, in, words[r], len, ptr, maxUSD)
  BY <1>6 DEF Fields, next
<1>17. Solo(r)'
  BY <1>2, <1>3, <1>12, <1>16, SoloStays
<1> QED BY <1>13, <1>15, <1>17

\* The sort and the cut.
LEMMA SortKeeps ==
  ASSUME IInv, NEW r \in Requests, Rank(r), Sort(r)
  PROVE  TypeInv' /\ Own(r)' /\ Solo(r)'
<1>1. TypeInv /\ Own(r) /\ Solo(r)
  BY DEF IInv
<1>2. /\ pc[r] = "sort"
      /\ ask' = ask /\ rows' = rows /\ cand' = cand /\ total' = total /\ got' = got
      /\ words' = words /\ len' = len /\ ptr' = ptr /\ maxUSD' = maxUSD /\ alone' = alone
      /\ IF got[r] = -1
         THEN pc' = [pc EXCEPT ![r] = "panic"] /\ out' = out
         ELSE /\ out' = [out EXCEPT ![r] = Cut(Sorted(cand[r], total[r]))]
              /\ pc' = [pc EXCEPT ![r] = "done"]
  BY Zenon DEF Sort, Cut
<1>3. pc'[r] \in {"done", "panic"} /\ (pc'[r] = "done" => out'[r] = Cut(Sorted(cand[r], total[r])))
  BY <1>1, <1>2 DEF TypeInv
<1>4. TypeInv'
  BY <1>1, <1>2, Zenon DEF TypeInv
<1>5. pc[r] \in Steps /\ pc'[r] \in Steps \cup {"done", "panic"} /\ pc'[r] \notin Steps
  BY <1>2, <1>3 DEF Steps
<1>6. Outcome(r, pc'[r], ask[r], rows[r], cand[r])
  BY <1>1, <1>5, OutcomeStays, Zenon DEF Own
<1>7. Progress(pc'[r], ask[r], cand[r], total[r], out'[r], alone[r])
  BY <1>1, <1>2, <1>3, Zenon DEF Own, Progress
<1>8. Own(r)'
  BY <1>2, <1>6, <1>7, Zenon DEF Own
<1>9. Solo(r)'
  BY <1>5 DEF Solo
<1> QED BY <1>4, <1>8, <1>9

\* Initially no request has begun.
LEMMA InitIInv ==
  ASSUME Init
  PROVE  IInv
<1>1. TypeInv
  BY DEF Init, TypeInv
<1>2. \A r \in Requests : pc[r] = "idle" /\ total[r] = <<>>
  BY DEF Init
<1>3. \A r \in Requests : Own(r)
  BY <1>2, Zenon DEF Own, Outcome, Progress
<1>4. \A r \in Requests : Solo(r)
  BY <1>2 DEF Solo, Steps
<1> QED BY <1>1, <1>3, <1>4 DEF IInv

LEMMA NextIInv ==
  ASSUME IInv, [Next]_vars, \A r \in Requests : Scorable(r)
  PROVE  IInv'
<1>1. CASE UNCHANGED vars
  BY <1>1, Zenon DEF vars, IInv, TypeInv, Own, Solo
<1>2. ASSUME NEW r \in Requests, Rank(r) PROVE IInv'
  <2>1. TypeInv' /\ Own(r)' /\ Solo(r)'
    <3>1. CASE NoSnapshot(r)
      BY <3>1, NoSnapshotKeeps
    <3>2. CASE Begin(r)
      BY <3>2, BeginKeeps
    <3>3. CASE Clear(r)
      BY <1>2, <3>3, StoreWordKeeps DEF Clear
    <3>4. CASE Prefer(r)
      BY <1>2, <3>4, StoreWordKeeps DEF Prefer
    <3>5. CASE Reread(r)
      BY <1>2, <3>5, RereadKeeps
    <3>6. CASE Prices(r)
      BY <1>2, <3>6, PricesKeeps
    <3>7. CASE ScoreAffinity(r)
      BY <1>2, <3>7, ScoreAffinityKeeps
    <3>8. CASE ScoreCost(r)
      BY <1>2, <3>8, ScoreCostKeeps
    <3>9. CASE Sort(r)
      BY <1>2, <3>9, SortKeeps
    <3> QED BY <1>2, <3>1, <3>2, <3>3, <3>4, <3>5, <3>6, <3>7, <3>8, <3>9 DEF Rank
  <2>2. alone' \in [Requests -> BOOLEAN]
    BY <2>1 DEF TypeInv
  <2>3. \A s \in Requests \ {r} : Own(s)' /\ Solo(s)'
    BY <1>2, <2>2, OthersStay
  <2> QED BY <2>1, <2>3 DEF IInv
<1> QED BY <1>1, <1>2 DEF Next

-----------------------------------------------------------------------------
\* in has one candidate for each worker of W, merged from its rows of snap.
Offers(in, snap, W) ==
  /\ \E m \in Nat : in \in [1..m -> {Merge(snap, w) : w \in W}]
  /\ \A i \in DOMAIN in : in[i].id \in W /\ in[i] = Merge(snap, in[i].id)
  /\ \A w \in W : \E i \in DOMAIN in : in[i].id = w
  /\ \A i, j \in DOMAIN in : i # j => in[i].id # in[j].id

\* The workers a ranking can have, and the candidates before the filters.
Free(r) == {w \in Allowed(r) : Serving(r, w) /\ ~Full(r, w)}

Assigned(r) == filterByWorkerIDs(CandidatesFromSnapshot(rows[r]), ask[r])

\* all lists W by the scores t of the candidates in: a worker with a higher
\* score, or with the same score and a smaller id, is before the other.
Better(in, t, i, j) == t[i] > t[j] \/ (t[i] = t[j] /\ in[i].id < in[j].id)

Sorts(all, W, in, t) ==
  LET n == Cardinality(W)
  IN  /\ IsFiniteSet(W) /\ all \in [1..n -> W]
      /\ \A a, b \in 1..n : a # b => all[a] # all[b]
      /\ \A w \in W : \E a \in 1..n : all[a] = w
      /\ \A i, j \in DOMAIN in, a, b \in 1..n :
           all[a] = in[i].id /\ all[b] = in[j].id /\ Better(in, t, i, j) => a < b

\* A ranking that is returned lists the workers by their scores and is cut.
Ranked(r, all) ==
  Sorts(all, Free(r), cand[r], total[r]) /\ IsCut(out[r], all, Cardinality(Free(r)))

\* What the filters and the sort return for a request that has begun.  It
\* follows from what the request decided, by the lemma OwnIsSettled.
Settled(r) ==
  pc[r] \notin {"idle", "no snapshot"} =>
    /\ Offers(Assigned(r), rows[r], Allowed(r)) /\ Offers(cand[r], rows[r], Free(r))
    /\ (\E i \in DOMAIN Assigned(r) : Suits(ask[r], Assigned(r)[i]))
         <=> \E w \in Allowed(r) : Serving(r, w)
    /\ DOMAIN cand[r] = 1..Len(cand[r])
    /\ \A k \in DOMAIN cand[r] : OwnScore(ask[r], cand[r][k]) \in Int
    /\ pc[r] = "done" => Cardinality(Free(r)) \in Nat /\ \E all : Ranked(r, all)

\* The identifiers of the candidates are the workers offered.
LEMMA OfferedIds ==
  ASSUME NEW in, NEW snap, NEW W, Offers(in, snap, W)
  PROVE  W = {in[i].id : i \in DOMAIN in}
<1>1. /\ \A i \in DOMAIN in : in[i].id \in W
      /\ \A w \in W : \E i \in DOMAIN in : in[i].id = w
  BY Zenon DEF Offers
<1> QED BY <1>1

\* A worker with a better score comes before another in a ranking.
LEMMA BetterIsBefore ==
  ASSUME NEW r \in Requests, Settled(r), pc[r] = "done",
         NEW i \in DOMAIN cand[r], NEW j \in DOMAIN cand[r],
         Better(cand[r], total[r], i, j)
  PROVE  Before(r, cand[r][i].id, cand[r][j].id)
<1> DEFINE n == Cardinality(Free(r))
           k == Min({MaxAttempts, n})
           v == cand[r][i].id
           w == cand[r][j].id
<1>1. n \in Nat /\ v \in Free(r) /\ \E all : Ranked(r, all)
  BY Zenon DEF Settled, Offers
<1>2. PICK all : Ranked(r, all)
  BY <1>1, Zenon
<1>3. /\ \A a, b \in 1..n : all[a] = v /\ all[b] = w => a < b
      /\ \A x \in Free(r) : \E a \in 1..n : all[a] = x
      /\ k \in 0..n /\ out[r] = [a \in 1..k |-> all[a]]
  BY <1>2, Zenon DEF Ranked, Sorts, IsCut
<1> HIDE DEF n, k, v, w
<1>4. PICK a \in 1..n : all[a] = v
  BY <1>1, <1>3, Zenon
<1>5. DOMAIN out[r] = 1..k /\ \A b \in 1..k : out[r][b] = all[b]
  BY <1>3, Zenon
<1>6. ASSUME NEW b \in DOMAIN out[r], out[r][b] = w
      PROVE  \E c \in 1..(b - 1) : out[r][c] = v
  <2>1. b \in 1..n /\ b \in 1..k
    BY <1>1, <1>3, <1>5
  <2>2. a < b
    BY <1>3, <1>4, <1>5, <1>6, <2>1, Zenon
  <2>3. a \in 1..k /\ a \in 1..(b - 1)
    BY <1>1, <1>3, <1>4, <2>1, <2>2
  <2> QED BY <1>4, <1>5, <2>3, Zenon
<1> QED BY <1>6, Zenon DEF Before, v, w

\* A list of candidates is empty when there is no worker for it.
LEMMA NoOffers ==
  ASSUME NEW in, NEW snap, NEW W, Offers(in, snap, W)
  PROVE  in = <<>> <=> W = {}
<1>1. PICK n \in Nat : in \in [1..n -> {Merge(snap, w) : w \in W}]
  BY Zenon DEF Offers
<1>2. in = <<>> <=> DOMAIN in = {}
  BY <1>1
<1>3. DOMAIN in = {} <=> W = {}
  BY Zenon DEF Offers
<1> QED BY <1>2, <1>3

\* RankIsComplete follows from what each request has decided.
LEMMA RankFollows ==
  ASSUME IInv, \A r \in Requests : Settled(r)
  PROVE  RankIsComplete
<1> SUFFICES ASSUME NEW r \in Requests
             PROVE  LET serving == {w \in Allowed(r) : Serving(r, w)}
                        free == {w \in serving : ~Full(r, w)}
                    IN  /\ pc[r] = "done" => /\ Range(out[r]) \subseteq free
                                             /\ IsInjective(out[r])
                                             /\ Len(out[r]) = Min({MaxAttempts, Cardinality(free)})
                        /\ pc[r] = "no live assignee" => Allowed(r) = {}
                        /\ pc[r] = "no capacity" => serving = {} /\ (ask[r].any \/ Allowed(r) # {})
                        /\ pc[r] = "admission rejected" => serving # {} /\ free = {}
  BY Zenon DEF RankIsComplete
<1> DEFINE serving == {w \in Allowed(r) : Serving(r, w)}
           free == {w \in serving : ~Full(r, w)}
<1>1. Own(r) /\ Settled(r)
  BY DEF IInv
<1>2. free = Free(r)
  BY DEF Free
<1>3. ASSUME pc[r] = "done"
      PROVE  /\ Range(out[r]) \subseteq Free(r) /\ IsInjective(out[r])
             /\ Len(out[r]) = Min({MaxAttempts, Cardinality(Free(r))})
  <2> DEFINE n == Cardinality(Free(r))
             k == Min({MaxAttempts, n})
  <2>1. n \in Nat /\ \E all : Ranked(r, all)
    BY <1>1, <1>3, Zenon DEF Settled
  <2>2. PICK all : Ranked(r, all)
    BY <2>1, Zenon
  <2>3. /\ all \in [1..n -> Free(r)] /\ \A a, b \in 1..n : a # b => all[a] # all[b]
        /\ k \in 0..n /\ out[r] = [a \in 1..k |-> all[a]] /\ Len(out[r]) = k
    BY <2>2, Zenon DEF Ranked, Sorts, IsCut
  <2> HIDE DEF n, k
  <2>4. DOMAIN out[r] = 1..k /\ \A a \in 1..k : a \in 1..n /\ out[r][a] = all[a]
    BY <2>1, <2>3
  <2>5. Range(out[r]) \subseteq Free(r)
    BY <2>3, <2>4 DEF Range
  <2>6. IsInjective(out[r])
    BY <2>3, <2>4 DEF IsInjective
  <2> QED BY <2>3, <2>5, <2>6, Zenon DEF n, k
<1>4. ASSUME pc[r] \in {"no live assignee", "no capacity", "admission rejected"}
      PROVE  /\ Assigned(r) = <<>> <=> Allowed(r) = {}
             /\ cand[r] = <<>> <=> Free(r) = {}
             /\ (\E i \in DOMAIN Assigned(r) : Suits(ask[r], Assigned(r)[i])) <=> serving # {}
             /\ pc[r] = "no live assignee" => Assigned(r) = <<>>
             /\ pc[r] = "no capacity" => ask[r].any \/ Assigned(r) # <<>>
             /\ pc[r] # "no live assignee" =>
                  cand[r] = <<>> /\ pc[r] = FilterError(ask[r], Assigned(r))
  <2>1. pc[r] \notin {"idle", "no snapshot"}
    BY <1>4, Zenon
  <2>2. /\ Assigned(r) = <<>> <=> Allowed(r) = {}
        /\ cand[r] = <<>> <=> Free(r) = {}
    BY <1>1, <2>1, NoOffers, Zenon DEF Settled
  <2>3. /\ pc[r] = "no live assignee" => Assigned(r) = <<>>
        /\ pc[r] = "no capacity" => ask[r].any \/ Assigned(r) # <<>>
        /\ pc[r] # "no live assignee" =>
             cand[r] = <<>> /\ pc[r] = FilterError(ask[r], Assigned(r))
    BY <1>1, <1>4, <2>1, Zenon DEF Own, Outcome, Assigned
  <2>4. (\E i \in DOMAIN Assigned(r) : Suits(ask[r], Assigned(r)[i])) <=> serving # {}
    BY <1>1, <2>1, Zenon DEF Settled
  <2> QED BY <2>2, <2>3, <2>4, Zenon
<1>5. CASE pc[r] = "no live assignee"
  BY <1>4, <1>5, Zenon
<1>6. CASE pc[r] = "no capacity"
  <2>1. ~\E i \in DOMAIN Assigned(r) : Suits(ask[r], Assigned(r)[i])
    BY <1>4, <1>6, Zenon DEF FilterError
  <2> QED BY <1>4, <1>6, <2>1, Zenon
<1>7. CASE pc[r] = "admission rejected"
  <2>1. \E i \in DOMAIN Assigned(r) : Suits(ask[r], Assigned(r)[i])
    BY <1>4, <1>7, Zenon DEF FilterError
  <2> QED BY <1>2, <1>4, <1>7, <2>1, Zenon
<1>8. CASE pc[r] = "done"
  BY <1>2, <1>3, <1>8, Zenon
<1> QED BY <1>5, <1>6, <1>7, <1>8, Zenon

\* The score of each candidate of a ranking.
LEMMA ScoresAre ==
  ASSUME NEW r \in Requests, Own(r), Settled(r), pc[r] = "done", NEW k \in DOMAIN cand[r]
  PROVE  /\ OwnScore(ask[r], cand[r][k]) \in Int
         /\ Score(ask[r], cand[r], k, total[r][k], alone[r])
<1>1. DOMAIN cand[r] = 1..Len(cand[r]) /\ OwnScore(ask[r], cand[r][k]) \in Int
  BY Zenon DEF Settled
<1>2. Score(ask[r], cand[r], k, total[r][k], alone[r])
  BY <1>1, Zenon DEF Own, Progress
<1> QED BY <1>1, <1>2

\* RaceIsBounded follows from the range of the two terms.
LEMMA RaceFollows ==
  ASSUME IInv, \A r \in Requests : Settled(r)
  PROVE  RaceIsBounded
<1> SUFFICES ASSUME NEW r \in Requests, pc[r] = "done",
                    NEW i \in DOMAIN cand[r], NEW j \in DOMAIN cand[r],
                    OwnScore(ask[r], cand[r][i])
                      > OwnScore(ask[r], cand[r][j]) + (Weight.affinity + Weight.cost) * One
             PROVE  Before(r, cand[r][i].id, cand[r][j].id)
  BY DEF RaceIsBounded
<1>1. Own(r) /\ Settled(r)
  BY DEF IInv
<1> DEFINE u == OwnScore(ask[r], cand[r][i])
           v == OwnScore(ask[r], cand[r][j])
           A == Weight.affinity
           C == Weight.cost
<1>2. A \in Nat /\ C \in Nat
  BY WeightsAre
<1>3. u \in Int /\ v \in Int
  BY <1>1, ScoresAre
<1>4. PICK a \in {0, One}, c \in 0..One : total[r][i] = u + A * a + C * c
  BY <1>1, ScoresAre, ZenonT(30) DEF Score
<1>5. PICK b \in {0, One}, d \in 0..One : total[r][j] = v + A * b + C * d
  BY <1>1, ScoresAre, ZenonT(30) DEF Score
<1>6. u > v + (A + C) * One
  BY SMTT(30)
<1> HIDE DEF u, v, A, C
<1>7. a \in 0..One /\ b \in 0..One
  BY DEF One
<1>8. u + A * a + C * c > v + A * b + C * d
  BY <1>2, <1>3, <1>6, <1>7, LeadStays
<1>9. total[r][i] > total[r][j]
  BY <1>4, <1>5, <1>8, ZenonT(30)
<1> QED BY <1>1, <1>9, BetterIsBefore, ZenonT(30) DEF Better

\* AloneIsExact follows from the exact terms of a request on its own.
LEMMA AloneFollows ==
  ASSUME IInv, \A r \in Requests : Settled(r)
  PROVE  AloneIsExact
<1> SUFFICES ASSUME NEW r \in Requests, pc[r] = "done", alone[r],
                    NEW i \in DOMAIN cand[r], NEW j \in DOMAIN cand[r],
                    \/ Exact(r, cand[r][i]) > Exact(r, cand[r][j])
                    \/ /\ Exact(r, cand[r][i]) = Exact(r, cand[r][j])
                       /\ cand[r][i].id < cand[r][j].id
             PROVE  Before(r, cand[r][i].id, cand[r][j].id)
  BY DEF AloneIsExact
<1>1. Own(r) /\ Settled(r)
  BY DEF IInv
<1>2. \A k \in DOMAIN cand[r] : total[r][k] = Exact(r, cand[r][k])
  BY <1>1, ScoresAre, Zenon DEF Score, Exact
<1>3. Better(cand[r], total[r], i, j)
  BY <1>2 DEF Better
<1> QED BY <1>1, <1>3, BetterIsBefore, SMTT(30)

-----------------------------------------------------------------------------
\* R orders the elements of S one after the other.
Orders(R, S) ==
  /\ \A x \in S : <<x, x>> \notin R
  /\ \A x, y, z \in S : <<x, y>> \in R /\ <<y, z>> \in R => <<x, z>> \in R
  /\ \A x, y \in S : x = y \/ <<x, y>> \in R \/ <<y, x>> \in R

\* s lists S in the order R.
Lists(s, S, R) ==
  /\ s \in [1..Cardinality(S) -> S]
  /\ \A i, j \in 1..Cardinality(S) : i # j => s[i] # s[j]
  /\ \A x \in S : \E i \in 1..Cardinality(S) : s[i] = x
  /\ \A i, j \in 1..Cardinality(S) : i < j => <<s[i], s[j]>> \in R

\* Numbers are ordered by size, upwards and downwards.
LEMMA Ascending ==
  ASSUME NEW S \in SUBSET Int
  PROVE  /\ Orders({x \in S \X S : x[1] < x[2]}, S)
         /\ Orders({x \in S \X S : x[1] > x[2]}, S)
<1> DEFINE U == {x \in S \X S : x[1] < x[2]}
           D == {x \in S \X S : x[1] > x[2]}
<1>1. \A x, y \in S : (<<x, y>> \in U <=> x < y) /\ (<<x, y>> \in D <=> x > y)
  OBVIOUS
<1>2. \A x \in S : x \in Int
  OBVIOUS
<1> HIDE DEF U, D
<1>3. Orders(U, S)
  BY <1>1, <1>2 DEF Orders
<1>4. Orders(D, S)
  BY <1>1, <1>2 DEF Orders
<1> QED BY <1>3, <1>4 DEF U, D

\* What the proofs use of finite sets.  FiniteSetFacts below shows that it
\* holds; until there it is a hypothesis, so that the provers need not carry the
\* theory of finite sets along.
SetFacts ==
  /\ \A n \in Nat : IsFiniteSet(0..n) /\ IsFiniteSet(1..n)
  /\ \A S : \A T \in SUBSET S : IsFiniteSet(S) => IsFiniteSet(T)
  /\ \A S : IsFiniteSet(S) => Cardinality(S) \in Nat
  /\ \A f : IsFiniteSet(DOMAIN f) /\ f = [x \in DOMAIN f |-> f[x]] =>
              IsFiniteSet({f[x] : x \in DOMAIN f})
  /\ \A S \in SUBSET Int : IsFiniteSet(S) /\ S # {} =>
       /\ Max(S) \in S /\ \A y \in S : Max(S) >= y
       /\ Min(S) \in S /\ \A y \in S : Min(S) <= y
  /\ \A S, R : IsFiniteSet(S) /\ Orders(R, S) => Lists(InOrder(S, R), S, R)

\* The largest and the smallest of finitely many numbers.
LEMMA MaxIs ==
  ASSUME SetFacts, NEW S \in SUBSET Int, IsFiniteSet(S), S # {}
  PROVE  /\ Max(S) \in S /\ \A y \in S : Max(S) >= y
         /\ Min(S) \in S /\ \A y \in S : Min(S) <= y
BY Zenon DEF SetFacts

\* What InOrder returns.
LEMMA InOrderLists ==
  ASSUME SetFacts, NEW S, IsFiniteSet(S), NEW R, Orders(R, S)
  PROVE  Lists(InOrder(S, R), S, R)
BY Zenon DEF SetFacts

\* The values of a function on a finite set are finitely many.
LEMMA ImageFinite ==
  ASSUME SetFacts, NEW f, IsFiniteSet(DOMAIN f), f = [x \in DOMAIN f |-> f[x]]
  PROVE  IsFiniteSet({f[x] : x \in DOMAIN f})
BY SMTT(30) DEF SetFacts

\* The number of elements of a finite set.
LEMMA SizeIs ==
  ASSUME SetFacts, NEW S, IsFiniteSet(S)
  PROVE  Cardinality(S) \in Nat
BY Zenon DEF SetFacts

\* Numbers up to a limit are finitely many.
LEMMA UpTo ==
  ASSUME SetFacts, NEW n \in Nat
  PROVE  /\ IsFiniteSet(0..n) /\ IsFiniteSet(1..n)
         /\ \A B \in SUBSET (0..n) : B \in SUBSET Int /\ IsFiniteSet(B)
         /\ \A I \in SUBSET (1..n) : I \in SUBSET Int /\ IsFiniteSet(I)
<1>1. IsFiniteSet(0..n) /\ IsFiniteSet(1..n)
  BY Zenon DEF SetFacts
<1>2. \A B \in SUBSET (0..n) : IsFiniteSet(B)
  BY <1>1, Zenon DEF SetFacts
<1>3. \A I \in SUBSET (1..n) : IsFiniteSet(I)
  BY <1>1, Zenon DEF SetFacts
<1>4. (\A B \in SUBSET (0..n) : B \in SUBSET Int) /\ (\A I \in SUBSET (1..n) : I \in SUBSET Int)
  OBVIOUS
<1> QED BY <1>1, <1>2, <1>3, <1>4

\* The indices of a list are finitely many numbers.
LEMMA Indices ==
  ASSUME SetFacts, NEW m \in Nat, NEW I \in SUBSET (1..m)
  PROVE  I \in SUBSET Int /\ IsFiniteSet(I) /\ Cardinality(I) \in Nat
BY UpTo, SizeIs, Zenon

\* s is what in has at the indices I, each once.
Kept(s, in, I) ==
  \E at \in [1..Cardinality(I) -> I] :
     /\ \A i, j \in 1..Cardinality(I) : i # j => at[i] # at[j]
     /\ \A x \in I : \E i \in 1..Cardinality(I) : at[i] = x
     /\ s = [k \in 1..Cardinality(I) |-> in[at[k]]]

LEMMA KeepIs ==
  ASSUME SetFacts, NEW in, NEW I \in SUBSET Int, IsFiniteSet(I)
  PROVE  Kept(Keep(in, I), in, I)
<1> DEFINE R == {x \in I \X I : x[1] < x[2]}
           at == InOrder(I, R)
<1>1. Lists(at, I, R)
  BY Ascending, InOrderLists, Zenon
<1>2. Keep(in, I) = [k \in DOMAIN at |-> in[at[k]]]
  BY DEF Keep
<1> HIDE DEF at
<1>3. /\ at \in [1..Cardinality(I) -> I]
      /\ \A i, j \in 1..Cardinality(I) : i # j => at[i] # at[j]
      /\ \A x \in I : \E i \in 1..Cardinality(I) : at[i] = x
  BY <1>1 DEF Lists
<1>4. DOMAIN at = 1..Cardinality(I)
  BY <1>3
<1>5. Keep(in, I) = [k \in 1..Cardinality(I) |-> in[at[k]]]
  BY <1>2, <1>4, Zenon
<1> QED BY <1>3, <1>5, Zenon DEF Kept

-----------------------------------------------------------------------------
LEMMA MergeId ==
  ASSUME NEW snap, NEW w PROVE Merge(snap, w).id = w
BY DEF Merge

\* A filter keeps candidates and their order.
LEMMA KeepOffers ==
  ASSUME SetFacts, NEW in, NEW snap, NEW W, Offers(in, snap, W), NEW I \in SUBSET DOMAIN in
  PROVE  Offers(Keep(in, I), snap, {in[i].id : i \in I})
<1>1. PICK m \in Nat : in \in [1..m -> {Merge(snap, w) : w \in W}]
  BY DEF Offers
<1>2. DOMAIN in = 1..m
  BY <1>1
<1>3. I \in SUBSET Int /\ IsFiniteSet(I) /\ Cardinality(I) \in Nat
  BY <1>2, Indices, Zenon
<1> DEFINE n == Cardinality(I)
           V == {in[i].id : i \in I}
           k == Keep(in, I)
<1>a. Kept(k, in, I)
  BY <1>3, KeepIs
<1>4. PICK at \in [1..n -> I] :
        /\ \A i, j \in 1..n : i # j => at[i] # at[j]
        /\ \A x \in I : \E i \in 1..n : at[i] = x
        /\ k = [j \in 1..n |-> in[at[j]]]
  BY <1>a, Zenon DEF Kept
<1>5. \A i \in I : in[i].id \in V /\ in[i] = Merge(snap, in[i].id)
  BY DEF Offers
<1>6. \A v \in V : \E i \in I : v = in[i].id
  OBVIOUS
<1>7. \A i, j \in I : i # j => in[i].id # in[j].id
  BY DEF Offers
<1>8. DOMAIN k = 1..n /\ \A j \in 1..n : at[j] \in I /\ k[j] = in[at[j]]
  BY <1>4
<1>9. k \in [1..n -> {Merge(snap, v) : v \in V}]
  <2>1. \A j \in 1..n : in[at[j]] \in {Merge(snap, v) : v \in V}
    BY <1>5, <1>8
  <2> QED BY <1>4, <2>1
<1> HIDE DEF k, V, n
<1>10. n \in Nat
  BY <1>3 DEF n
<1> SUFFICES Offers(k, snap, V)
  BY DEF k, V
<1>11. \A i \in DOMAIN k : k[i].id \in V /\ k[i] = Merge(snap, k[i].id)
  BY <1>5, <1>8
<1>12. \A v \in V : \E i \in DOMAIN k : k[i].id = v
  BY <1>4, <1>6, <1>8
<1>13. \A i, j \in DOMAIN k : i # j => k[i].id # k[j].id
  BY <1>4, <1>7, <1>8
<1> QED BY <1>9, <1>10, <1>11, <1>12, <1>13 DEF Offers

\* CandidatesFromSnapshot has a candidate for each worker with a row.
LEMMA CandidatesOffers ==
  ASSUME SetFacts, NEW snap \in Seq(Rows)
  PROVE  Offers(CandidatesFromSnapshot(snap), snap, Ids(snap))
<1>1. PICK m \in Nat : snap \in [1..m -> Rows]
  OBVIOUS
<1> DEFINE W == Ids(snap)
           I == {i \in DOMAIN snap : \A j \in 1..(i - 1) : snap[j].id # snap[i].id}
           n == Cardinality(I)
           order == Keep(snap, I)
           k == CandidatesFromSnapshot(snap)
<1>2. DOMAIN snap = 1..m /\ I \in SUBSET (1..m)
  BY <1>1
<1>3. I \in SUBSET Int /\ IsFiniteSet(I) /\ n \in Nat
  BY <1>2, Indices, Zenon
<1>a. Kept(order, snap, I)
  <2> HIDE DEF I
  <2> QED BY <1>3, KeepIs
<1>4. PICK at \in [1..n -> I] :
        /\ \A i, j \in 1..n : i # j => at[i] # at[j]
        /\ \A x \in I : \E i \in 1..n : at[i] = x
        /\ order = [j \in 1..n |-> snap[at[j]]]
  <2> HIDE DEF I
  <2> QED BY <1>a, Zenon DEF Kept
<1>5. k = [j \in DOMAIN order |-> Merge(snap, order[j].id)]
  BY DEF CandidatesFromSnapshot
<1>6. \A i \in I : i \in 1..m /\ snap[i].id \in W
  BY <1>2 DEF Ids
<1>7. \A i, j \in I : i # j => snap[i].id # snap[j].id
  <2> SUFFICES ASSUME NEW i \in I, NEW j \in I, i # j PROVE snap[i].id # snap[j].id
    OBVIOUS
  <2>1. i \in 1..m /\ j \in 1..m
    BY <1>6
  <2>2. CASE i < j
    BY <2>1, <2>2
  <2>3. CASE j < i
    BY <2>1, <2>3
  <2> QED BY <2>1, <2>2, <2>3
<1>8. ASSUME NEW w \in W PROVE \E i \in I : snap[i].id = w
  <2> DEFINE own == {i \in 1..m : snap[i].id = w}
  <2>1. own # {}
    BY <1>2 DEF Ids
  <2>2. own \in SUBSET Int /\ IsFiniteSet(own)
    <3>1. own \in SUBSET (1..m)
      OBVIOUS
    <3> HIDE DEF own
    <3> QED BY <3>1, Indices, Zenon
  <2>3. Min(own) \in own /\ \A y \in own : Min(own) <= y
    BY <2>1, <2>2, MaxIs, Zenon
  <2> DEFINE f == Min(own)
  <2> HIDE DEF f
  <2>4. f \in 1..m /\ snap[f].id = w /\ \A y \in 1..m : snap[y].id = w => f <= y
    BY <2>3 DEF f
  <2>5. \A j \in 1..(f - 1) : j \in 1..m /\ ~(f <= j)
    BY <2>4
  <2> QED BY <1>2, <2>4, <2>5
<1> HIDE DEF I, W, n, order, k
<1>9. DOMAIN k = 1..n /\ \A j \in 1..n : at[j] \in I /\ k[j] = Merge(snap, snap[at[j]].id)
  BY <1>4, <1>5
<1>10. \A j \in 1..n : k[j].id = snap[at[j]].id
  BY <1>9, MergeId
<1>11. k \in [1..n -> {Merge(snap, w) : w \in W}]
  <2>1. \A j \in 1..n : k[j] \in {Merge(snap, w) : w \in W}
    BY <1>6, <1>9
  <2>2. k = [j \in 1..n |-> k[j]]
    BY <1>4, <1>5, <1>9
  <2> QED BY <2>1, <2>2
<1>12. \A i \in DOMAIN k : k[i].id \in W /\ k[i] = Merge(snap, k[i].id)
  BY <1>6, <1>9, <1>10
<1>13. \A w \in W : \E i \in DOMAIN k : k[i].id = w
  BY <1>4, <1>8, <1>9, <1>10
<1>14. \A i, j \in DOMAIN k : i # j => k[i].id # k[j].id
  BY <1>4, <1>7, <1>9, <1>10
<1>15. n \in Nat
  BY <1>3, SMTT(30) DEF n
<1> QED BY <1>11, <1>12, <1>13, <1>14, <1>15 DEF Offers, k, W

-----------------------------------------------------------------------------
\* The rows of a worker, merged, say of it what the rows say.
LEMMA MergeServes ==
  ASSUME SetFacts, NEW r, rows[r] \in Seq(Rows), ask[r].base # "none", NEW w \in Ids(rows[r]), Limit \in Int
  PROVE  /\ Suits(ask[r], Merge(rows[r], w)) <=> Serving(r, w)
         /\ AdmissionFilter(ask[r], Merge(rows[r], w)) <=> ~Full(r, w)
<1> DEFINE snap == rows[r]
           own == RowsOf(snap, w)
           c == Merge(snap, w)
           D == {snap[i].depth : i \in own}
<1>1. PICK m \in Nat : snap \in [1..m -> Rows]
  OBVIOUS
<1>2. /\ DOMAIN snap = 1..m
      /\ \A i \in 1..m : i \in own <=> snap[i].id = w
      /\ own \in SUBSET (1..m) /\ own # {}
  BY <1>1 DEF RowsOf, Ids
<1>3. /\ c.healthy <=> \E i \in own : snap[i].healthy
      /\ c.ready <=> \E i \in own : snap[i].ready
      /\ c.depth = Max(D)
      /\ c.models = {[base |-> snap[i].base, adapter |-> snap[i].adapter] :
                       i \in {j \in own : snap[j].base # "none"}}
  BY Zenon DEF Merge
<1>4. IsFiniteSet(own)
  BY <1>2, Indices, Zenon
<1>5. D \in SUBSET Int /\ D # {} /\ \A i \in own : snap[i].depth \in Int
  <2>1. \A i \in own : i \in 1..m
    BY <1>2
  <2>2. \A i \in own : snap[i] \in Rows
    BY <1>1, <2>1
  <2>3. \A i \in own : snap[i].depth \in Int
    BY <2>2 DEF Rows
  <2> HIDE DEF own
  <2> QED BY <1>2, <2>3, Zenon
<1>6. IsFiniteSet(D)
  <2> DEFINE f == [i \in own |-> snap[i].depth]
  <2>1. D = {f[i] : i \in DOMAIN f} /\ DOMAIN f = own /\ f = [i \in DOMAIN f |-> f[i]]
    BY SMTT(30)
  <2> HIDE DEF f, D, own
  <2> QED BY <1>4, <2>1, ImageFinite
<1>7. c.depth \in D /\ \A d \in D : c.depth >= d
  <2> HIDE DEF c, D
  <2> QED BY <1>3, <1>5, <1>6, MaxIs
<1>8. AdmissionFilter(ask[r], c) <=> ~Full(r, w)
  <2>1. \A i \in own : snap[i].depth <= c.depth
    BY <1>7
  <2>2. \E i \in own : snap[i].depth = c.depth
    BY <1>7
  <2>3. Full(r, w) <=> Limit > 0 /\ \E i \in own : snap[i].depth >= Limit
    BY <1>2, Zenon DEF Full
  <2>4. c.depth \in Int
    BY <1>5, <1>7, SMTT(30)
  <2> HIDE DEF c, own, D
  <2> QED BY <1>5, <2>1, <2>2, <2>3, <2>4 DEF AdmissionFilter
<1>9. Suits(ask[r], c) <=> Serving(r, w)
  <2>1. servesModel(c, ask[r]) <=>
          \E i \in own : /\ snap[i].base = ask[r].base
                         /\ \/ "none" \in {snap[i].adapter, ask[r].adapter}
                            \/ snap[i].adapter = ask[r].adapter
    <3> DEFINE M(i) == [base |-> snap[i].base, adapter |-> snap[i].adapter]
    <3>1. \A i : M(i).base = snap[i].base /\ M(i).adapter = snap[i].adapter
      BY SMTT(30)
    <3>2. \A x : x \in c.models <=> \E i \in own : snap[i].base # "none" /\ x = M(i)
      BY <1>3, SMTT(30)
    <3> HIDE DEF M, c, own
    <3>3. servesModel(c, ask[r]) <=>
            \E i \in own : /\ snap[i].base # "none" /\ M(i).base = ask[r].base
                           /\ \/ M(i).adapter = "none" \/ ask[r].adapter = "none"
                              \/ M(i).adapter = ask[r].adapter
      BY <3>2 DEF servesModel
    <3> QED BY <3>1, <3>3
  <2> HIDE DEF c
  <2>2. Suits(ask[r], c) <=> c.healthy /\ c.ready /\ servesModel(c, ask[r])
    BY DEF Suits, HealthFilter, ModelFilter, CapabilityFilter
  <2>3. Serving(r, w) <=>
          /\ \E i \in own : snap[i].healthy
          /\ \E i \in own : snap[i].ready
          /\ \E i \in own : /\ snap[i].base = ask[r].base
                            /\ \/ "none" \in {snap[i].adapter, ask[r].adapter}
                               \/ snap[i].adapter = ask[r].adapter
    <3> HIDE DEF own
    <3> QED BY <1>2, Zenon DEF Serving
  <2> QED BY <1>3, <2>1, <2>2, <2>3, ZenonT(30)
<1> QED BY <1>8, <1>9

LEMMA AssignedOffers ==
  ASSUME SetFacts, NEW r, rows[r] \in Seq(Rows)
  PROVE  Offers(Assigned(r), rows[r], Allowed(r))
<1> DEFINE all == CandidatesFromSnapshot(rows[r])
           I == {i \in DOMAIN all : ask[r].any \/ all[i].id \in ask[r].allowed}
<1>1. Offers(all, rows[r], Ids(rows[r]))
  BY CandidatesOffers
<1>2. Assigned(r) = Keep(all, I)
  BY DEF Assigned, filterByWorkerIDs
<1>3. {all[i].id : i \in I} = Allowed(r)
  <2>1. \A w \in Allowed(r) : \E i \in I : all[i].id = w
    BY <1>1 DEF Offers, Allowed
  <2>2. \A i \in I : all[i].id \in Allowed(r)
    BY <1>1 DEF Offers, Allowed
  <2> QED BY <2>1, <2>2
<1>4. I \in SUBSET DOMAIN all
  OBVIOUS
<1> HIDE DEF all, I
<1>5. Offers(Keep(all, I), rows[r], {all[i].id : i \in I})
  BY <1>1, <1>4, KeepOffers
<1> QED BY <1>2, <1>3, <1>5, Zenon

LEMMA FilteredOffers ==
  ASSUME SetFacts, NEW r, rows[r] \in Seq(Rows), ask[r].base # "none", Limit \in Int
  PROVE  /\ Offers(Filtered(ask[r], Assigned(r)), rows[r], Free(r))
         /\ (\E i \in DOMAIN Assigned(r) : Suits(ask[r], Assigned(r)[i]))
              <=> \E w \in Allowed(r) : Serving(r, w)
<1> DEFINE in == Assigned(r)
           I == {i \in DOMAIN in : Suits(ask[r], in[i]) /\ AdmissionFilter(ask[r], in[i])}
<1>1. Offers(in, rows[r], Allowed(r))
  BY AssignedOffers
<1>2. Filtered(ask[r], in) = Keep(in, I)
  BY DEF Filtered
<1> HIDE DEF in
<1>3. \A i \in DOMAIN in : in[i].id \in Allowed(r) /\ in[i] = Merge(rows[r], in[i].id)
  BY <1>1 DEF Offers
<1>4. \A w \in Allowed(r) : \E i \in DOMAIN in : in[i].id = w
  BY <1>1 DEF Offers
<1>5. \A w \in Allowed(r) : w \in Ids(rows[r])
  BY SMTT(30) DEF Allowed
<1>6. \A i \in DOMAIN in : /\ Suits(ask[r], in[i]) <=> Serving(r, in[i].id)
                           /\ AdmissionFilter(ask[r], in[i]) <=> ~Full(r, in[i].id)
  <2> SUFFICES ASSUME NEW i \in DOMAIN in
               PROVE  /\ Suits(ask[r], in[i]) <=> Serving(r, in[i].id)
                      /\ AdmissionFilter(ask[r], in[i]) <=> ~Full(r, in[i].id)
    OBVIOUS
  <2> DEFINE w == in[i].id
  <2>1. w \in Ids(rows[r]) /\ in[i] = Merge(rows[r], w)
    BY <1>3, <1>5, SMTT(30)
  <2> HIDE DEF w
  <2>2. /\ Suits(ask[r], Merge(rows[r], w)) <=> Serving(r, w)
        /\ AdmissionFilter(ask[r], Merge(rows[r], w)) <=> ~Full(r, w)
    BY <2>1, MergeServes, SMTT(30)
  <2> QED BY <2>1, <2>2, SMTT(30) DEF w
<1>7. {in[i].id : i \in I} = Free(r)
  <2>1. \A w \in Free(r) : \E i \in I : in[i].id = w
    BY <1>4, <1>6, Zenon DEF Free
  <2>2. \A i \in I : in[i].id \in Free(r)
    BY <1>3, <1>6, Zenon DEF Free
  <2> QED BY <2>1, <2>2
<1>8. I \in SUBSET DOMAIN in
  OBVIOUS
<1>9. (\E i \in DOMAIN in : Suits(ask[r], in[i])) <=> \E w \in Allowed(r) : Serving(r, w)
  BY <1>3, <1>4, <1>6, ZenonT(30)
<1> HIDE DEF I
<1>10. Offers(Keep(in, I), rows[r], {in[i].id : i \in I})
  BY <1>1, <1>8, KeepOffers
<1> QED BY <1>2, <1>7, <1>9, <1>10, Zenon DEF in

-----------------------------------------------------------------------------
\* The overlap is a number of blocks.
LEMMA PrefixIs ==
  ASSUME SetFacts, NEW n \in Nat, NEW want, DOMAIN want = 1..n, NEW have
  PROVE  LET m == LongestConsecutivePrefix(want, have)
         IN  /\ m \in 0..n /\ \A i \in 1..m : want[i] \in have
             /\ \A k \in 1..n : (\A i \in 1..k : want[i] \in have) => k <= m
<1> DEFINE S == {0} \cup {k \in DOMAIN want : \A i \in 1..k : want[i] \in have}
           m == LongestConsecutivePrefix(want, have)
<1>1. m = Max(S)
  BY DEF LongestConsecutivePrefix
<1>2. S \in SUBSET (0..n) /\ S # {}
  OBVIOUS
<1>3. IsFiniteSet(S) /\ S \in SUBSET Int
  <2> HIDE DEF S
  <2> QED BY <1>2, UpTo, Zenon
<1>4. m \in S /\ \A y \in S : m >= y
  <2> HIDE DEF S
  <2> QED BY <1>1, <1>2, <1>3, MaxIs
<1>5. \A k \in S : k \in 0..n /\ \A i \in 1..k : want[i] \in have
  OBVIOUS
<1>6. \A k \in 1..n : (\A i \in 1..k : want[i] \in have) => k \in S
  OBVIOUS
<1> HIDE DEF S, m
<1>7. \A k \in 1..n : (\A i \in 1..k : want[i] \in have) => k <= m
  <2>1. m \in Int /\ \A y \in S : y \in Int
    BY <1>3, <1>4
  <2> QED BY <1>4, <1>6, <2>1
<1> QED BY <1>4, <1>5, <1>7 DEF m

\* What only the request itself decides is a number.
LEMMA OwnScoreIs ==
  ASSUME SetFacts, NEW q, q.key # 0 => Prompt[q.key] \in Prompts,
         NEW c, c.depth \in Nat, c.lat \in Int
  PROVE  OwnScore(q, c) \in Int
<1>1. OverlapScore(q, c) \in Int
  <2> DEFINE want == IF q.key = 0 THEN <<>> ELSE HashBlocks(Prompt[q.key], q.adapter)
             have == KeysOf(Served[c.id])
  <2>1. CASE c.provider \/ c.id \notin DOMAIN Served \/ want = <<>>
    BY <2>1, Quotients DEF OverlapScore, One
  <2>2. CASE ~(c.provider \/ c.id \notin DOMAIN Served \/ want = <<>>)
    <3>1. q.key # 0 /\ Prompt[q.key] \in Prompts /\ want = HashBlocks(Prompt[q.key], q.adapter)
      BY <2>2
    <3>2. PICK n \in Nat : DOMAIN want = 1..n /\ Len(want) = n /\ (n = 0 <=> want = <<>>)
      BY <3>1, Blocks, SMTT(30)
    <3>3. OverlapScore(q, c) = (One * LongestConsecutivePrefix(want, have)) \div Len(want)
      BY <2>2 DEF OverlapScore
    <3> HIDE DEF want, have
    <3>4. LongestConsecutivePrefix(want, have) \in 0..n
      BY <3>2, PrefixIs
    <3>5. n \in Nat \ {0} /\ One * LongestConsecutivePrefix(want, have) \in Int
      BY <2>2, <3>2, <3>4 DEF One, want
    <3> QED BY <3>2, <3>3, <3>5, Quotients
  <2> QED BY <2>1, <2>2
<1> QED BY <1>1, OwnSum, Zenon

\* What a merged candidate has is a number too.
LEMMA MergeTypes ==
  ASSUME SetFacts, NEW snap \in Seq(Rows), NEW w \in Ids(snap)
  PROVE  LET c == Merge(snap, w)
         IN  c.depth \in Nat /\ c.lat \in Int /\ c.cost \in Int
<1> DEFINE own == RowsOf(snap, w)
           c == Merge(snap, w)
           D == {snap[i].depth : i \in own}
           priced == {i \in own : snap[i].cost > 0}
<1>1. PICK m \in Nat : snap \in [1..m -> Rows]
  OBVIOUS
<1>2. own \in SUBSET (1..m) /\ own # {} /\ priced \in SUBSET (1..m)
  BY <1>1 DEF RowsOf, Ids
<1>3. /\ c.depth = Max(D) /\ c.lat = snap[Min(own)].lat
      /\ c.cost = IF priced = {} THEN snap[Min(own)].cost ELSE snap[Max(priced)].cost
  BY Zenon DEF Merge, LastPrice
<1> HIDE DEF own, priced
<1>4. \A i \in 1..m : snap[i] \in Rows
  BY <1>1
<1>5. \A i \in 1..m : snap[i].depth \in Nat /\ snap[i].cost \in Int /\ snap[i].lat \in Int
  BY <1>4, SMTT(30) DEF Rows
<1>6. /\ IsFiniteSet(own) /\ own \in SUBSET Int
      /\ IsFiniteSet(priced) /\ priced \in SUBSET Int
  BY <1>2, Indices, Zenon
<1>7. Min(own) \in 1..m /\ (priced # {} => Max(priced) \in 1..m)
  BY <1>2, <1>6, MaxIs, Zenon
<1>8. D \in SUBSET Nat /\ D # {}
  BY <1>2, <1>5, Zenon
<1>9. IsFiniteSet(D)
  <2> DEFINE f == [i \in own |-> snap[i].depth]
  <2>1. D = {f[i] : i \in DOMAIN f} /\ DOMAIN f = own /\ f = [i \in DOMAIN f |-> f[i]]
    OBVIOUS
  <2> HIDE DEF f, D
  <2> QED BY <1>6, <2>1, ImageFinite
<1> HIDE DEF D
<1>10. Max(D) \in Nat
  <2>1. D \in SUBSET Int
    BY <1>8
  <2> QED BY <1>8, <1>9, <2>1, MaxIs, Zenon
<1> HIDE DEF c
<1>11. c.depth \in Nat /\ c.lat \in Int /\ c.cost \in Int
  BY <1>3, <1>5, <1>7, <1>10
<1> QED BY <1>11 DEF c

-----------------------------------------------------------------------------
\* What the sort of Rank does.
LEMMA SortedIs ==
  ASSUME SetFacts, NEW n \in Nat, NEW in, DOMAIN in = 1..n, NEW scores,
         \A i \in 1..n : in[i].id \in Int /\ scores[i] \in Int,
         \A i, j \in 1..n : i # j => in[i].id # in[j].id
  PROVE  Sorts(Sorted(in, scores), {in[i].id : i \in DOMAIN in}, in, scores)
<1> DEFINE ids == {in[i].id : i \in DOMAIN in}
           score(w) == scores[CHOOSE i \in DOMAIN in : in[i].id = w]
           R == {x \in ids \X ids : \/ score(x[1]) > score(x[2])
                                    \/ score(x[1]) = score(x[2]) /\ x[1] < x[2]}
           all == Sorted(in, scores)
<1>1. all = InOrder(ids, R)
  BY DEF Sorted
<1>2. \A i \in 1..n : in[i].id \in ids /\ score(in[i].id) = scores[i]
  <2>1. \A i \in 1..n : (CHOOSE j \in DOMAIN in : in[j].id = in[i].id) = i
    OBVIOUS
  <2> QED BY <2>1, Zenon
<1>3. \A w \in ids : \E i \in 1..n : w = in[i].id
  OBVIOUS
<1>4. \A x, y \in ids : <<x, y>> \in R <=> \/ score(x) > score(y)
                                           \/ score(x) = score(y) /\ x < y
  <2> HIDE DEF score, ids
  <2> QED OBVIOUS
<1>5. IsFiniteSet(ids)
  <2> DEFINE f == [i \in 1..n |-> in[i].id]
  <2>1. ids = {f[i] : i \in DOMAIN f} /\ DOMAIN f = 1..n /\ f = [i \in DOMAIN f |-> f[i]]
    OBVIOUS
  <2>2. IsFiniteSet(1..n)
    BY UpTo
  <2> HIDE DEF f, ids
  <2> QED BY <2>1, <2>2, ImageFinite
<1>6. \A w \in ids : w \in Int /\ score(w) \in Int
  <2> HIDE DEF score, ids
  <2> QED BY <1>2, <1>3
<1> HIDE DEF R, score, ids, all
<1>7. Orders(R, ids)
  BY <1>4, <1>6 DEF Orders
<1>8. Lists(all, ids, R)
  BY <1>1, <1>5, <1>7, InOrderLists
<1>9. /\ all \in [1..Cardinality(ids) -> ids]
      /\ \A a, b \in 1..Cardinality(ids) : a # b => all[a] # all[b]
      /\ \A w \in ids : \E a \in 1..Cardinality(ids) : all[a] = w
      /\ \A a, b \in 1..Cardinality(ids) : a < b => <<all[a], all[b]>> \in R
  BY <1>8 DEF Lists
<1>10. Cardinality(ids) \in Nat
  BY <1>5, SizeIs
<1>11. ASSUME NEW i \in 1..n, NEW j \in 1..n,
              NEW a \in 1..Cardinality(ids), NEW b \in 1..Cardinality(ids),
              all[a] = in[i].id, all[b] = in[j].id, Better(in, scores, i, j)
       PROVE  a < b
  <2>1. ASSUME b <= a PROVE FALSE
    <3>1. b = a \/ b < a
      BY <1>10, <2>1
    <3>2. CASE b = a
      BY <1>11, <3>2 DEF Better
    <3>3. CASE b < a
      <4>1. <<in[j].id, in[i].id>> \in R
        BY <1>9, <1>11, <3>3
      <4>2. in[i].id \in ids /\ in[j].id \in ids
        BY <1>2
      <4>3. score(in[j].id) > score(in[i].id)
              \/ (score(in[j].id) = score(in[i].id) /\ in[j].id < in[i].id)
        BY <1>4, <4>1, <4>2, SMTT(30)
      <4> QED BY <1>2, <1>11, <4>3 DEF Better
    <3> QED BY <3>1, <3>2, <3>3
  <2> QED BY <1>10, <2>1
<1>12. Sorts(all, ids, in, scores)
  BY <1>5, <1>9, <1>11 DEF Sorts
<1> QED BY <1>12, Zenon DEF ids, all

-----------------------------------------------------------------------------
LEMMA OffersAre ==
  ASSUME SetFacts, NEW snap \in Seq(Rows), NEW W \in SUBSET Ids(snap), NEW in, Offers(in, snap, W)
  PROVE  Sized(in)
<1>1. PICK n \in Nat : in \in [1..n -> {Merge(snap, w) : w \in W}]
  BY DEF Offers
<1>2. DOMAIN in = 1..n /\ Len(in) = n /\ (n = 0 <=> in = <<>>)
  BY <1>1
<1>3. \A i \in 1..n : in[i].id \in Ids(snap) /\ in[i] = Merge(snap, in[i].id)
  BY <1>2 DEF Offers
<1>4. \A i, j \in 1..n : i # j => in[i].id # in[j].id
  BY <1>2 DEF Offers
<1>5. ASSUME NEW i \in 1..n
      PROVE  in[i].depth \in Nat /\ in[i].lat \in Int /\ in[i].cost \in Int
  <2> DEFINE w == in[i].id
             c == Merge(snap, w)
  <2>1. w \in Ids(snap) /\ in[i] = c
    BY <1>3
  <2> HIDE DEF w
  <2>2. c.depth \in Nat /\ c.lat \in Int /\ c.cost \in Int
    BY <2>1, MergeTypes
  <2> HIDE DEF c
  <2> QED BY <2>1, <2>2
<1>6. \A w \in Ids(snap) : w \in Nat \ {0}
  <2>1. \A i \in DOMAIN snap : snap[i] \in Rows
    OBVIOUS
  <2>2. \A i \in DOMAIN snap : snap[i].id \in Nat \ {0}
    BY <2>1 DEF Rows
  <2> QED BY <2>2 DEF Ids
<1> QED BY <1>2, <1>3, <1>4, <1>5, <1>6 DEF Sized

\* The candidates of a request.
LEMMA CandIs ==
  ASSUME SetFacts, NEW r \in Requests, Own(r), pc[r] \notin {"idle", "no snapshot"}
  PROVE  /\ rows[r] \in Seq(Rows) /\ ask[r].base # "none"
         /\ ask[r].key # 0 => Prompt[ask[r].key] \in Prompts
         /\ Offers(cand[r], rows[r], Free(r)) /\ Sized(cand[r])
<1>1. rows[r] \in Seq(Rows)
  BY SchedulerAssumption, Zenon DEF Own, Outcome
<1>2. ask[r].base # "none" /\ (ask[r].key # 0 => Prompt[ask[r].key] \in Prompts)
  BY AskIs, Zenon DEF Own, Outcome
<1>3. cand[r] = Filtered(ask[r], Assigned(r))
  BY Zenon DEF Own, Outcome, Assigned
<1>4. Offers(cand[r], rows[r], Free(r))
  BY <1>1, <1>2, <1>3, FilteredOffers, SchedulerAssumption, Zenon
<1>5. Free(r) \in SUBSET Ids(rows[r])
  BY Zenon DEF Free, Allowed
<1>6. Sized(cand[r])
  BY <1>1, <1>4, <1>5, OffersAre, Zenon
<1> QED BY <1>1, <1>2, <1>4, <1>6, Zenon

\* The highest price of a list of candidates is a number.
LEMMA MaxCostIs ==
  ASSUME SetFacts, NEW n \in Nat, NEW in, DOMAIN in = 1..n, \A i \in 1..n : in[i].cost \in Int
  PROVE  MaxCost(in) \in Int
<1> DEFINE f == [i \in 0..n |-> IF i = 0 THEN 0 ELSE in[i].cost]
           S == {0} \cup {in[i].cost : i \in DOMAIN in}
<1>1. S = {f[i] : i \in DOMAIN f}
  <2>1. \A i \in 1..n : i \in 0..n /\ f[i] = in[i].cost
    OBVIOUS
  <2>2. f[0] = 0 /\ 0 \in DOMAIN f
    OBVIOUS
  <2>3. \A i \in DOMAIN f : i = 0 \/ i \in 1..n
    OBVIOUS
  <2>4. DOMAIN f = 0..n
    OBVIOUS
  <2> HIDE DEF f
  <2>5. \A x \in S : \E i \in DOMAIN f : x = f[i]
    BY <2>1, <2>2, <2>4
  <2>6. \A i \in DOMAIN f : f[i] \in S
    BY <2>1, <2>2, <2>3
  <2> HIDE DEF S
  <2> QED BY <2>5, <2>6
<1>2. DOMAIN f = 0..n /\ f = [i \in DOMAIN f |-> f[i]] /\ IsFiniteSet(0..n)
  BY UpTo
<1>3. S \in SUBSET Int /\ S # {}
  OBVIOUS
<1> HIDE DEF f, S
<1>4. IsFiniteSet(S)
  BY <1>1, <1>2, ImageFinite
<1>5. Max(S) \in Int
  BY <1>3, <1>4, MaxIs, ZenonT(30)
<1> QED BY <1>5 DEF MaxCost, S

\* The candidates of a request can be scored.
LEMMA OwnIsScorable ==
  ASSUME SetFacts, NEW r \in Requests, Own(r)
  PROVE  Scorable(r)
<1> SUFFICES ASSUME pc[r] \in Steps
             PROVE  /\ Sized(cand[r]) /\ MaxCost(cand[r]) \in Int
                    /\ \A k \in 1..Len(cand[r]) : OwnScore(ask[r], cand[r][k]) \in Int
  BY Zenon DEF Scorable
<1>1. pc[r] \notin {"idle", "no snapshot"}
  BY Zenon DEF Steps
<1>2. Sized(cand[r]) /\ (ask[r].key # 0 => Prompt[ask[r].key] \in Prompts)
  BY <1>1, CandIs, Zenon
<1>3. MaxCost(cand[r]) \in Int
  BY <1>2, MaxCostIs, Zenon DEF Sized
<1>4. \A k \in 1..Len(cand[r]) : cand[r][k].depth \in Nat /\ cand[r][k].lat \in Int
  BY <1>2, Zenon DEF Sized
<1>5. \A k \in 1..Len(cand[r]) : OwnScore(ask[r], cand[r][k]) \in Int
  BY <1>2, <1>4, OwnScoreIs, Zenon
<1> QED BY <1>2, <1>3, <1>5

\* The sorted list of the candidates, and its cut.
LEMMA SortAndCut ==
  ASSUME SetFacts, NEW in, Sized(in), NEW t \in Seq(Int), Len(t) = Len(in),
         NEW W, W = {in[i].id : i \in DOMAIN in}
  PROVE  /\ Sorts(Sorted(in, t), W, in, t) /\ Cardinality(W) \in Nat
         /\ IsCut(Cut(Sorted(in, t)), Sorted(in, t), Cardinality(W))
<1>1. PICK n \in Nat : /\ DOMAIN in = 1..n /\ Len(in) = n
                       /\ \A i \in 1..n : in[i].id \in Nat \ {0}
                       /\ \A i, j \in 1..n : i # j => in[i].id # in[j].id
  BY Zenon DEF Sized
<1>2. \A i \in 1..n : t[i] \in Int
  BY <1>1
<1>3. \A i \in 1..n : in[i].id \in Int
  BY <1>1
<1>4. Sorts(Sorted(in, t), W, in, t)
  BY <1>1, <1>2, <1>3, SortedIs, Zenon
<1> DEFINE all == Sorted(in, t)
<1> HIDE DEF all
<1>5. IsFiniteSet(W) /\ all \in [1..Cardinality(W) -> W]
  BY <1>4, Zenon DEF Sorts, all
<1>6. Cardinality(W) \in Nat
  BY <1>5, SizeIs, Zenon
<1>7. IsCut(Cut(all), all, Cardinality(W))
  BY <1>5, <1>6, CutIs, Zenon
<1> QED BY <1>4, <1>6, <1>7, Zenon DEF all

\* What a request has decided settles what is returned for it.
LEMMA OwnIsSettled ==
  ASSUME SetFacts, NEW r \in Requests, TypeInv, Own(r)
  PROVE  Settled(r)
<1> SUFFICES ASSUME pc[r] \notin {"idle", "no snapshot"} PROVE Settled(r)
  BY Zenon DEF Settled
<1>1. /\ rows[r] \in Seq(Rows) /\ ask[r].base # "none"
      /\ ask[r].key # 0 => Prompt[ask[r].key] \in Prompts
      /\ Offers(cand[r], rows[r], Free(r)) /\ Sized(cand[r])
  BY CandIs, Zenon
<1>2. Offers(Assigned(r), rows[r], Allowed(r))
  BY <1>1, AssignedOffers, Zenon
<1>3. (\E i \in DOMAIN Assigned(r) : Suits(ask[r], Assigned(r)[i]))
        <=> \E w \in Allowed(r) : Serving(r, w)
  BY <1>1, FilteredOffers, SchedulerAssumption, Zenon
<1>4. /\ DOMAIN cand[r] = 1..Len(cand[r])
      /\ \A k \in DOMAIN cand[r] : cand[r][k].depth \in Nat /\ cand[r][k].lat \in Int
  BY <1>1, Zenon DEF Sized
<1>5. \A k \in DOMAIN cand[r] : OwnScore(ask[r], cand[r][k]) \in Int
  BY <1>1, <1>4, OwnScoreIs, Zenon
<1>6. ASSUME pc[r] = "done"
      PROVE  Cardinality(Free(r)) \in Nat /\ \E all : Ranked(r, all)
  <2>1. /\ total[r] \in Seq(Int) /\ Len(total[r]) = Len(cand[r])
        /\ out[r] = Cut(Sorted(cand[r], total[r]))
    BY <1>6, Zenon DEF Own, Progress, TypeInv
  <2>2. Free(r) = {cand[r][i].id : i \in DOMAIN cand[r]}
    BY <1>1, OfferedIds, Zenon
  <2>3. /\ Sorts(Sorted(cand[r], total[r]), Free(r), cand[r], total[r])
        /\ Cardinality(Free(r)) \in Nat
        /\ IsCut(Cut(Sorted(cand[r], total[r])), Sorted(cand[r], total[r]), Cardinality(Free(r)))
    BY <1>1, <2>1, <2>2, SortAndCut, Zenon
  <2> QED BY <2>1, <2>3, Zenon DEF Ranked
<1> QED BY <1>1, <1>2, <1>3, <1>4, <1>5, <1>6, Zenon DEF Settled

-----------------------------------------------------------------------------
\* f has the key of each block of c: it hashes the key before it.
Chain(f, n, c, a) == f = [i \in 0..n |-> IF i = 0 THEN <<>> ELSE <<a, f[i - 1], c[i]>>]

LEMMA ChainIs ==
  ASSUME NEW n \in Nat, NEW f, NEW c, NEW a, Chain(f, n, c, a)
  PROVE  f[0] = <<>> /\ \A i \in 1..n : i - 1 \in 0..n /\ f[i] = <<a, f[i - 1], c[i]>>
<1>1. f = [i \in 0..n |-> IF i = 0 THEN <<>> ELSE <<a, f[i - 1], c[i]>>]
  BY DEF Chain
<1> DEFINE g(i) == IF i = 0 THEN <<>> ELSE <<a, f[i - 1], c[i]>>
<1>2. \A i \in 0..n : f[i] = g(i)
  BY <1>1, Zenon
<1>3. 0 \in 0..n /\ \A i \in 1..n : i \in 0..n /\ i - 1 \in 0..n /\ i # 0
  OBVIOUS
<1> QED BY <1>2, <1>3, Zenon

\* The chain of keys of a list of blocks, by smallest counterexample.
LEMMA ChainExists ==
  ASSUME SetFacts, NEW n \in Nat, NEW c, NEW a
  PROVE  \E f : Chain(f, n, c, a)
<1> DEFINE B == {m \in 0..n : ~\E f : Chain(f, m, c, a)}
<1>1. \A m \in 0..n : m \in B <=> ~\E f : Chain(f, m, c, a)
  OBVIOUS
<1>2. B \in SUBSET (0..n)
  OBVIOUS
<1> HIDE DEF B
<1>3. SUFFICES ASSUME B # {} PROVE FALSE
  BY <1>1
<1>4. B \in SUBSET Int /\ IsFiniteSet(B)
  BY <1>2, UpTo, Zenon
<1>5. PICK m \in B : \A k \in B : m <= k
  BY <1>3, <1>4, MaxIs, Zenon
<1>6. m \in 0..n
  BY <1>2
<1>7. CASE m = 0
  <2> DEFINE f == [i \in 0..0 |-> <<>>]
  <2>1. Chain(f, 0, c, a)
    BY DEF Chain
  <2> QED BY <1>1, <1>6, <1>7, <2>1
<1>8. CASE m # 0
  <2>1. m - 1 \in 0..n /\ m - 1 \notin B
    BY <1>5, <1>6, <1>8
  <2>2. PICK g : Chain(g, m - 1, c, a)
    BY <1>1, <2>1
  <2>3. g[0] = <<>> /\ \A i \in 1..(m - 1) : g[i] = <<a, g[i - 1], c[i]>>
    BY <1>6, <1>8, <2>2, ChainIs
  <2> DEFINE f == [i \in 0..m |-> IF i = m THEN <<a, g[m - 1], c[m]>> ELSE g[i]]
  <2>4. \A i \in 0..m : i # m => f[i] = g[i]
    OBVIOUS
  <2>5. f[m] = <<a, g[m - 1], c[m]>>
    BY <1>6
  <2>6. DOMAIN f = 0..m
    OBVIOUS
  <2>7. f = [i \in 0..m |-> f[i]]
    OBVIOUS
  <2> HIDE DEF f
  <2>8. ASSUME NEW i \in 0..m
        PROVE  f[i] = IF i = 0 THEN <<>> ELSE <<a, f[i - 1], c[i]>>
    <3>1. CASE i = 0
      BY <1>8, <2>3, <2>4, <3>1
    <3>2. CASE i # 0
      <4>1. i - 1 \in 0..m /\ i - 1 # m /\ f[i - 1] = g[i - 1]
        BY <1>6, <2>4, <3>2
      <4>2. CASE i = m
        BY <2>5, <3>2, <4>1, <4>2
      <4>3. CASE i # m
        <5>1. i \in 1..(m - 1)
          BY <1>6, <3>2, <4>3
        <5> QED BY <2>3, <2>4, <3>2, <4>1, <4>3, <5>1
      <4> QED BY <4>2, <4>3
    <3> QED BY <3>1, <3>2
  <2>9. Chain(f, m, c, a)
    BY <2>7, <2>8, Zenon DEF Chain
  <2> QED BY <1>1, <1>6, <2>9
<1> QED BY <1>7, <1>8

\* Two keys are equal when the blocks up to them and the adapters are.
LEMMA SameKey ==
  ASSUME SetFacts, NEW n \in Nat, NEW f, NEW c, NEW a, Chain(f, n, c, a),
         NEW m \in Nat, NEW g, NEW d, NEW b, Chain(g, m, d, b)
  PROVE  \A i \in 0..n, j \in 0..m :
           f[i] = g[j] <=> i = j /\ (i > 0 => a = b) /\ \A k \in 1..i : c[k] = d[k]
<1> DEFINE Equal(i, j) == i = j /\ (i > 0 => a = b) /\ \A k \in 1..i : c[k] = d[k]
           B == {i \in 0..n : ~\A j \in 0..m : f[i] = g[j] <=> Equal(i, j)}
<1>1. \A i \in 0..n : i \in B <=> ~\A j \in 0..m : f[i] = g[j] <=> Equal(i, j)
  OBVIOUS
<1>2. B \in SUBSET (0..n)
  OBVIOUS
<1> HIDE DEF B
<1>3. SUFFICES ASSUME B # {} PROVE FALSE
  BY <1>1
<1>4. B \in SUBSET Int /\ IsFiniteSet(B)
  BY <1>2, UpTo, Zenon
<1>5. PICK i \in B : \A k \in B : i <= k
  BY <1>3, <1>4, MaxIs, Zenon
<1>6. i \in 0..n
  BY <1>2
<1>7. /\ f[0] = <<>> /\ \A k \in 1..n : f[k] = <<a, f[k - 1], c[k]>>
      /\ g[0] = <<>> /\ \A k \in 1..m : g[k] = <<b, g[k - 1], d[k]>>
  BY ChainIs
<1>8. ASSUME NEW j \in 0..m PROVE f[i] = g[j] <=> Equal(i, j)
  <2>1. CASE i = 0 /\ j = 0
    BY <1>7, <2>1
  <2>2. CASE i = 0 /\ j # 0
    <3>1. j \in 1..m
      BY <2>2
    <3>2. f[i] = <<>> /\ g[j] = <<b, g[j - 1], d[j]>>
      BY <1>7, <2>2, <3>1
    <3>3. f[i] # g[j]
      BY <3>2
    <3> QED BY <2>2, <3>3
  <2>3. CASE i # 0 /\ j = 0
    <3>1. i \in 1..n
      BY <1>6, <2>3
    <3>2. g[j] = <<>> /\ f[i] = <<a, f[i - 1], c[i]>>
      BY <1>7, <2>3, <3>1
    <3>3. f[i] # g[j]
      BY <3>2
    <3> QED BY <2>3, <3>3
  <2>4. CASE i # 0 /\ j # 0
    <3>1. i \in 1..n /\ j \in 1..m /\ i - 1 \in 0..n /\ j - 1 \in 0..m
      BY <1>6, <2>4
    <3>2. f[i] = g[j] <=> a = b /\ f[i - 1] = g[j - 1] /\ c[i] = d[j]
      <4>1. f[i] = <<a, f[i - 1], c[i]>> /\ g[j] = <<b, g[j - 1], d[j]>>
        BY <1>7, <3>1, SMTT(30)
      <4> DEFINE x == f[i - 1]
                 y == c[i]
                 u == g[j - 1]
                 v == d[j]
      <4>2. f[i] = <<a, x, y>> /\ g[j] = <<b, u, v>>
        BY <4>1
      <4> HIDE DEF x, y, u, v
      <4>3. <<a, x, y>> = <<b, u, v>> <=> a = b /\ x = u /\ y = v
        OBVIOUS
      <4>4. f[i] = g[j] <=> a = b /\ x = u /\ y = v
        BY <4>2, <4>3
      <4> QED BY <4>4 DEF x, y, u, v
    <3>3. i - 1 \notin B
      BY <1>4, <1>5, <3>1
    <3>4. f[i - 1] = g[j - 1] <=> Equal(i - 1, j - 1)
      BY <1>1, <3>1, <3>3
    <3>5. a = b /\ Equal(i - 1, j - 1) /\ c[i] = d[j] <=> Equal(i, j)
      <4>1. ASSUME a = b, Equal(i - 1, j - 1), c[i] = d[j] PROVE Equal(i, j)
        <5>1. i = j
          BY <3>1, <4>1
        <5>2. \A k \in 1..i : c[k] = d[k]
          <6>1. \A k \in 1..i : k = i \/ k \in 1..(i - 1)
            BY <3>1
          <6> QED BY <4>1, <5>1, <6>1
        <5> QED BY <4>1, <5>1, <5>2
      <4>2. ASSUME Equal(i, j) PROVE a = b /\ Equal(i - 1, j - 1) /\ c[i] = d[j]
        <5>1. i > 0 /\ i \in 1..i /\ \A k \in 1..(i - 1) : k \in 1..i
          BY <3>1
        <5> QED BY <4>2, <5>1
      <4> QED BY <4>1, <4>2
    <3> HIDE DEF Equal
    <3> QED BY <3>2, <3>4, <3>5
  <2> QED BY <2>1, <2>2, <2>3, <2>4, SMTT(30)
<1> QED BY <1>1, <1>6, <1>8

Chained(p, a, n, f) ==
  /\ DOMAIN ChunkTokens(p) = 1..n /\ Len(ChunkTokens(p)) = n
  /\ DOMAIN HashBlocks(p, a) = 1..n
  /\ Chain(f, n, ChunkTokens(p), a)
  /\ \A i \in 1..n : HashBlocks(p, a)[i] = f[i]

\* The keys of a prompt are the chain of its blocks.
LEMMA HashIs ==
  ASSUME SetFacts, NEW p \in Prompts, NEW a
  PROVE  \E n \in Nat : \E f : Chained(p, a, n, f)
<1> DEFINE c == ChunkTokens(p)
<1>1. PICK n \in Nat : DOMAIN c = 1..n /\ Len(c) = n /\ DOMAIN HashBlocks(p, a) = 1..n
  BY Blocks
<1> DEFINE f == CHOOSE g : g = [i \in 0..Len(c) |-> IF i = 0 THEN <<>> ELSE <<a, g[i - 1], c[i]>>]
<1>2. HashBlocks(p, a) = [i \in DOMAIN c |-> f[i]]
  BY DEF HashBlocks
<1>3. f = CHOOSE g : Chain(g, n, c, a)
  BY <1>1 DEF Chain
<1> HIDE DEF c, f
<1>4. Chain(f, n, c, a)
  BY <1>3, ChainExists
<1>5. \A i \in 1..n : HashBlocks(p, a)[i] = f[i]
  BY <1>1, <1>2
<1> QED BY <1>1, <1>4, <1>5 DEF c, Chained

\* Common counts the leading blocks two prompts share.
Agree(c, d, i) == \A k \in 1..i : c[k] = d[k]

LEMMA CommonIs ==
  ASSUME SetFacts, NEW p \in Prompts, NEW q \in Prompts,
         NEW n \in Nat, Len(ChunkTokens(p)) = n, NEW m \in Nat, Len(ChunkTokens(q)) = m
  PROVE  /\ Common(p, q) \in 0..n
         /\ \A i \in 1..n : i <= Common(p, q) <=>
                            i <= m /\ Agree(ChunkTokens(p), ChunkTokens(q), i)
<1> DEFINE c == ChunkTokens(p)
           d == ChunkTokens(q)
           S == {k \in 0..Min({n, m}) : \A i \in 1..k : c[i] = d[i]}
           x == Common(p, q)
<1>1. x = Max(S)
  BY DEF Common
<1> HIDE DEF c, d
<1>2. Min({n, m}) = IF n <= m THEN n ELSE m
  <2>1. n \in Int /\ m \in Int
    OBVIOUS
  <2> QED BY <2>1, OfTwo, Zenon
<1>3. \A k \in Nat : k \in S <=> k <= n /\ k <= m /\ \A i \in 1..k : c[i] = d[i]
  BY <1>2
<1>4. S \in SUBSET (0..n) /\ S # {}
  <2>1. 0 \in S
    BY <1>2
  <2>2. \A k \in 0..Min({n, m}) : k \in 0..n
    BY <1>2
  <2>3. \A k \in S : k \in 0..n
    BY <2>2
  <2> HIDE DEF S
  <2> QED BY <2>1, <2>3
<1> HIDE DEF S, x
<1>5. S \in SUBSET Int /\ IsFiniteSet(S)
  BY <1>4, UpTo, Zenon
<1>6. x \in S /\ \A y \in S : x >= y
  BY <1>1, <1>4, <1>5, MaxIs
<1>7. x \in 0..n
  BY <1>4, <1>6
<1>8. ASSUME NEW i \in 1..n PROVE i <= x <=> i <= m /\ \A k \in 1..i : c[k] = d[k]
  <2>1. ASSUME i <= x PROVE i <= m /\ \A k \in 1..i : c[k] = d[k]
    <3>1. x <= m /\ \A k \in 1..x : c[k] = d[k]
      BY <1>3, <1>6, <1>7
    <3>2. \A k \in 1..i : k \in 1..x
      BY <1>7, <2>1
    <3> QED BY <1>7, <2>1, <3>1, <3>2
  <2>2. ASSUME i <= m, \A k \in 1..i : c[k] = d[k] PROVE i <= x
    <3>1. i \in S
      BY <1>3, <2>2
    <3> QED BY <1>6, <1>7, <3>1
  <2> QED BY <2>1, <2>2
<1>9. \A i \in 1..n : i <= x <=> i <= m /\ Agree(c, d, i)
  BY <1>8 DEF Agree
<1> QED BY <1>7, <1>9 DEF x, c, d

\* A key of a prompt is among those of another when they share the blocks up to
\* it and the adapter.
LEMMA KeyIsShared ==
  ASSUME SetFacts, NEW a, NEW p \in Prompts, NEW b, NEW q \in Prompts, NEW i \in DOMAIN ChunkTokens(p)
  PROVE  (\E j \in DOMAIN ChunkTokens(q) : HashBlocks(p, a)[i] = HashBlocks(q, b)[j])
           <=> a = b /\ i <= Common(p, q)
<1> DEFINE c == ChunkTokens(p)
           d == ChunkTokens(q)
<1>a. PICK n \in Nat : \E f : Chained(p, a, n, f)
  BY HashIs
<1>b. PICK f : Chained(p, a, n, f)
  BY <1>a
<1>c. PICK m \in Nat : \E g : Chained(q, b, m, g)
  BY HashIs
<1>d. PICK g : Chained(q, b, m, g)
  BY <1>c, SMTT(30)
<1>1. /\ DOMAIN c = 1..n /\ Len(c) = n /\ Chain(f, n, c, a)
      /\ \A k \in 1..n : HashBlocks(p, a)[k] = f[k]
  BY <1>b, SMTT(30) DEF Chained
<1>2. /\ DOMAIN d = 1..m /\ Len(d) = m /\ Chain(g, m, d, b)
      /\ \A k \in 1..m : HashBlocks(q, b)[k] = g[k]
  BY <1>d DEF Chained
<1>3. i \in 1..n /\ (i <= Common(p, q) <=> i <= m /\ Agree(c, d, i))
  <2>1. i \in 1..n /\ Len(ChunkTokens(p)) = n /\ Len(ChunkTokens(q)) = m
    BY <1>1, <1>2, SMTT(30)
  <2> QED BY <2>1, CommonIs, SMTT(30)
<1> HIDE DEF c, d
<1>4. \A j \in 1..m : f[i] = g[j] <=> i = j /\ (i > 0 => a = b) /\ Agree(c, d, i)
  <2>0. Chain(f, n, c, a) /\ Chain(g, m, d, b)
    BY <1>1, <1>2, Zenon
  <2>1. \A k \in 0..n, j \in 0..m :
          f[k] = g[j] <=> k = j /\ (k > 0 => a = b) /\ \A l \in 1..k : c[l] = d[l]
    BY <2>0, SameKey
  <2>2. i \in 0..n /\ \A j \in 1..m : j \in 0..m
    BY <1>3
  <2> QED BY <2>1, <2>2 DEF Agree
<1>5. (\E j \in 1..m : f[i] = g[j]) <=> a = b /\ i <= m /\ Agree(c, d, i)
  <2>1. i > 0 /\ (i <= m => i \in 1..m) /\ \A j \in 1..m : j <= m
    BY <1>3
  <2> QED BY <1>4, <2>1, Zenon
<1>6. (\E j \in 1..m : HashBlocks(p, a)[i] = HashBlocks(q, b)[j]) <=> \E j \in 1..m : f[i] = g[j]
  BY <1>1, <1>2, <1>3, ZenonT(30)
<1>7. DOMAIN ChunkTokens(q) = 1..m
  BY <1>2 DEF d
<1> QED BY <1>3, <1>5, <1>6, <1>7, Zenon

\* The overlap of a prompt with all that a worker has served.
LEMMA OverlapCounts ==
  ASSUME SetFacts, NEW x \in Adapters \X Prompts, NEW T \in SUBSET (Adapters \X Prompts)
  PROVE  LongestConsecutivePrefix(HashBlocks(x[2], x[1]), KeysOf(T)) =
           Max({0} \cup {Common(x[2], k[2]) : k \in {v \in T : v[1] = x[1]}})
<1> DEFINE a == x[1]
           p == x[2]
           want == HashBlocks(p, a)
           S == {0} \cup {Common(p, k[2]) : k \in {v \in T : v[1] = a}}
           w == LongestConsecutivePrefix(want, KeysOf(T))
<1>1. p \in Prompts /\ \A k \in T : k[2] \in Prompts
  OBVIOUS
<1>2. PICK n \in Nat : /\ DOMAIN ChunkTokens(p) = 1..n /\ Len(ChunkTokens(p)) = n
                       /\ DOMAIN want = 1..n
  BY <1>1, HashIs DEF Chained
<1>3. \A i \in 1..n : want[i] \in KeysOf(T) <=> \E k \in T : k[1] = a /\ i <= Common(p, k[2])
  <2> SUFFICES ASSUME NEW i \in 1..n
               PROVE  want[i] \in KeysOf(T) <=> \E k \in T : k[1] = a /\ i <= Common(p, k[2])
    OBVIOUS
  <2>1. want[i] \in KeysOf(T) <=>
          \E k \in T : \E j \in DOMAIN ChunkTokens(k[2]) : want[i] = HashBlocks(k[2], k[1])[j]
    <3>1. \A e : e \in KeysOf(T) <=>
            \E k \in T : \E j \in DOMAIN ChunkTokens(k[2]) : e = HashBlocks(k[2], k[1])[j]
      <4> DEFINE K(k) == {HashBlocks(k[2], k[1])[j] : j \in DOMAIN ChunkTokens(k[2])}
                 H(e, k) == \E j \in DOMAIN ChunkTokens(k[2]) : e = HashBlocks(k[2], k[1])[j]
      <4>1. KeysOf(T) = UNION {K(k) : k \in T}
        BY DEF KeysOf
      <4>2. \A e, k : e \in K(k) <=> H(e, k)
        OBVIOUS
      <4> HIDE DEF K, H
      <4>3. \A e : e \in KeysOf(T) <=> \E k \in T : e \in K(k)
        BY <4>1
      <4>4. \A e : e \in KeysOf(T) <=> \E k \in T : H(e, k)
        BY <4>2, <4>3
      <4> QED BY <4>4, Zenon DEF H
    <3> HIDE DEF want
    <3> QED BY <3>1, Zenon
  <2>2. ASSUME NEW k \in T
        PROVE  (\E j \in DOMAIN ChunkTokens(k[2]) : want[i] = HashBlocks(k[2], k[1])[j])
                 <=> a = k[1] /\ i <= Common(p, k[2])
    <3> DEFINE b == k[1]
               q == k[2]
    <3>1. q \in Prompts /\ p \in Prompts /\ i \in DOMAIN ChunkTokens(p)
      BY <1>1, <1>2
    <3> HIDE DEF a, p, b, q
    <3>2. (\E j \in DOMAIN ChunkTokens(q) : HashBlocks(p, a)[i] = HashBlocks(q, b)[j])
            <=> a = b /\ i <= Common(p, q)
      BY <3>1, KeyIsShared
    <3> QED BY <3>2 DEF b, q
  <2> QED BY <2>1, <2>2
<1>4. \A k \in T : Common(p, k[2]) \in 0..n
  <2> SUFFICES ASSUME NEW k \in T PROVE Common(p, k[2]) \in 0..n
    OBVIOUS
  <2>1. k[2] \in Prompts
    BY <1>1
  <2>2. PICK m \in Nat : Len(ChunkTokens(k[2])) = m
    BY <2>1, HashIs, Zenon DEF Chained
  <2> QED BY <1>1, <1>2, <2>1, <2>2, CommonIs
<1>5. \A y \in S : y = 0 \/ \E k \in T : k[1] = a /\ y = Common(p, k[2])
  OBVIOUS
<1>6. 0 \in S /\ \A k \in T : k[1] = a => Common(p, k[2]) \in S
  OBVIOUS
<1>7. w \in 0..n /\ (\A i \in 1..w : want[i] \in KeysOf(T))
      /\ \A k \in 1..n : (\A i \in 1..k : want[i] \in KeysOf(T)) => k <= w
  <2> HIDE DEF want
  <2> QED BY <1>2, PrefixIs
<1> HIDE DEF S, w, want, a, p
<1>8. S \in SUBSET (0..n) /\ S \in SUBSET Int /\ S # {} /\ IsFiniteSet(S)
  <2>1. S \in SUBSET (0..n)
    BY <1>4, <1>5
  <2> QED BY <1>6, <2>1, UpTo, Zenon
<1> DEFINE y == Max(S)
<1>9. y \in S /\ \A z \in S : y >= z
  BY <1>8, MaxIs
<1> HIDE DEF y
<1>10. y \in 0..n
  BY <1>8, <1>9
<1>11. w <= y
  <2>1. CASE w = 0
    BY <1>10, <2>1
  <2>2. CASE w # 0
    <3>1. w \in 1..n /\ w \in 1..w
      BY <1>7, <2>2
    <3>2. PICK k \in T : k[1] = a /\ w <= Common(p, k[2])
      BY <1>3, <1>7, <3>1
    <3>3. y >= Common(p, k[2]) /\ Common(p, k[2]) \in 0..n
      BY <1>4, <1>6, <1>9, <3>2
    <3> QED BY <1>10, <3>1, <3>2, <3>3
  <2> QED BY <2>1, <2>2
<1>12. y <= w
  <2>1. CASE y = 0
    BY <1>7, <2>1
  <2>2. CASE y # 0
    <3>1. PICK k \in T : k[1] = a /\ y = Common(p, k[2])
      BY <1>5, <1>9, <2>2
    <3>2. y \in 1..n /\ \A i \in 1..y : i \in 1..n /\ i <= y
      BY <1>10, <2>2
    <3>3. \A i \in 1..y : want[i] \in KeysOf(T)
      BY <1>3, <3>1, <3>2
    <3> QED BY <1>7, <3>2, <3>3
  <2> QED BY <2>1, <2>2
<1>13. w = y
  BY <1>7, <1>10, <1>11, <1>12
<1> QED BY <1>13 DEF w, y, S, want, a, p

-----------------------------------------------------------------------------
INSTANCE FiniteSetTheorems

\* Among sets of elements of a finite set there is one that contains no other.
LEMMA Minimal ==
  ASSUME NEW S, IsFiniteSet(S), NEW C \in SUBSET SUBSET S, C # {}
  PROVE  \E T \in C : \A U \in C : U \subseteq T => U = T
<1>1. IsWellFoundedOn(StrictSubsetOrdering(S), FiniteSubsetsOf(S))
  BY FS_StrictSubsetOrderingWellFounded
<1>2. C \subseteq FiniteSubsetsOf(S)
  BY FS_FiniteSubsetsOfFinite
<1>3. PICK T \in C : \A U \in C : ~(<<U, T>> \in StrictSubsetOrdering(S))
  BY <1>1, <1>2, WFMin, SMTT(30)
<1> QED BY <1>3, Zenon DEF StrictSubsetOrdering

\* What orders a set orders its subsets.
LEMMA OrdersSubset ==
  ASSUME NEW S, NEW R, Orders(R, S), NEW T \in SUBSET S
  PROVE  Orders(R, T)
<1>1. \A x \in T : x \in S
  OBVIOUS
<1> QED BY <1>1 DEF Orders

\* A finite set has a last element in any order.
LEMMA LastOne ==
  ASSUME NEW S, IsFiniteSet(S), S # {}, NEW R, Orders(R, S)
  PROVE  \E m \in S : \A x \in S \ {m} : <<x, m>> \in R
<1> DEFINE Above(x) == {y \in S : <<x, y>> \in R}
           C == {Above(x) : x \in S}
<1>1. C \in SUBSET SUBSET S /\ C # {}
  BY Zenon
<1>2. \A x \in S : Above(x) \in C
  OBVIOUS
<1>3. \A T \in C : \E x \in S : T = Above(x)
  OBVIOUS
<1>4. \A x, y \in S : y \in Above(x) <=> <<x, y>> \in R
  OBVIOUS
<1>5. \A x \in S : Above(x) \subseteq S
  OBVIOUS
<1> HIDE DEF C, Above
<1>6. PICK T \in C : \A U \in C : U \subseteq T => U = T
  BY <1>1, Minimal
<1>7. PICK m \in S : T = Above(m)
  BY <1>3
<1>8. ASSUME NEW y \in S, y \in Above(m) PROVE FALSE
  <2>1. Above(y) \subseteq Above(m) /\ y \notin Above(y)
    BY <1>4, <1>5, <1>8, Zenon DEF Orders
  <2> QED BY <1>2, <1>6, <1>7, <1>8, <2>1, SMTT(30)
<1> QED BY <1>4, <1>8, Zenon DEF Orders

\* The last element goes behind a list of the others.
LEMMA ListOneMore ==
  ASSUME NEW T, IsFiniteSet(T), NEW m \in T, NEW R,
         \A x \in T \ {m} : <<x, m>> \in R,
         NEW s, Lists(s, T \ {m}, R)
  PROVE  \E t : Lists(t, T, R)
<1> DEFINE n == Cardinality(T)
<1>1. n \in Nat /\ Cardinality(T \ {m}) = n - 1 /\ n >= 1
  BY FS_CardinalityType, FS_RemoveElement, FS_EmptySet
<1> HIDE DEF n
<1>2. /\ s \in [1..(n - 1) -> T \ {m}]
      /\ \A i, j \in 1..(n - 1) : i # j => s[i] # s[j]
      /\ \A x \in T \ {m} : \E i \in 1..(n - 1) : s[i] = x
      /\ \A i, j \in 1..(n - 1) : i < j => <<s[i], s[j]>> \in R
  BY <1>1, ZenonT(30) DEF Lists
<1> DEFINE t == [i \in 1..n |-> IF i = n THEN m ELSE s[i]]
<1>3. t[n] = m
  BY <1>1, SMTT(30)
<1>4. \A i \in 1..n : i # n => i \in 1..(n - 1) /\ t[i] = s[i]
  BY <1>1
<1>5. \A i \in 1..n : i # n => t[i] \in T \ {m}
  BY <1>2, <1>4, SMTT(30)
<1>6. t \in [1..n -> T]
  <2>1. \A i \in 1..n : t[i] \in T
    BY <1>3, <1>5, SMTT(30)
  <2> QED BY <2>1, SMTT(30)
<1> HIDE DEF t
<1>7. \A i, j \in 1..n : i # j => t[i] # t[j]
  BY <1>2, <1>3, <1>4, <1>5, SMTT(30)
<1>8. \A i, j \in 1..n : i < j => <<t[i], t[j]>> \in R
  <2> SUFFICES ASSUME NEW i \in 1..n, NEW j \in 1..n, i < j PROVE <<t[i], t[j]>> \in R
    OBVIOUS
  <2>1. i # n
    BY <1>1, SMTT(30)
  <2>2. CASE j = n
    BY <1>3, <1>5, <2>1, <2>2, SMTT(30)
  <2>3. CASE j # n
    BY <1>2, <1>4, <2>1, <2>3, SMTT(30)
  <2> QED BY <2>2, <2>3
<1>9. \A x \in T : \E i \in 1..n : t[i] = x
  <2>1. \A i \in 1..(n - 1) : i \in 1..n /\ i # n
    BY <1>1
  <2>2. n \in 1..n
    BY <1>1
  <2> QED BY <1>2, <1>3, <1>4, <2>1, <2>2, SMTT(30)
<1> QED BY <1>6, <1>7, <1>8, <1>9, ZenonT(30) DEF Lists, n

\* A finite set can be listed in any order.
LEMMA ListExists ==
  ASSUME NEW S, IsFiniteSet(S), NEW R, Orders(R, S)
  PROVE  \E s : Lists(s, S, R)
<1> DEFINE C == {T \in SUBSET S : ~\E s : Lists(s, T, R)}
<1>1. \A T \in SUBSET S : T \in C <=> ~\E s : Lists(s, T, R)
  OBVIOUS
<1>2. C \in SUBSET SUBSET S
  OBVIOUS
<1> HIDE DEF C
<1>3. SUFFICES ASSUME C # {} PROVE FALSE
  BY <1>1
<1>4. PICK T \in C : \A U \in C : U \subseteq T => U = T
  BY <1>2, <1>3, Minimal, SMTT(30)
<1>5. T \in SUBSET S /\ IsFiniteSet(T) /\ Orders(R, T)
  BY <1>2, FS_Subset, OrdersSubset
<1>6. T # {}
  <2>1. Cardinality({}) = 0
    BY FS_EmptySet
  <2>2. Lists(<<>>, {}, R)
    BY <2>1 DEF Lists
  <2> QED BY <1>1, <1>5, <2>2
<1>7. PICK m \in T : \A x \in T \ {m} : <<x, m>> \in R
  BY <1>5, <1>6, LastOne
<1>8. T \ {m} \notin C
  BY <1>4
<1>9. PICK s : Lists(s, T \ {m}, R)
  BY <1>1, <1>5, <1>8
<1> QED BY <1>1, <1>5, <1>7, <1>9, ListOneMore, SMTT(30)

\* InOrder lists a finite set.
LEMMA InOrderSorts ==
  ASSUME NEW S, IsFiniteSet(S), NEW R, Orders(R, S)
  PROVE  Lists(InOrder(S, R), S, R)
<1> DEFINE B == Bijection(1..Cardinality(S), S)
           P(s) == \A i, j \in DOMAIN s : i < j => <<s[i], s[j]>> \in R
<1>1. \A s : s \in B /\ P(s) <=> Lists(s, S, R)
  BY Zenon DEF Lists, Bijection, Injection, Surjection, IsInjective
<1>2. InOrder(S, R) = CHOOSE s \in B : P(s)
  BY DEF InOrder
<1> HIDE DEF B, P
<1> QED BY <1>1, <1>2, ListExists, Zenon

\* The values of a function on a finite set are finitely many.
LEMMA FiniteImage ==
  ASSUME NEW f, IsFiniteSet(DOMAIN f), f = [x \in DOMAIN f |-> f[x]]
  PROVE  IsFiniteSet({f[x] : x \in DOMAIN f})
<1> DEFINE T == {f[x] : x \in DOMAIN f}
<1>1. f \in Surjection(DOMAIN f, T)
  BY DEF Surjection
<1> QED BY <1>1, FS_Surjection

\* Finitely many numbers have a largest and a smallest one.
LEMMA Extremes ==
  ASSUME NEW S \in SUBSET Int, IsFiniteSet(S), S # {}
  PROVE  /\ Max(S) \in S /\ \A y \in S : Max(S) >= y
         /\ Min(S) \in S /\ \A y \in S : Min(S) <= y
<1> DEFINE U == {x \in S \X S : x[1] < x[2]}
           D == {x \in S \X S : x[1] > x[2]}
<1>0. /\ \A x, y \in S : (<<x, y>> \in U => x < y) /\ (<<x, y>> \in D => x > y)
      /\ \A x \in S : x \in Int
  OBVIOUS
<1>a. Orders(U, S) /\ Orders(D, S)
  BY Ascending
<1> HIDE DEF U, D
<1>1. \E m \in S : \A y \in S : m >= y
  <2>1. PICK m \in S : \A x \in S \ {m} : <<x, m>> \in U
    BY <1>a, LastOne, Zenon
  <2>2. ASSUME NEW y \in S PROVE m >= y
    <3>1. m \in Int /\ y \in Int /\ (y # m => <<y, m>> \in U)
      BY <1>0, <2>1
    <3>2. <<y, m>> \in U => y < m
      BY <1>0
    <3> QED BY <3>1, <3>2
  <2> QED BY <2>2
<1>2. \E m \in S : \A y \in S : m <= y
  <2>1. PICK m \in S : \A x \in S \ {m} : <<x, m>> \in D
    BY <1>a, LastOne
  <2>2. ASSUME NEW y \in S PROVE m <= y
    <3>1. m \in Int /\ y \in Int /\ (y # m => <<y, m>> \in D)
      BY <1>0, <2>1
    <3>2. <<y, m>> \in D => y > m
      BY <1>0
    <3> QED BY <3>1, <3>2
  <2> QED BY <2>2
<1> QED BY <1>1, <1>2, ZenonT(30) DEF Max, Min

\* What the proofs use of finite sets holds.
LEMMA FiniteSetFacts == SetFacts
<1>1. \A n \in Nat : IsFiniteSet(0..n) /\ IsFiniteSet(1..n)
  BY FS_Interval
<1>2. \A S : \A T \in SUBSET S : IsFiniteSet(S) => IsFiniteSet(T)
  BY FS_Subset
<1>3. \A S : IsFiniteSet(S) => Cardinality(S) \in Nat
  BY FS_CardinalityType
<1>4. \A f : IsFiniteSet(DOMAIN f) /\ f = [x \in DOMAIN f |-> f[x]] =>
               IsFiniteSet({f[x] : x \in DOMAIN f})
  BY FiniteImage, Zenon
<1>5. \A S \in SUBSET Int : IsFiniteSet(S) /\ S # {} =>
        /\ Max(S) \in S /\ \A y \in S : Max(S) >= y
        /\ Min(S) \in S /\ \A y \in S : Min(S) <= y
  BY Extremes, Zenon
<1>6. \A S, R : IsFiniteSet(S) /\ Orders(R, S) => Lists(InOrder(S, R), S, R)
  BY InOrderSorts, Zenon
<1> QED BY <1>1, <1>2, <1>3, <1>4, <1>5, <1>6, ZenonT(30) DEF SetFacts

-----------------------------------------------------------------------------
\* Every request that has begun is settled.
LEMMA AllSettled ==
  ASSUME IInv
  PROVE  \A r \in Requests : Settled(r)
BY FiniteSetFacts, OwnIsSettled DEF IInv

\* Every step keeps the invariant.
LEMMA StepIInv ==
  ASSUME IInv, [Next]_vars
  PROVE  IInv'
<1>1. \A r \in Requests : Scorable(r)
  BY FiniteSetFacts, OwnIsScorable DEF IInv
<1> QED BY <1>1, NextIInv

\* Rank, for any number of requests at once: a ranking has eligible workers
\* only, none twice, and as many as the limit allows, and an error means what it
\* says, whatever the requests do to each other's scores.
THEOREM RankComplete == Spec => []RankIsComplete
<1>1. IInv => RankIsComplete
  BY AllSettled, RankFollows, SMTT(30)
<1> QED BY <1>1, InitIInv, StepIInv, PTL DEF Spec

\* A request that overlaps no other is ranked by its own prompt and candidates.
THEOREM AloneExact == Spec => []AloneIsExact
<1>1. IInv => AloneIsExact
  BY AllSettled, AloneFollows, SMTT(30)
<1> QED BY <1>1, InitIInv, StepIInv, PTL DEF Spec

\* The unlocked fields of the scorers cost a racing request no more than the
\* affinity and the cost term.
THEOREM RaceBounded == Spec => []RaceIsBounded
<1>1. IInv => RaceIsBounded
  BY AllSettled, RaceFollows
<1> QED BY <1>1, InitIInv, StepIInv, PTL DEF Spec

\* OverlapScorer: the overlap of a prompt with all that a worker has served is
\* the longest run of leading blocks it shares with one prompt of its adapter.
THEOREM OverlapOfServed ==
  ASSUME NEW x \in Adapters \X Prompts, NEW T \in SUBSET (Adapters \X Prompts)
  PROVE  LongestConsecutivePrefix(HashBlocks(x[2], x[1]), KeysOf(T)) =
           Max({0} \cup {Common(x[2], k[2]) : k \in {v \in T : v[1] = x[1]}})
BY FiniteSetFacts, OverlapCounts, Zenon

\* What is added to the scores for the cache is what the worker can reuse.
THEOREM OverlapShared == Spec => []OverlapIsSharedPrefix
<1>1. OverlapIsExact
  <2> SUFFICES ASSUME NEW x \in Adapters \X Prompts, NEW y \in Adapters \X Prompts,
                      NEW z \in Adapters \X Prompts
               PROVE  LongestConsecutivePrefix(HashBlocks(x[2], x[1]), KeysOf({y, z})) =
                        Max({0} \cup {Common(x[2], k[2]) : k \in {v \in {y, z} : v[1] = x[1]}})
    BY Zenon DEF OverlapIsExact
  <2> DEFINE T == {y, z}
  <2>1. T \in SUBSET (Adapters \X Prompts)
    OBVIOUS
  <2> HIDE DEF T
  <2>2. LongestConsecutivePrefix(HashBlocks(x[2], x[1]), KeysOf(T)) =
          Max({0} \cup {Common(x[2], k[2]) : k \in {v \in T : v[1] = x[1]}})
    BY <2>1, OverlapOfServed
  <2> QED BY <2>2 DEF T
<1>2. OverlapIsSharedPrefix
  BY <1>1 DEF OverlapIsSharedPrefix
<1> QED BY <1>2, PTL
=============================================================================
