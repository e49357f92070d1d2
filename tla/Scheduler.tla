------------------------------ MODULE Scheduler ------------------------------
(***************************************************************************)
(* How a request is given its workers (services/gateway/snapshot_select.go *)
(* and services/scheduler): the model's name is looked up in the catalog,  *)
(* candidates are built from a routing snapshot, four filters keep the     *)
(* eligible ones, weighted scorers add up, and the result is sorted and    *)
(* cut to the number of attempts.  One chain serves all                    *)
(* requests at once.  AffinityScorer keeps the preferred worker of a       *)
(* request in a field that every request writes without a lock, and        *)
(* CostScorer the highest price in one that every request overwrites.      *)
(*                                                                         *)
(* Worker ids are numbers, ordered as the strings are.  A score of 1.0 is  *)
(* One, so that every quotient the runs need is an integer.                *)
(***************************************************************************)
EXTENDS BlockKeys

CONSTANTS Requests,   \* requests handled at once, each by its own goroutine
          Req,        \* of each: model name with the base and adapter it spells,
                      \* and affinity key, 0 for none
          Catalogs,   \* the catalog snapshots a request may find: by name, the
                      \* base, adapter and assigned workers
          MaxAttempts,  \* Handler.maxAttempts
          Snapshots,  \* the routing snapshots a request may find, with the load
          Hash,       \* Hash[key][worker]: xxhash of the key and the worker
          Policy,     \* Policy[base][worker]: the policy's weights
          Prompt,     \* Prompt[key]: the prompt with that affinity key
          Served,     \* the prompts whose blocks each worker reported, by adapter
          Weight,     \* the weight of each scorer
          Limit       \* AdmissionFilter.Limit

\* A row of a routing snapshot: a worker, its heartbeat and one of its models.
Rows == [id : Nat \ {0}, depth : Nat, healthy : BOOLEAN, ready : BOOLEAN,
         base : STRING, adapter : STRING, cost : Int, lat : Int, provider : BOOLEAN]

\* A row without a model has the base "none", which no request asks for.
ASSUME SchedulerAssumption ==
    /\ MaxAttempts \in Nat /\ Limit \in Int
    /\ \A snap \in Snapshots : snap \in Seq(Rows)
    /\ \A r \in Requests :
         Req[r].base # "none" /\ (Req[r].key # 0 => Prompt[Req[r].key] \in Prompts)
    /\ \A cat \in Catalogs : \A n \in DOMAIN cat : cat[n].base # "none"
    /\ \A b \in DOMAIN Policy : \A w \in DOMAIN Policy[b] : Policy[b][w] \in Int
    /\ Weight \in [load : Int, latency : Int, affinity : Nat, cost : Nat,
                   policy : Int, overlap : Int]

VARIABLES pc,         \* the step of each request in Rank
          ask,        \* its scheduler.Request, and the workers allowed
          rows,       \* the snapshot it works on
          cand,       \* the candidates that survived the filters
          words,      \* the words of AffinityScorer.preferred still to be written
          total,      \* the scores so far
          got,        \* req.PreferredWorker
          out,        \* the ranking returned
          len, ptr,   \* AffinityScorer.preferred, a string of two words
          maxUSD,     \* CostScorer.maxUSD, under its mutex
          alone       \* history: no other request overlapped this one

vars == <<pc, ask, rows, cand, words, total, got, out, len, ptr, maxUSD, alone>>

One == 1200
Nil == 0

-----------------------------------------------------------------------------
\* The list of the elements of S in the order R.
InOrder(S, R) ==
    CHOOSE s \in Bijection(1..Cardinality(S), S) : \A i, j \in DOMAIN s : i < j => <<s[i], s[j]>> \in R

\* What in has at the indices I, in the order of in.
Keep(in, I) ==
    LET at == InOrder(I, {x \in I \X I : x[1] < x[2]})
    IN  [k \in DOMAIN at |-> in[at[k]]]

-----------------------------------------------------------------------------
\* CandidatesFromSnapshot: the rows of one worker are merged.
Ids(snap) == {snap[i].id : i \in DOMAIN snap}
RowsOf(snap, w) == {i \in DOMAIN snap : snap[i].id = w}

LastPrice(snap, own) ==
    LET priced == {i \in own : snap[i].cost > 0}
    IN  IF priced = {} THEN snap[Min(own)].cost ELSE snap[Max(priced)].cost

\* Mutant: the depth is that of the last row read.
MergeLast(snap, w) ==
    LET own == RowsOf(snap, w)
        first == snap[Min(own)]
    IN  [id |-> w, depth |-> snap[Max(own)].depth,
         healthy |-> first.healthy, ready |-> first.ready,
         cost |-> first.cost, lat |-> first.lat, provider |-> first.provider,
         models |-> {[base |-> snap[i].base, adapter |-> snap[i].adapter] : i \in own}]

Merge(snap, w) ==
    LET own == RowsOf(snap, w)
    IN  [id |-> w,
         depth |-> Max({snap[i].depth : i \in own}),
         healthy |-> \E i \in own : snap[i].healthy,
         ready |-> \E i \in own : snap[i].ready,
         cost |-> LastPrice(snap, own),
         lat |-> snap[Min(own)].lat,
         provider |-> snap[Max(own)].provider,
         models |-> {[base |-> snap[i].base, adapter |-> snap[i].adapter] :
                       i \in {j \in own : snap[j].base # "none"}}]

CandidatesFromSnapshot(snap) ==
    LET order == Keep(snap, {i \in DOMAIN snap : \A j \in 1..(i - 1) : snap[j].id # snap[i].id})
    IN  [k \in DOMAIN order |-> Merge(snap, order[k].id)]

\* resolveModel: with an empty catalog the name spells the model and every
\* worker is allowed; otherwise the name must be known.
resolveModel(cat, q) ==
    LET found == q.name \in DOMAIN cat
    IN  [base |-> IF found THEN cat[q.name].base ELSE q.base,
         adapter |-> IF found THEN cat[q.name].adapter ELSE q.adapter,
         key |-> q.key,
         any |-> DOMAIN cat = {},
         allowed |-> IF found THEN cat[q.name].workers ELSE {},
         known |-> found \/ DOMAIN cat = {}]

filterByWorkerIDs(in, q) == Keep(in, {i \in DOMAIN in : q.any \/ in[i].id \in q.allowed})

\* servesModel: a worker with the plain base serves every adapter of it.
servesModel(c, q) ==
    \E m \in c.models :
        m.base = q.base /\ (m.adapter = "none" \/ q.adapter = "none" \/ m.adapter = q.adapter)

HealthFilter(q, c) == c.healthy /\ c.ready
ModelFilter(q, c) == servesModel(c, q)

\* No request of the gateway sets MinContext, so the models decide.
CapabilityFilter(q, c) == servesModel(c, q)
AdmissionFilter(q, c) == Limit <= 0 \/ c.depth < Limit

\* The filters of Rank: the first that leaves nobody decides the error.
Suits(q, c) == HealthFilter(q, c) /\ ModelFilter(q, c) /\ CapabilityFilter(q, c)

FilterError(q, in) ==
    IF \E i \in DOMAIN in : Suits(q, in[i]) THEN "admission rejected" ELSE "no capacity"

Filtered(q, in) == Keep(in, {i \in DOMAIN in : Suits(q, in[i]) /\ AdmissionFilter(q, in[i])})

-----------------------------------------------------------------------------
\* The scorers.
LeastLoaded(c) == One \div (1 + c.depth)
LatencyScore(c) == IF c.lat <= 0 THEN One ELSE One \div (1 + c.lat)
AffinityScore(preferred, c) == IF c.id = preferred THEN One ELSE 0

\* Mutant: the ratio is not clamped to the highest price.
CostScoreUnclamped(max, c) == IF max <= 0 THEN One ELSE One - (One * c.cost) \div max

CostScore(max, c) ==
    IF max <= 0 THEN One ELSE One - Max({0, Min({One, (One * c.cost) \div max})})

PolicyScore(q, c) ==
    CASE q.base \notin DOMAIN Policy -> One
      [] q.base \in DOMAIN Policy /\ c.id \in DOMAIN Policy[q.base] -> Policy[q.base][c.id]
      [] OTHER -> One \div 100

\* OverlapScorer: the cached share of the prompt's blocks, in the middle when
\* nothing is known of the worker or of the prompt.
OverlapScore(q, c) ==
    LET want == IF q.key = 0 THEN <<>> ELSE HashBlocks(Prompt[q.key], q.adapter)
    IN  IF c.provider \/ c.id \notin DOMAIN Served \/ want = <<>>
        THEN One \div 2
        ELSE (One * LongestConsecutivePrefix(want, KeysOf(Served[c.id]))) \div Len(want)

\* What no other request can disturb.
OwnScore(q, c) ==
    Weight.load * LeastLoaded(c) + Weight.latency * LatencyScore(c)
      + Weight.policy * PolicyScore(q, c) + Weight.overlap * OverlapScore(q, c)

\* HRWPick over the workers that keep a cache of their own; ties go to the
\* smaller id.
HRWPick(key, ids) ==
    IF ids = {} THEN Nil
    ELSE CHOOSE w \in ids : \A v \in ids :
           Hash[key][w] > Hash[key][v] \/ (Hash[key][w] = Hash[key][v] /\ w <= v)

Preferred(q, in) ==
    IF q.key = 0 \/ in = <<>> THEN Nil
    ELSE HRWPick(q.key, {in[i].id : i \in {j \in DOMAIN in : ~in[j].provider}})

MaxCost(in) == Max({0} \cup {in[i].cost : i \in DOMAIN in})

\* The sort of Rank: higher totals first, equal ones by id.
Sorted(in, scores) ==
    LET ids == {in[i].id : i \in DOMAIN in}
        score(w) == scores[CHOOSE i \in DOMAIN in : in[i].id = w]
    IN  InOrder(ids, {x \in ids \X ids :
            \/ score(x[1]) > score(x[2])
            \/ score(x[1]) = score(x[2]) /\ x[1] < x[2]})

-----------------------------------------------------------------------------
Init ==
    /\ pc = [r \in Requests |-> "idle"]
    /\ ask = [r \in Requests |-> resolveModel(<<>>, Req[r])]
    /\ rows = [r \in Requests |-> <<>>]
    /\ cand = [r \in Requests |-> <<>>]
    /\ words = [r \in Requests |-> {}]
    /\ total = [r \in Requests |-> <<>>]
    /\ got = [r \in Requests |-> Nil]
    /\ out = [r \in Requests |-> <<>>]
    /\ len = 0 /\ ptr = Nil /\ maxUSD = 0
    /\ alone = [r \in Requests |-> TRUE]

Refusals == {"no snapshot", "model not found", "no live assignee", "no capacity",
             "admission rejected"}
Running(r) == pc[r] \notin Refusals \cup {"idle", "done", "panic"}

\* Before the first publish there is no snapshot.
NoSnapshot(r) ==
    /\ pc[r] = "idle"
    /\ pc' = [pc EXCEPT ![r] = "no snapshot"]
    /\ UNCHANGED <<ask, rows, cand, words, total, got, out, len, ptr, maxUSD, alone>>

\* SelectWorkers up to the scorers: catalog, candidates and filters touch
\* nothing shared.
Begin(r) ==
    /\ pc[r] = "idle"
    /\ \E snap \in Snapshots, cat \in Catalogs :
         LET q == resolveModel(cat, Req[r])
             in == filterByWorkerIDs(CandidatesFromSnapshot(snap), q)
             left == Filtered(q, in)
         IN  /\ ask' = [ask EXCEPT ![r] = q]
             /\ rows' = [rows EXCEPT ![r] = snap]
             /\ cand' = [cand EXCEPT ![r] = left]
             /\ pc' = [pc EXCEPT ![r] =
                   CASE ~q.known -> "model not found"
                     [] q.known /\ ~q.any /\ in = <<>> -> "no live assignee"
                     [] q.known /\ (q.any \/ in # <<>>) /\ left = <<>> -> FilterError(q, in)
                     [] OTHER -> "clear"]
    /\ words' = [words EXCEPT ![r] = {"len", "ptr"}]
    /\ alone' = [q \in Requests |-> IF q = r THEN \A s \in Requests : ~Running(s)
                                   ELSE alone[q] /\ ~Running(q)]
    /\ UNCHANGED <<total, got, out, len, ptr, maxUSD>>

\* A string is stored word by word, in either order.
StoreWord(r, value, next) ==
    /\ \E word \in words[r] :
         /\ len' = IF word = "len" THEN (IF value = Nil THEN 0 ELSE 1) ELSE len
         /\ ptr' = IF word = "ptr" THEN value ELSE ptr
         /\ words' = [words EXCEPT ![r] = IF words[r] = {word} THEN {"len", "ptr"} ELSE @ \ {word}]
         /\ pc' = [pc EXCEPT ![r] = IF words[r] = {word} THEN next ELSE @]
    /\ UNCHANGED <<ask, rows, cand, total, got, out, maxUSD, alone>>

\* Mutant: a request without a prompt leaves the field as it is.
ClearKeeps(r) ==
    /\ pc[r] = "clear"
    /\ IF ask[r].key = 0
       THEN /\ pc' = [pc EXCEPT ![r] = "prices"]
            /\ UNCHANGED <<ask, rows, cand, words, total, got, out, len, ptr, maxUSD, alone>>
       ELSE StoreWord(r, Nil, "prefer")

\* AffinityScorer.Prepare: the field is cleared; without a prompt that is all.
Clear(r) ==
    pc[r] = "clear" /\ StoreWord(r, Nil, IF ask[r].key = 0 THEN "prices" ELSE "prefer")

Prefer(r) ==
    pc[r] = "prefer" /\ StoreWord(r, Preferred(ask[r], cand[r]), "reread")

\* What a reader of the two words sees: a length without a pointer is a nil
\* dereference as soon as the bytes are looked at.
Torn == len = 1 /\ ptr = Nil
Seen == IF len = 0 THEN Nil ELSE ptr

\* req.PreferredWorker = s.preferred
Reread(r) ==
    /\ pc[r] = "reread"
    /\ got' = [got EXCEPT ![r] = IF Torn THEN -1 ELSE Seen]
    /\ pc' = [pc EXCEPT ![r] = "prices"]
    /\ UNCHANGED <<ask, rows, cand, words, total, out, len, ptr, maxUSD, alone>>

\* CostScorer.Prepare
Prices(r) ==
    /\ pc[r] = "prices"
    /\ maxUSD' = MaxCost(cand[r])
    /\ pc' = [pc EXCEPT ![r] = "affinity"]
    /\ UNCHANGED <<ask, rows, cand, words, total, got, out, len, ptr, alone>>

\* The scores of the next candidate, in the order of the chain.
ScoreAffinity(r) ==
    /\ pc[r] = "affinity"
    /\ LET c == cand[r][Len(total[r]) + 1]
           own == OwnScore(ask[r], c) + Weight.affinity * AffinityScore(Seen, c)
       IN  IF Torn
           THEN /\ pc' = [pc EXCEPT ![r] = "panic"]
                /\ UNCHANGED total
           ELSE /\ total' = [total EXCEPT ![r] = Append(@, own)]
                /\ pc' = [pc EXCEPT ![r] = "cost"]
    /\ UNCHANGED <<ask, rows, cand, words, got, out, len, ptr, maxUSD, alone>>

ScoreCost(r) ==
    /\ pc[r] = "cost"
    /\ LET n == Len(total[r])
       IN  /\ total' = [total EXCEPT ![r][n] = @ + Weight.cost * CostScore(maxUSD, cand[r][n])]
           /\ pc' = [pc EXCEPT ![r] = IF n = Len(cand[r]) THEN "sort" ELSE "affinity"]
    /\ UNCHANGED <<ask, rows, cand, words, got, out, len, ptr, maxUSD, alone>>

\* The sort and the cut; the preferred worker is compared for the metrics.
Sort(r) ==
    /\ pc[r] = "sort"
    /\ IF got[r] = -1
       THEN /\ pc' = [pc EXCEPT ![r] = "panic"]
            /\ UNCHANGED out
       ELSE /\ LET all == Sorted(cand[r], total[r])
               IN  out' = [out EXCEPT ![r] = SubSeq(all, 1, Min({MaxAttempts, Len(all)}))]
            /\ pc' = [pc EXCEPT ![r] = "done"]
    /\ UNCHANGED <<ask, rows, cand, words, total, got, len, ptr, maxUSD, alone>>

Rank(r) ==
    \/ NoSnapshot(r) \/ Begin(r) \/ Clear(r) \/ Prefer(r) \/ Reread(r) \/ Prices(r)
    \/ ScoreAffinity(r) \/ ScoreCost(r) \/ Sort(r)

Next == \E r \in Requests : Rank(r)

Spec == Init /\ [][Next]_vars

-----------------------------------------------------------------------------
\* What a request may be sent to, said of the rows and not of the chain.
Serving(r, w) ==
    /\ \E i \in DOMAIN rows[r] : rows[r][i].id = w /\ rows[r][i].healthy
    /\ \E i \in DOMAIN rows[r] : rows[r][i].id = w /\ rows[r][i].ready
    /\ \E i \in DOMAIN rows[r] :
         /\ rows[r][i].id = w /\ rows[r][i].base = ask[r].base
         /\ "none" \in {rows[r][i].adapter, ask[r].adapter} \/ rows[r][i].adapter = ask[r].adapter

Allowed(r) == {w \in Ids(rows[r]) : ask[r].any \/ w \in ask[r].allowed}

Full(r, w) ==
    Limit > 0 /\ \E i \in DOMAIN rows[r] : rows[r][i].id = w /\ rows[r][i].depth >= Limit

\* Whatever the requests do to each other's scores, a ranking has eligible
\* workers only, none twice, and as many as there are up to the limit; and the
\* errors mean what they say: nobody assigned is in the snapshot, nobody there
\* serves the model, or everybody who does is at the admission limit.
RankIsComplete ==
    \A r \in Requests :
        LET serving == {w \in Allowed(r) : Serving(r, w)}
            free == {w \in serving : ~Full(r, w)}
        IN  /\ pc[r] = "done" => /\ Range(out[r]) \subseteq free /\ IsInjective(out[r])
                                 /\ Len(out[r]) = Min({MaxAttempts, Cardinality(free)})
            /\ pc[r] = "no live assignee" => Allowed(r) = {}
            /\ pc[r] = "no capacity" => serving = {} /\ (ask[r].any \/ Allowed(r) # {})
            /\ pc[r] = "admission rejected" => serving # {} /\ free = {}

Exact(r, c) ==
    OwnScore(ask[r], c) + Weight.affinity * AffinityScore(Preferred(ask[r], cand[r]), c)
                        + Weight.cost * CostScore(MaxCost(cand[r]), c)

Before(r, v, w) ==
    \A j \in DOMAIN out[r] : out[r][j] = w => \E i \in 1..(j - 1) : out[r][i] = v

\* A request that overlaps no other is ranked by its own prompt and its own
\* candidates: nothing is left over from the request before.
AloneIsExact ==
    \A r \in Requests : pc[r] = "done" /\ alone[r] =>
        \A i, j \in DOMAIN cand[r] :
            LET v == cand[r][i] w == cand[r][j]
            IN  Exact(r, v) > Exact(r, w) \/ (Exact(r, v) = Exact(r, w) /\ v.id < w.id)
                  => Before(r, v.id, w.id)

\* Requests that race lose at most the affinity and the cost term: a worker that
\* is better by more than both weights is still ranked first.
RaceIsBounded ==
    \A r \in Requests : pc[r] = "done" =>
        \A i, j \in DOMAIN cand[r] :
            LET v == cand[r][i] w == cand[r][j]
            IN  OwnScore(ask[r], v) > OwnScore(ask[r], w) + (Weight.affinity + Weight.cost) * One
                  => Before(r, v.id, w.id)

\* The share of a prompt a worker is said to have cached is what it can reuse:
\* leading blocks of one prompt it has served under the same adapter, neither a
\* block from the middle of another prompt nor one of another adapter.
OverlapIsSharedPrefix ==
    \A r \in Requests : pc[r] = "done" => OverlapIsExact

=============================================================================
