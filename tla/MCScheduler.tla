----------------------------- MODULE MCScheduler -----------------------------
(***************************************************************************)
(* Three workers: 1 has a row for each of two adapters, 2 serves the base, *)
(* 3 stands for a provider.  Prices, loads and flags vary.                 *)
(***************************************************************************)
EXTENDS Scheduler, TLC

Row(w, d, h, y, b, a, c, l, p) ==
    [id |-> w, depth |-> d, healthy |-> h, ready |-> y, base |-> b, adapter |-> a,
     cost |-> c, lat |-> l, provider |-> p]

\* The rows of a worker share its heartbeat and its price; the depth counts the
\* requests in flight when each row is read.
MCSnapshots ==
    {<<Row(2, d2, h2, TRUE, "m", "none", 3, 0, FALSE),
       Row(1, d1, TRUE, h1, "m", "a", 1, 1, FALSE),
       Row(3, d2, TRUE, TRUE, b3, "none", 2, 0, TRUE),
       Row(1, 0, TRUE, h1, "m", "b", 1, 1, FALSE)>> :
         d1 \in {3, 5}, d2 \in {0, 5}, h1 \in BOOLEAN, h2 \in BOOLEAN, b3 \in {"m", "n"}}

Ask(n, b, a, k) == [name |-> n, base |-> b, adapter |-> a, key |-> k]

\* The second request has no prompt to prefer a worker by.
MCReq == "r1" :> Ask("m#a", "m", "a", 1) @@ "r2" :> Ask("m", "m", "none", 0)

\* No catalog; one that maps a name to another base; one without worker 1; one
\* whose only assignee has gone.
MCCatalogs ==
    {<<>>,
     "m#a" :> [base |-> "m", adapter |-> "a", workers |-> {1, 2}]
       @@ "m" :> [base |-> "n", adapter |-> "none", workers |-> {2, 3}],
     "m#a" :> [base |-> "m", adapter |-> "none", workers |-> {4}]}

MCHash == <<<<7, 9, 9>>, <<8, 3, 5>>>>
MCPolicy == "m" :> (1 :> 600 @@ 3 :> 300)
\* Worker 1 has the first of the prompt's two blocks for the adapter, worker 2
\* has both without one.
MCPrompt == <<<<1, 1, 2>>>>
MCServed == 1 :> {<<"a", <<1, 1, 1>>>>} @@ 2 :> {<<"none", <<1, 1, 2>>>>}
MCWeight == [load |-> 9, latency |-> 3, affinity |-> 2, cost |-> 3, policy |-> 3, overlap |-> 2]
=============================================================================
