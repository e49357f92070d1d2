---------------------------- MODULE ClientAccess ----------------------------
(***************************************************************************)
(* Who may use the gateway, and how many requests at a time: the key store *)
(* (services/gateway/apikey.go), the per-client concurrency limiter and    *)
(* the middleware that joins them (services/gateway/middleware.go), with   *)
(* the reload ticker cmd/forge-controlplane/main.go starts beside them.    *)
(*                                                                         *)
(* A key stands for its SHA-256 hash.  An identity is what a key maps to:  *)
(* the client, its limit and where the entry came from (KeyID begins with  *)
(* "env-" or is a row's ID).  Several keys may name one client: they share *)
(* one counter and each request is held to the limit of its own key.       *)
(***************************************************************************)
EXTENDS Integers, FiniteSets

CONSTANTS
    Requests,    \* handler goroutines, each serving one request after another
    Keys,        \* the keys requests present
    Clients,
    Limits,      \* the values max_concurrent takes in rows
    EnvKeys,     \* [a set of Keys -> [client, max]]: what LoadFromEnv parsed
    DbKeys,      \* the keys that may have a row in gateway_api_keys
    MaxEdits     \* bound on changes of the table

ASSUME EnvAssumption ==
    /\ Keys # {}
    /\ DOMAIN EnvKeys \subseteq Keys
    /\ DbKeys \subseteq Keys
    /\ \A k \in DOMAIN EnvKeys : EnvKeys[k].client \in Clients /\ EnvKeys[k].max \in Nat
    /\ IsFiniteSet(Requests)
    /\ Limits \subseteq Nat

VARIABLES
    rows,        \* the table: key -> row, or NoRow
    byHash,      \* the store's map: key -> identity, or NoIdentity
    reload,      \* goroutine -> its progress through Reload
    pc,          \* request -> where its goroutine is
    key,         \* request -> the key it presents
    id,          \* request -> the identity Lookup returned
    cur,         \* request -> the counter value its Acquire loaded
    ctr,         \* client -> the limiter's counter
    edits

vars == <<rows, byHash, reload, pc, key, id, cur, ctr, edits>>
storeVars == <<rows, byHash, reload, edits>>
requestVars == <<pc, key, id, cur, ctr>>

NoRow == [client |-> "none", max |-> 0, enabled |-> FALSE]
NoIdentity == [client |-> "none", max |-> 0, from |-> "none"]

DefaultMax == 3

\* max <= 0 stands for the default (32 in the code) in rows, keys and Acquire.
MaxOf(n) == IF n <= 0 THEN DefaultMax ELSE n

Row == [client : Clients, max : Limits, enabled : BOOLEAN]
Identity == [client : Clients, max : Nat \ {0}, from : {"env", "db"}]

Reloaders == {"ticker", "upsert"}
NoIdentities == [k \in Keys |-> NoIdentity]

\* Where a goroutine is in Reload: the rows it read, the map it built.
Progress(at, read, next) == [at |-> at, read |-> read, next |-> next]
Idle == Progress("idle", {}, NoIdentities)
Querying == Progress("query", {}, NoIdentities)

LoadFromEnv ==
    [k \in Keys |-> IF k \in DOMAIN EnvKeys
                    THEN [client |-> EnvKeys[k].client,
                          max |-> MaxOf(EnvKeys[k].max), from |-> "env"]
                    ELSE NoIdentity]

Init ==
    /\ rows = [k \in Keys |-> NoRow]
    /\ byHash = LoadFromEnv
    /\ reload = [g \in Reloaders |-> Idle]
    /\ pc = [r \in Requests |-> "idle"]
    /\ key = [r \in Requests |-> CHOOSE k \in Keys : TRUE]
    /\ id = [r \in Requests |-> NoIdentity]
    /\ cur = [r \in Requests |-> 0]
    /\ ctr = [c \in Clients |-> 0]
    /\ edits = 0

-----------------------------------------------------------------------------
(* The key store. *)

\* The rows Reload's query returns, as pairs of key and identity.
EnabledRows ==
    {<<k, [client |-> rows[k].client, max |-> MaxOf(rows[k].max), from |-> "db"]>> :
        k \in {j \in Keys : rows[j].enabled}}

\* An operator changes the table by hand (enables, disables, edits a row).
EditRow(k) ==
    /\ edits < MaxEdits
    /\ \E row \in Row : row # rows[k] /\ rows' = [rows EXCEPT ![k] = row]
    /\ edits' = edits + 1
    /\ UNCHANGED <<byHash, reload, requestVars>>

\* Upsert: Save, then Reload in the same goroutine.
Upsert(k) ==
    /\ edits < MaxEdits
    /\ reload["upsert"].at = "idle"
    /\ \E c \in Clients, m \in Limits :
           rows' = [rows EXCEPT ![k] = [client |-> c, max |-> MaxOf(m), enabled |-> TRUE]]
    /\ edits' = edits + 1
    /\ reload' = [reload EXCEPT !["upsert"] = Querying]
    /\ UNCHANGED <<byHash, requestVars>>

\* The ticker's Reload begins.
Tick ==
    /\ reload["ticker"].at = "idle"
    /\ reload' = [reload EXCEPT !["ticker"] = Querying]
    /\ UNCHANGED <<rows, byHash, edits, requestVars>>

ReadRows(g) ==
    /\ reload[g].at = "query"
    /\ reload' = [reload EXCEPT ![g] = Progress("copy", EnabledRows, NoIdentities)]
    /\ UNCHANGED <<rows, byHash, edits, requestVars>>

\* The query fails: Reload returns the error and the store keeps its map.
QueryFails(g) ==
    /\ reload[g].at = "query"
    /\ reload' = [reload EXCEPT ![g] = Idle]
    /\ UNCHANGED <<rows, byHash, edits, requestVars>>

\* Defect: the prefix test on KeyID is missing.
KeptAll(k) == byHash[k].from # "none"

Kept(k) == byHash[k].from = "env"

\* Under the read lock the entries that came from the environment are kept;
\* the rows read before are then laid over them.
Merged(read) ==
    [k \in Keys |->
        IF \E e \in read : e[1] = k THEN (CHOOSE e \in read : e[1] = k)[2]
        ELSE IF Kept(k) THEN byHash[k] ELSE NoIdentity]

CopyEnv(g) ==
    /\ reload[g].at = "copy"
    /\ reload' = [reload EXCEPT ![g] = Progress("swap", {}, Merged(reload[g].read))]
    /\ UNCHANGED <<rows, byHash, edits, requestVars>>

Swap(g) ==
    /\ reload[g].at = "swap"
    /\ byHash' = reload[g].next
    /\ reload' = [reload EXCEPT ![g] = Idle]
    /\ UNCHANGED <<rows, edits, requestVars>>

-----------------------------------------------------------------------------
(* The middleware.  A rejected request (401, 429) leaves its goroutine idle. *)

\* Required is read first.  Without any key the gateway is open and no slot
\* is taken; otherwise Lookup is a second, separate read of the map.
Arrive(r) ==
    /\ pc[r] = "idle"
    /\ \E k \in Keys : key' = [key EXCEPT ![r] = k]
    /\ pc' = [pc EXCEPT ![r] =
                IF \E k \in Keys : byHash[k] # NoIdentity THEN "lookup" ELSE "open"]
    /\ UNCHANGED <<id, cur, ctr, storeVars>>

Lookup(r) ==
    /\ pc[r] = "lookup"
    /\ pc' = [pc EXCEPT ![r] = IF byHash[key[r]] = NoIdentity THEN "idle" ELSE "load"]
    /\ id' = [id EXCEPT ![r] = byHash[key[r]]]
    /\ UNCHANGED <<key, cur, ctr, storeVars>>

\* Acquire: load the client's counter; at the limit the request is refused.
Load(r) ==
    /\ pc[r] = "load"
    /\ cur' = [cur EXCEPT ![r] = ctr[id[r].client]]
    /\ pc' = [pc EXCEPT ![r] = IF ctr[id[r].client] >= id[r].max THEN "idle" ELSE "cas"]
    /\ UNCHANGED <<key, id, ctr, storeVars>>

\* Defect: the counter is raised whatever it has become since the load.
AddWithoutCompare(r) ==
    /\ pc[r] = "cas"
    /\ ctr' = [ctr EXCEPT ![id[r].client] = @ + 1]
    /\ pc' = [pc EXCEPT ![r] = "serving"]
    /\ UNCHANGED <<key, id, cur, storeVars>>

\* Acquire: compare-and-swap; a lost race loads again.
CompareAndSwap(r) ==
    /\ pc[r] = "cas"
    /\ IF ctr[id[r].client] = cur[r]
       THEN /\ ctr' = [ctr EXCEPT ![id[r].client] = cur[r] + 1]
            /\ pc' = [pc EXCEPT ![r] = "serving"]
       ELSE UNCHANGED ctr /\ pc' = [pc EXCEPT ![r] = "load"]
    /\ UNCHANGED <<key, id, cur, storeVars>>

\* Defect: the slot is given back to whoever the key names now.
ReleaseByLookup(r) ==
    /\ pc[r] \in {"serving", "open"}
    /\ pc' = [pc EXCEPT ![r] = "idle"]
    /\ ctr' = IF pc[r] = "serving" /\ byHash[key[r]] # NoIdentity
              THEN [ctr EXCEPT ![byHash[key[r]].client] = @ - 1] ELSE ctr
    /\ UNCHANGED <<key, id, cur, storeVars>>

\* The handler returns, panics or runs out of time: the deferred release runs.
Finish(r) ==
    /\ pc[r] \in {"serving", "open"}
    /\ pc' = [pc EXCEPT ![r] = "idle"]
    /\ ctr' = IF pc[r] = "serving" THEN [ctr EXCEPT ![id[r].client] = @ - 1] ELSE ctr
    /\ UNCHANGED <<key, id, cur, storeVars>>

-----------------------------------------------------------------------------
RequestStep ==
    \E r \in Requests :
        Arrive(r) \/ Lookup(r) \/ Load(r) \/ CompareAndSwap(r) \/ Finish(r)

StoreStep ==
    \/ Tick
    \/ \E k \in DbKeys : EditRow(k) \/ Upsert(k)
    \/ \E g \in Reloaders : ReadRows(g) \/ QueryFails(g) \/ CopyEnv(g) \/ Swap(g)

Next == RequestStep \/ StoreStep

Spec == Init /\ [][Next]_vars

\* The ticker never stops and the store answers a query again and again.
ReloadFairness ==
    /\ WF_vars(Tick)
    /\ \A g \in Reloaders :
           SF_vars(ReadRows(g)) /\ WF_vars(CopyEnv(g)) /\ WF_vars(Swap(g))

LiveSpec == Spec /\ ReloadFairness

-----------------------------------------------------------------------------
Holders(c) == {r \in Requests : pc[r] = "serving" /\ id[r].client = c}

\* The shape of the middleware's and the store's state.
TypeOK ==
    /\ rows \in [Keys -> [client : Clients, max : Nat, enabled : BOOLEAN] \cup {NoRow}]
    /\ byHash \in [Keys -> Identity \cup {NoIdentity}]
    /\ reload \in [Reloaders -> [at : {"idle", "query", "copy", "swap"},
                               read : SUBSET (Keys \X Identity),
                               next : [Keys -> Identity \cup {NoIdentity}]]]
    /\ pc \in [Requests -> {"idle", "lookup", "open", "load", "cas", "serving"}]
    /\ key \in [Requests -> Keys]
    /\ id \in [Requests -> Identity \cup {NoIdentity}]
    /\ cur \in [Requests -> Int]
    /\ ctr \in [Clients -> Int]
    /\ \A r \in Requests : pc[r] \in {"load", "cas", "serving"} => id[r] \in Identity

\* The limiter's counter of a client is the number of its requests that hold
\* a slot, whatever reloads did to their keys while they ran
\* (middleware.go, Acquire and the deferred release).
SlotsMatch == \A c \in Clients : ctr[c] = Cardinality(Holders(c))

\* Among any of a client's running requests there is one whose own key's
\* limit covers all of them: together they never exceed the largest limit
\* any of them was admitted under (middleware.go, the load / compare-and-swap
\* loop of Acquire under changing limits).
WithinLimit ==
    \A c \in Clients : \A S \in SUBSET Holders(c) :
        S # {} => \E r \in S : Cardinality(S) <= id[r].max

\* Once the table no longer changes the map comes to agree with it for good:
\* an enabled row's key has the row's identity and a disabled row's key has
\* none (apikey.go, Reload), even when an older reload's swap lands last.
KeysCatchUp ==
    <>[] \A k \in DbKeys \ DOMAIN EnvKeys :
            byHash[k] = IF rows[k].enabled
                        THEN [client |-> rows[k].client, max |-> MaxOf(rows[k].max),
                              from |-> "db"]
                        ELSE NoIdentity

\* docs/lab.md: "env keys merge with DB on reload": a key of the environment
\* is known whatever the table says of it (apikey.go, Reload).
EnvKeysStay == \A k \in DOMAIN EnvKeys : byHash[k] # NoIdentity
=============================================================================
