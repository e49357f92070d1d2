---------------------------- MODULE CounterProofs ----------------------------
(***************************************************************************)
(* The two counters that admit requests.  The limiter of ClientAccess, for *)
(* any number of requests, keys, clients and limits: the counter of a      *)
(* client counts the slots it holds, and no set of its running requests is *)
(* larger than every limit they were admitted under.  The tracker of       *)
(* Inflight, for any number of goroutines and any limit: its               *)
(* compare-and-swap loops implement SlotCounter.                           *)
(***************************************************************************)
EXTENDS ClientAccess, Inflight, FiniteSetTheorems, TLAPS

\* The inductive invariant.  WithinLimit quantifies over all subsets of the
\* holders because the request with the largest limit may leave first.
\* A request that is about to swap has seen the counter below its limit.
IInv ==
    /\ TypeOK /\ SlotsMatch /\ WithinLimit
    /\ \A r \in Requests : pc[r] = "cas" => cur[r] < id[r].max

\* Holders are requests, so they can be counted.
LEMMA HoldersFinite ==
    ASSUME NEW c
    PROVE  IsFiniteSet(Holders(c)) /\ Cardinality(Holders(c)) \in Nat
<1>1. Holders(c) \subseteq Requests
  BY DEF Holders
<1> QED
  BY <1>1, EnvAssumption, FS_Subset, FS_CardinalityType

\* MaxOf turns every limit of a row or a key into a positive one.
LEMMA MaxOfPositive ==
    ASSUME NEW n \in Nat
    PROVE  MaxOf(n) \in Nat \ {0}
BY DEF MaxOf, DefaultMax

\* LoadFromEnv builds a map of identities.
LEMMA InitTyped == Init => TypeOK
<1> SUFFICES ASSUME Init PROVE TypeOK
  OBVIOUS
<1>1. byHash \in [Keys -> Identity \cup {NoIdentity}]
  <2>1. ASSUME NEW k \in DOMAIN EnvKeys PROVE MaxOf(EnvKeys[k].max) \in Nat \ {0}
    BY EnvAssumption, MaxOfPositive
  <2> QED
    BY <2>1, EnvAssumption DEF Init, LoadFromEnv, Identity
<1>2. key \in [Requests -> Keys]
  BY EnvAssumption DEF Init
<1> QED
  BY <1>1, <1>2 DEF Init, TypeOK, Idle, Progress, NoIdentities

\* The key store's steps and a request's own reads keep the types.
LEMMA StoreStepTyped == TypeOK /\ StoreStep => TypeOK'
<1> SUFFICES ASSUME TypeOK, StoreStep PROVE TypeOK'
  OBVIOUS
<1> USE DEF TypeOK, requestVars, Progress, Querying, Idle, NoIdentities
<1>1. ASSUME Tick PROVE TypeOK'
  BY <1>1 DEF Tick, Reloaders
<1>2. ASSUME NEW k \in DbKeys, EditRow(k) PROVE TypeOK'
  <2>1. PICK row \in Row : rows' = [rows EXCEPT ![k] = row]
    BY <1>2, Zenon DEF EditRow
  <2>2. row \in [client : Clients, max : Nat, enabled : BOOLEAN]
    BY EnvAssumption, Zenon DEF Row
  <2>3. rows' \in [Keys -> [client : Clients, max : Nat, enabled : BOOLEAN] \cup {NoRow}]
    BY <2>1, <2>2, Zenon
  <2> QED
    BY <1>2, <2>3 DEF EditRow
<1>3. ASSUME NEW k \in DbKeys, Upsert(k) PROVE TypeOK'
  <2>1. PICK c \in Clients, m \in Limits :
            rows' = [rows EXCEPT ![k] = [client |-> c, max |-> MaxOf(m), enabled |-> TRUE]]
    BY <1>3, Zenon DEF Upsert
  <2>2. MaxOf(m) \in Nat
    BY EnvAssumption, MaxOfPositive
  <2>3. rows' \in [Keys -> [client : Clients, max : Nat, enabled : BOOLEAN] \cup {NoRow}]
    BY <2>1, <2>2, Zenon
  <2> QED
    BY <1>3, <2>3 DEF Upsert, Reloaders
<1>4. ASSUME NEW g \in Reloaders, ReadRows(g) PROVE TypeOK'
  <2>1. EnabledRows \in SUBSET (Keys \X Identity)
    <3>1. ASSUME NEW k \in Keys, rows[k].enabled
          PROVE  [client |-> rows[k].client, max |-> MaxOf(rows[k].max), from |-> "db"]
                     \in Identity
      <4>1. rows[k] \in [client : Clients, max : Nat, enabled : BOOLEAN]
        BY <3>1 DEF NoRow
      <4> QED
        BY <4>1, MaxOfPositive DEF Identity
    <3> QED
      BY <3>1 DEF EnabledRows
  <2> QED
    BY <1>4, <2>1 DEF ReadRows
<1>5. ASSUME NEW g \in Reloaders, QueryFails(g) PROVE TypeOK'
  BY <1>5 DEF QueryFails
<1>6. ASSUME NEW g \in Reloaders, CopyEnv(g) PROVE TypeOK'
  <2>1. Merged(reload[g].read) \in [Keys -> Identity \cup {NoIdentity}]
    <3>1. reload[g].read \subseteq Keys \X Identity
      OBVIOUS
    <3> QED
      BY <3>1 DEF Merged
  <2> QED
    BY <1>6, <2>1 DEF CopyEnv
<1>7. ASSUME NEW g \in Reloaders, Swap(g) PROVE TypeOK'
  BY <1>7 DEF Swap
<1> QED
  BY <1>1, <1>2, <1>3, <1>4, <1>5, <1>6, <1>7 DEF StoreStep

LEMMA RequestStepTyped == TypeOK /\ RequestStep => TypeOK'
<1> SUFFICES ASSUME TypeOK, NEW r \in Requests,
                    \/ Arrive(r) \/ Lookup(r) \/ Load(r)
                    \/ CompareAndSwap(r) \/ Finish(r)
             PROVE  TypeOK'
  BY DEF RequestStep
<1> USE DEF TypeOK, storeVars
<1>1. CASE Arrive(r)
  BY <1>1 DEF Arrive
<1>2. CASE Lookup(r)
  BY <1>2 DEF Lookup
<1>3. CASE Load(r)
  BY <1>3 DEF Load, Identity
<1>4. CASE CompareAndSwap(r)
  <2>1. id[r].client \in Clients /\ cur[r] + 1 \in Int
    BY <1>4 DEF CompareAndSwap, Identity
  <2>2. ctr' \in [Clients -> Int]
    BY <1>4, <2>1 DEF CompareAndSwap
  <2>3. pc' \in [Requests -> {"idle", "lookup", "open", "load", "cas", "serving"}]
    BY <1>4 DEF CompareAndSwap
  <2>4. \A q \in Requests : pc'[q] \in {"load", "cas", "serving"} => id'[q] \in Identity
    BY <1>4 DEF CompareAndSwap
  <2> QED
    BY <1>4, <2>2, <2>3, <2>4 DEF CompareAndSwap
<1>5. CASE Finish(r)
  BY <1>5 DEF Finish, Identity
<1> QED
  BY <1>1, <1>2, <1>3, <1>4, <1>5

\* A step that changes no holder and no counter keeps both facts about slots.
LEMMA SameHolders ==
    ASSUME SlotsMatch, WithinLimit, ctr' = ctr,
           \A c \in Clients : Holders(c)' = Holders(c),
           \A c \in Clients : \A r \in Holders(c) : id'[r] = id[r]
    PROVE  SlotsMatch' /\ WithinLimit'
<1>1. SlotsMatch'
  BY DEF SlotsMatch
<1>2. WithinLimit'
  <2> SUFFICES ASSUME NEW c \in Clients, NEW S \in SUBSET Holders(c), S # {}
               PROVE  \E r \in S : Cardinality(S) <= id'[r].max
    BY DEF WithinLimit
  <2>1. PICK r \in S : Cardinality(S) <= id[r].max
    BY DEF WithinLimit
  <2> QED
    BY <2>1
<1> QED
  BY <1>1, <1>2

\* Every step preserves the invariant.
LEMMA Preserved == IInv /\ [Next]_vars => IInv'
<1> SUFFICES ASSUME IInv, [Next]_vars PROVE IInv'
  OBVIOUS
<1> USE DEF IInv
<1> DEFINE Checked == \A q \in Requests : pc[q] = "cas" => cur[q] < id[q].max
<1>1. CASE UNCHANGED vars
  <2>1. TypeOK'
    BY <1>1 DEF vars, TypeOK
  <2>2. \A c : Holders(c)' = Holders(c)
    BY <1>1 DEF vars, Holders
  <2>3. Checked'
    BY <1>1 DEF vars
  <2> QED
    BY <1>1, <2>1, <2>2, <2>3, SameHolders DEF vars
<1>2. CASE StoreStep
  <2>1. UNCHANGED requestVars
    BY <1>2 DEF StoreStep, Tick, EditRow, Upsert, ReadRows, QueryFails, CopyEnv, Swap
  <2>2. \A c : Holders(c)' = Holders(c)
    BY <2>1 DEF requestVars, Holders
  <2>3. Checked'
    BY <2>1 DEF requestVars
  <2> QED
    BY <1>2, <2>1, <2>2, <2>3, SameHolders, StoreStepTyped DEF requestVars
<1>3. ASSUME NEW r \in Requests, Arrive(r) \/ Lookup(r) \/ Load(r) PROVE IInv'
  <2>1. TypeOK'
    BY <1>3, RequestStepTyped DEF RequestStep
  <2>2. ctr' = ctr /\ pc[r] # "serving"
    BY <1>3 DEF Arrive, Lookup, Load
  <2>3. pc'[r] # "serving" /\ \A q \in Requests \ {r} : pc'[q] = pc[q] /\ id'[q] = id[q]
    BY <1>3 DEF Arrive, Lookup, Load, TypeOK
  <2>4. \A c : Holders(c)' = Holders(c)
    BY <2>2, <2>3 DEF Holders
  <2>5. \A c : \A q \in Holders(c) : id'[q] = id[q]
    BY <2>2, <2>3 DEF Holders
  <2>6. Checked'
    <3>1. CASE Arrive(r) \/ Lookup(r)
      BY <3>1 DEF Arrive, Lookup, TypeOK
    <3>2. CASE Load(r)
      BY <3>2 DEF Load, TypeOK, Identity
    <3> QED
      BY <1>3, <3>1, <3>2
  <2> QED
    BY <2>1, <2>2, <2>4, <2>5, <2>6, SameHolders
<1>4. ASSUME NEW r \in Requests, CompareAndSwap(r) PROVE IInv'
  <2>1. TypeOK'
    BY <1>4, RequestStepTyped DEF RequestStep
  <2>2. Checked' /\ id' = id
    BY <1>4 DEF CompareAndSwap, TypeOK
  <2>3. CASE ctr[id[r].client] # cur[r]
    <3>1. \A c : Holders(c)' = Holders(c)
      BY <1>4, <2>3 DEF CompareAndSwap, Holders, TypeOK
    <3> QED
      BY <1>4, <2>1, <2>2, <2>3, <3>1, SameHolders DEF CompareAndSwap
  <2>4. CASE ctr[id[r].client] = cur[r]
    <3>0. PICK d \in Clients : d = id[r].client
      BY <1>4 DEF CompareAndSwap, TypeOK, Identity
    <3>1. d = id[r].client /\ id[r].max \in Nat /\ cur[r] < id[r].max
      BY <1>4, <3>0 DEF CompareAndSwap, TypeOK, Identity
    <3>2. r \notin Holders(d) /\ Holders(d)' = Holders(d) \cup {r}
      BY <1>4, <2>4, <3>1 DEF CompareAndSwap, Holders, TypeOK
    <3>3. \A c \in Clients \ {d} : Holders(c)' = Holders(c) /\ ctr'[c] = ctr[c]
      BY <1>4, <2>4, <3>1 DEF CompareAndSwap, Holders, TypeOK
    <3>4. ctr'[d] = cur[r] + 1
      BY <1>4, <2>4, <3>1 DEF CompareAndSwap, TypeOK
    <3>5. cur[r] = Cardinality(Holders(d))
      BY <2>4, <3>1 DEF SlotsMatch
    <3>6. IsFiniteSet(Holders(d)') /\ Cardinality(Holders(d)') = cur[r] + 1
      BY <3>2, <3>5, HoldersFinite, FS_AddElement
    <3>7. SlotsMatch'
      BY <3>3, <3>4, <3>6 DEF SlotsMatch
    <3>8. WithinLimit'
      <4> SUFFICES ASSUME NEW c \in Clients, NEW S \in SUBSET (Holders(c)'), S # {}
                   PROVE  \E q \in S : Cardinality(S) <= id[q].max
        BY <2>2 DEF WithinLimit
      <4>1. CASE r \in S
        <5>1. c = d
          BY <2>2, <3>1, <4>1 DEF Holders
        <5>2. Cardinality(S) <= cur[r] + 1 /\ Cardinality(S) \in Nat
          BY <3>6, <5>1, FS_Subset, FS_CardinalityType
        <5>3. cur[r] \in Int
          BY DEF TypeOK
        <5> QED
          BY <3>1, <4>1, <5>2, <5>3
      <4>2. CASE r \notin S
        <5>1. S \subseteq Holders(c)
          BY <3>2, <3>3, <4>2
        <5> QED
          BY <5>1 DEF WithinLimit
      <4> QED
        BY <4>1, <4>2
    <3> QED
      BY <2>1, <2>2, <3>7, <3>8
  <2> QED
    BY <2>3, <2>4
<1>5. ASSUME NEW r \in Requests, Finish(r) PROVE IInv'
  <2>1. TypeOK'
    BY <1>5, RequestStepTyped DEF RequestStep
  <2>2. Checked' /\ id' = id
    BY <1>5 DEF Finish, TypeOK
  <2>3. WithinLimit'
    <3>1. \A c : Holders(c)' \subseteq Holders(c)
      BY <1>5 DEF Finish, Holders, TypeOK
    <3> QED
      BY <2>2, <3>1 DEF WithinLimit
  <2>4. SlotsMatch'
    <3>1. CASE pc[r] = "open"
      <4>1. \A c : Holders(c)' = Holders(c)
        BY <1>5, <3>1 DEF Finish, Holders, TypeOK
      <4> QED
        BY <1>5, <3>1, <4>1 DEF Finish, SlotsMatch
    <3>2. CASE pc[r] = "serving"
      <4>0. PICK d \in Clients : d = id[r].client
        BY <1>5, <3>2 DEF Finish, TypeOK, Identity
      <4>1. d = id[r].client /\ r \in Holders(d)
        BY <3>2, <4>0 DEF Holders
      <4>2. Holders(d)' = Holders(d) \ {r}
        BY <1>5, <3>2, <4>1 DEF Finish, Holders, TypeOK
      <4>3. \A c \in Clients \ {d} : Holders(c)' = Holders(c) /\ ctr'[c] = ctr[c]
        BY <1>5, <3>2, <4>1 DEF Finish, Holders, TypeOK
      <4>4. ctr'[d] = ctr[d] - 1
        BY <1>5, <3>2, <4>1 DEF Finish, TypeOK
      <4>5. Cardinality(Holders(d)') = Cardinality(Holders(d)) - 1
        BY <4>1, <4>2, HoldersFinite, FS_RemoveElement, Zenon
      <4> QED
        BY <4>1, <4>3, <4>4, <4>5 DEF SlotsMatch
    <3> QED
      BY <1>5, <3>1, <3>2 DEF Finish
  <2> QED
    BY <2>1, <2>2, <2>3, <2>4
<1> QED
  BY <1>1, <1>2, <1>3, <1>4, <1>5 DEF Next, RequestStep

\* Initially nobody holds a slot.
LEMMA Initially == Init => IInv
<1> SUFFICES ASSUME Init PROVE IInv
  OBVIOUS
<1>1. \A c : Holders(c) = {}
  BY DEF Init, Holders
<1>2. SlotsMatch
  BY <1>1, FS_EmptySet, Zenon DEF Init, SlotsMatch
<1>3. WithinLimit
  BY <1>1 DEF WithinLimit
<1> QED
  BY <1>2, <1>3, InitTyped DEF IInv, Init

\* The counter of every client is the number of its requests holding a slot
\* (middleware.go, Acquire and its release), for any number of requests.
THEOREM SlotsMatchAlways == Spec => []SlotsMatch
<1>1. IInv => SlotsMatch
  BY DEF IInv
<1> QED
  BY <1>1, Initially, Preserved, PTL DEF Spec

\* No set of a client's running requests outgrows every limit it was admitted
\* under (middleware.go, Acquire), for any limits, keys and reloads.
THEOREM WithinLimitAlways == Spec => []WithinLimit
<1>1. IInv => WithinLimit
  BY DEF IInv
<1> QED
  BY <1>1, Initially, Preserved, PTL DEF Spec

-----------------------------------------------------------------------------
(***************************************************************************)
(* The inflight tracker of one worker.                                     *)
(***************************************************************************)
TrackerInv ==
  TrackerTypeOK /\ NoLostUpdate /\ LoadedInv

LEMMA HoldingFinite ==
  IsFiniteSet(Holding) /\ Cardinality(Holding) \in Nat
<1>1. Holding \in SUBSET Procs
  BY DEF Holding
<1>2. IsFiniteSet(Holding)
  BY <1>1, FS_Subset, InflightAssumption
<1> QED BY <1>2, FS_CardinalityType

(* A goroutine in Holding works on a counter of at least one. *)
LEMMA HolderCounted ==
  ASSUME TrackerInv, NEW p \in Procs, p \in Holding
  PROVE  /\ entry \in Procs
         /\ counter[p] = entry
         /\ val[entry] = Cardinality(Holding)
         /\ val[entry] \in 1..Limit
<1>1. at[p] \in {"held", "decLoad", "decWrite"}
  BY DEF Holding
<1>2. entry \in Procs /\ counter[p] = entry
  BY <1>1 DEF TrackerInv, TrackerTypeOK, NoLostUpdate, LoadedInv
<1>3. val[entry] = Cardinality(Holding) /\ val[entry] \in 0..Limit
  BY <1>2, InflightAssumption DEF TrackerInv, TrackerTypeOK,
     NoLostUpdate, Get
<1>4. Cardinality(Holding) # 0
  BY HoldingFinite, FS_EmptySet DEF TrackerInv
<1> QED BY <1>2, <1>3, <1>4, InflightAssumption

LEMMA InflightInit == TrackerInit => TrackerInv
<1> SUFFICES ASSUME TrackerInit PROVE TrackerInv
  OBVIOUS
<1>1. Holding = {}
  BY DEF TrackerInit, Holding
<1>2. Cardinality(Holding) = 0
  BY <1>1, FS_EmptySet
<1>3. TrackerTypeOK
  BY InflightAssumption DEF TrackerInit, TrackerTypeOK, Locations
<1>4. NoLostUpdate
  BY <1>2, InflightAssumption DEF TrackerInit, NoLostUpdate,
     Get
<1>5. LoadedInv
  BY DEF TrackerInit, LoadedInv
<1> QED BY <1>3, <1>4, <1>5 DEF TrackerInv

(* Steps that move no goroutine into or out of Holding and change no counter. *)
LEMMA QuietStep ==
  ASSUME TrackerInv, NEW p \in Procs,
         \/ LookUp(p) \/ LoadOrStore(p) \/ IncLoad(p)
         \/ Done(p) \/ DecLoad(p)
         \/ IncWrite(p) /\ val[counter[p]] # seen[p]
         \/ DecWrite(p) /\ val[counter[p]] # seen[p]
  PROVE  TrackerInv' /\ Holding' = Holding /\ Get' = Get
<1>a. Limit \in Nat \ {0} /\ None \notin Procs
  BY InflightAssumption
<1> USE <1>a
<1>0. /\ entry \in Procs \cup {None} /\ val \in [Procs -> 0..Limit]
      /\ at \in [Procs -> Locations] /\ counter \in [Procs -> Procs \cup {None}]
      /\ seen \in [Procs -> 0..Limit]
  BY DEF TrackerInv, TrackerTypeOK
<1>1. CASE LookUp(p)
  <2>1. TrackerTypeOK'
    BY <1>0, <1>1 DEF LookUp, Goto, TrackerTypeOK, Locations
  <2>2. Holding' = Holding
    BY <1>0, <1>1 DEF LookUp, Goto, Holding
  <2>3. NoLostUpdate' /\ Get' = Get
    BY <1>0, <1>1, <2>2 DEF TrackerInv, LookUp, Goto, NoLostUpdate,
       Get
  <2>4. LoadedInv'
    BY <1>0, <1>1 DEF TrackerInv, LookUp, Goto, LoadedInv
  <2> QED BY <2>1, <2>2, <2>3, <2>4 DEF TrackerInv
<1>2. CASE LoadOrStore(p)
  <2>1. TrackerTypeOK'
    BY <1>0, <1>2 DEF LoadOrStore, Goto, TrackerTypeOK, Locations
  <2>2. Holding' = Holding
    BY <1>0, <1>2 DEF LoadOrStore, Goto, Holding
  <2>3. Get' = Get
    BY <1>0, <1>2 DEF TrackerInv, LoadOrStore, NoLostUpdate, Get
  <2>4. NoLostUpdate'
    BY <1>0, <1>2, <2>2, <2>3 DEF TrackerInv, LoadOrStore, Goto,
       NoLostUpdate, LoadedInv
  <2>5. LoadedInv'
    BY <1>0, <1>2 DEF TrackerInv, LoadOrStore, Goto, LoadedInv
  <2> QED BY <2>1, <2>2, <2>3, <2>4, <2>5 DEF TrackerInv
<1>3. CASE IncLoad(p)
  <2>0. counter[p] = entry /\ entry \in Procs /\ val[entry] \in 0..Limit
    BY <1>0, <1>3 DEF TrackerInv, IncLoad, NoLostUpdate, LoadedInv
  <2>1. TrackerTypeOK'
    BY <1>0, <1>3, <2>0 DEF IncLoad, Leave, Goto, TrackerTypeOK,
       Locations
  <2>2. Holding' = Holding
    BY <1>0, <1>3 DEF IncLoad, Leave, Goto, Holding
  <2>3. NoLostUpdate' /\ Get' = Get
    BY <1>0, <1>3, <2>2 DEF TrackerInv, IncLoad, Leave, Goto,
       NoLostUpdate, Get
  <2>4. LoadedInv'
    BY <1>0, <1>3, <2>0 DEF TrackerInv, IncLoad, Leave, Goto,
       LoadedInv
  <2> QED BY <2>1, <2>2, <2>3, <2>4 DEF TrackerInv
<1>4. CASE Done(p)
  <2>1. TrackerTypeOK'
    BY <1>0, <1>4 DEF Done, Goto, TrackerTypeOK, Locations
  <2>2. Holding' = Holding
    BY <1>0, <1>4 DEF Done, Goto, Holding
  <2>3. NoLostUpdate' /\ Get' = Get
    BY <1>0, <1>4, <2>2 DEF TrackerInv, Done, Goto, NoLostUpdate,
       Get
  <2>4. LoadedInv'
    BY <1>0, <1>4 DEF TrackerInv, Done, Goto, LoadedInv
  <2> QED BY <2>1, <2>2, <2>3, <2>4 DEF TrackerInv
<1>5. CASE DecLoad(p)
  <2>0. counter[p] = entry /\ entry \in Procs /\ val[entry] \in 1..Limit
    BY <1>5, HolderCounted, Zenon DEF DecLoad, Holding
  <2>1. TrackerTypeOK'
    BY <1>0, <1>5, <2>0 DEF DecLoad, Goto, TrackerTypeOK, Locations
  <2>2. Holding' = Holding
    BY <1>0, <1>5 DEF DecLoad, Goto, Holding
  <2>3. NoLostUpdate' /\ Get' = Get
    BY <1>0, <1>5, <2>2 DEF TrackerInv, DecLoad, Goto,
       NoLostUpdate, Get
  <2>4. LoadedInv'
    BY <1>0, <1>5, <2>0 DEF TrackerInv, DecLoad, Goto, LoadedInv
  <2> QED BY <2>1, <2>2, <2>3, <2>4 DEF TrackerInv
<1>6. CASE IncWrite(p) /\ val[counter[p]] # seen[p]
  <2>1. TrackerTypeOK'
    BY <1>0, <1>6 DEF IncWrite, Goto, TrackerTypeOK,
       Locations
  <2>2. Holding' = Holding
    BY <1>0, <1>6 DEF IncWrite, Goto, Holding
  <2>3. NoLostUpdate' /\ Get' = Get
    BY <1>0, <1>6, <2>2 DEF TrackerInv, IncWrite, Goto,
       NoLostUpdate, Get
  <2>4. LoadedInv'
    BY <1>0, <1>6 DEF TrackerInv, IncWrite, Goto, LoadedInv
  <2> QED BY <2>1, <2>2, <2>3, <2>4 DEF TrackerInv
<1>7. CASE DecWrite(p) /\ val[counter[p]] # seen[p]
  <2>0. seen[p] > 0 /\ at[p] = "decWrite"
    BY <1>7 DEF TrackerInv, DecWrite, LoadedInv
  <2>a. at' = [at EXCEPT ![p] = "decLoad"] /\ UNCHANGED <<entry, val, counter, seen>>
    BY <1>0, <1>7, <2>0 DEF DecWrite, Goto
  <2>1. TrackerTypeOK'
    BY <1>0, <2>a DEF TrackerTypeOK, Locations
  <2>2. Holding' = Holding
    BY <1>0, <2>0, <2>a DEF Holding
  <2>3. NoLostUpdate' /\ Get' = Get
    BY <1>0, <2>0, <2>a, <2>2 DEF TrackerInv, NoLostUpdate, Get
  <2>4. LoadedInv'
    BY <1>0, <2>0, <2>a DEF TrackerInv, LoadedInv
  <2> QED BY <2>1, <2>2, <2>3, <2>4 DEF TrackerInv
<1> QED BY <1>1, <1>2, <1>3, <1>4, <1>5, <1>6, <1>7

(* The successful compare-and-swap of TryTrack is an Acquire. *)
LEMMA AcquireStep ==
  ASSUME TrackerInv, NEW p \in Procs, IncWrite(p), val[counter[p]] = seen[p]
  PROVE  TrackerInv' /\ Abstract!Acquire(p)
<1>a. Limit \in Nat \ {0} /\ None \notin Procs
  BY InflightAssumption
<1> USE <1>a
<1>0. /\ entry \in Procs \cup {None} /\ val \in [Procs -> 0..Limit]
      /\ at \in [Procs -> Locations] /\ counter \in [Procs -> Procs \cup {None}]
      /\ seen \in [Procs -> 0..Limit]
  BY DEF TrackerInv, TrackerTypeOK
<1>1. /\ at[p] = "cas" /\ counter[p] = entry /\ entry \in Procs
      /\ seen[p] = val[entry] /\ val[entry] < Limit /\ val[entry] \in 0..Limit
  BY <1>0 DEF TrackerInv, IncWrite, NoLostUpdate, LoadedInv
<1>2. /\ val' = [val EXCEPT ![entry] = val[entry] + 1]
      /\ at' = [at EXCEPT ![p] = "held"]
      /\ UNCHANGED <<entry, counter, seen>>
  BY <1>1 DEF IncWrite, Goto
<1>3. Holding' = Holding \cup {p} /\ p \notin Holding
  BY <1>0, <1>1, <1>2 DEF Holding
<1>4. Cardinality(Holding') = Cardinality(Holding) + 1
  BY <1>3, HoldingFinite, FS_AddElement, Zenon
<1>5. Get = val[entry] /\ Get' = val[entry] + 1
  BY <1>0, <1>1, <1>2 DEF Get
<1>6. TrackerTypeOK'
  <2>1. val[entry] + 1 \in 0..Limit
    BY <1>1
  <2> QED BY <1>0, <1>2, <2>1, Zenon DEF TrackerTypeOK, Locations
<1>7. Get' = Cardinality(Holding') /\ Cardinality(Holding') <= Limit
  <2>1. Get = Cardinality(Holding)
    BY Zenon DEF TrackerInv, NoLostUpdate
  <2> QED BY <1>1, <1>4, <1>5, <2>1
<1>8. NoLostUpdate'
  BY <1>0, <1>1, <1>2, <1>7 DEF TrackerInv, NoLostUpdate
<1>9. LoadedInv'
  BY <1>0, <1>1, <1>2 DEF TrackerInv, LoadedInv
<1> QED BY <1>1, <1>3, <1>5, <1>6, <1>8, <1>9 DEF TrackerInv, Abstract!Acquire

(* The successful compare-and-swap of Dec is a Release; its clamp does not  *)
(* happen.                                                                  *)
LEMMA ReleaseStep ==
  ASSUME TrackerInv, NEW p \in Procs, DecWrite(p), val[counter[p]] = seen[p]
  PROVE  TrackerInv' /\ Abstract!Release(p)
<1>a. Limit \in Nat \ {0} /\ None \notin Procs
  BY InflightAssumption
<1> USE <1>a
<1>0. /\ entry \in Procs \cup {None} /\ val \in [Procs -> 0..Limit]
      /\ at \in [Procs -> Locations] /\ counter \in [Procs -> Procs \cup {None}]
      /\ seen \in [Procs -> 0..Limit]
  BY DEF TrackerInv, TrackerTypeOK
<1>1. at[p] = "decWrite" /\ p \in Holding
  BY DEF DecWrite, Holding
<1>2. /\ counter[p] = entry /\ entry \in Procs /\ seen[p] = val[entry]
      /\ val[entry] \in 1..Limit
  BY <1>1, HolderCounted
<1>3. /\ val' = [val EXCEPT ![entry] = val[entry] - 1]
      /\ at' = [at EXCEPT ![p] = "idle"]
      /\ counter' = [counter EXCEPT ![p] = None]
      /\ seen' = [seen EXCEPT ![p] = 0]
      /\ entry' = entry
  BY <1>2 DEF DecWrite, Leave, Goto
<1>4. Holding' = Holding \ {p}
  BY <1>0, <1>1, <1>3 DEF Holding
<1>5. Cardinality(Holding') = Cardinality(Holding) - 1
  BY <1>1, <1>4, HoldingFinite, FS_RemoveElement, Zenon
<1>6. Get = val[entry] /\ Get' = val[entry] - 1
  BY <1>0, <1>2, <1>3 DEF Get
<1>7. TrackerTypeOK'
  <2>1. val[entry] - 1 \in 0..Limit /\ 0 \in 0..Limit
    BY <1>2
  <2>2. val' \in [Procs -> 0..Limit] /\ seen' \in [Procs -> 0..Limit]
    BY <1>0, <1>3, <2>1, Zenon
  <2> QED BY <1>0, <1>3, <2>2 DEF TrackerTypeOK, Locations
<1>8. Get' = Cardinality(Holding') /\ Cardinality(Holding') <= Limit
  <2>1. Get = Cardinality(Holding)
    BY Zenon DEF TrackerInv, NoLostUpdate
  <2> QED BY <1>2, <1>5, <1>6, <2>1
<1>9. NoLostUpdate'
  BY <1>0, <1>2, <1>3, <1>8 DEF TrackerInv, NoLostUpdate
<1>10. LoadedInv'
  BY <1>0, <1>1, <1>3 DEF TrackerInv, LoadedInv
<1> QED BY <1>1, <1>4, <1>6, <1>7, <1>9, <1>10 DEF TrackerInv, Abstract!Release

LEMMA InflightNext ==
  ASSUME TrackerInv, [TrackerNext]_trackerVars
  PROVE  TrackerInv' /\ [Abstract!Next]_(Abstract!vars)
<1>1. ASSUME NEW p \in Procs, Step(p)
      PROVE  /\ TrackerInv'
             /\ \/ Abstract!Next
                \/ Holding' = Holding /\ Get' = Get
  <2>1. CASE IncWrite(p) /\ val[counter[p]] = seen[p]
    BY <2>1, AcquireStep DEF Abstract!Next
  <2>2. CASE DecWrite(p) /\ val[counter[p]] = seen[p]
    BY <2>2, ReleaseStep DEF Abstract!Next
  <2>3. CASE \/ LookUp(p) \/ LoadOrStore(p) \/ IncLoad(p)
             \/ Done(p) \/ DecLoad(p)
             \/ IncWrite(p) /\ val[counter[p]] # seen[p]
             \/ DecWrite(p) /\ val[counter[p]] # seen[p]
    BY <2>3, QuietStep
  <2> QED BY <1>1, <2>1, <2>2, <2>3 DEF Step
<1>2. CASE UNCHANGED trackerVars
  <2>1. Holding' = Holding /\ Get' = Get
    BY <1>2 DEF trackerVars, Holding, Get
  <2>2. TrackerInv'
    BY <1>2, <2>1 DEF trackerVars, TrackerInv, TrackerTypeOK, NoLostUpdate,
       LoadedInv
  <2> QED BY <2>1, <2>2 DEF Abstract!vars
<1> QED BY <1>1, <1>2 DEF TrackerNext, Abstract!vars

(* No update of the counter is lost, no goroutine works on a counter that   *)
(* lost the creation race, and no more than Limit slots are out.            *)
THEOREM InflightCorrect ==
  TrackerSpec => [](TrackerTypeOK /\ NoLostUpdate /\ LoadedInv)
<1>1. TrackerInv /\ [TrackerNext]_trackerVars => TrackerInv'
  BY InflightNext
<1> QED BY <1>1, InflightInit, PTL DEF TrackerSpec, TrackerInv

(* TryTrack and its release function behave as one atomic step each: the    *)
(* tracker implements SlotCounter.                                          *)
THEOREM InflightLinearizable == TrackerSpec => Linearizable
<1>1. TrackerInit => Abstract!Init
  BY DEF TrackerInit, Abstract!Init, Get, Holding
<1>2. TrackerInv /\ [TrackerNext]_trackerVars =>
        TrackerInv' /\ [Abstract!Next]_(Abstract!vars)
  BY InflightNext
<1> QED BY <1>1, <1>2, InflightInit, PTL DEF TrackerSpec, Linearizable,
   Abstract!Spec
=============================================================================
