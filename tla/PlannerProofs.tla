--------------------------- MODULE PlannerProofs ---------------------------
(***************************************************************************)
(* What else the control planes share, for any number of planes.  What any *)
(* of them uses as a policy was recorded (Planner), whatever is lost or    *)
(* crashes.  The second part is the index of each plane's cache registry   *)
(* (CacheRegistry), for any number of posts, workers and blocks, with      *)
(* events lost and in any order.  The last is what a policy holds: shares  *)
(* of the whole for the workers of a model (PlanScore).                    *)
(***************************************************************************)
EXTENDS MCPlanner, Sequences, TLAPS

(***************************************************************************)
(* The planners: what any plane uses has been recorded under its number.   *)
(***************************************************************************)
Decisions == [version : Nat, tick : Nat]
Steps == {"start", "idle", "insert", "set", "publish", "store", "off", "first", "subscribe"}

\* What is recorded, and the absence of a policy.
Recorded == db \cup {NoDecision}

PolicyTypes ==
    /\ ticks \in Nat /\ version \in [Planes -> Nat]
    /\ work \in [Planes -> [pc : Steps, of : Decisions]]
    /\ sub \in [Planes -> [pc : Steps, got : Decisions]]
    /\ holder \in [Planes -> Decisions] /\ key \in Decisions /\ db \in SUBSET Decisions

\* Versions count from one, the unique index keeps them apart, and a decision
\* is inserted before anything else is done with it.
PolicyInv ==
    /\ PolicyTypes
    /\ \A d \in db : d.version > 0
    /\ \A d, e \in db : d.version = e.version => d = e
    /\ key \in Recorded
    /\ \A p \in Planes :
         /\ holder[p] \in Recorded /\ sub[p].got \in Recorded
         /\ work[p].pc = "insert" => work[p].of.version > 0
         /\ work[p].pc \in {"set", "publish", "store"} => work[p].of \in db

\* The records an action starts from.
LEMMA PolicyRecords ==
  /\ NoDecision \in Decisions /\ NoDecision \in Recorded
  /\ IdlePlan \in [pc : Steps, of : Decisions] /\ IdlePlan.pc = "idle"
  /\ OffSub \in [pc : Steps, got : Decisions] /\ OffSub.got = NoDecision
  BY DEF NoDecision, IdlePlan, OffSub, Decisions, Recorded, Steps

\* Moving a tick or a subscriber on keeps what it holds.
LEMMA PolicyMoves ==
  ASSUME NEW s \in Steps
  PROVE  /\ \A x \in [pc : Steps, of : Decisions] :
              LET y == [x EXCEPT !.pc = s]
              IN  y \in [pc : Steps, of : Decisions] /\ y.pc = s /\ y.of = x.of
         /\ \A x \in [pc : Steps, got : Decisions] :
              LET y == [x EXCEPT !.pc = s]
              IN  y \in [pc : Steps, got : Decisions] /\ y.pc = s /\ y.got = x.got
  OBVIOUS

LEMMA PolicyInit == Init => PolicyInv
  <1> SUFFICES ASSUME Init PROVE PolicyInv
    OBVIOUS
  <1> DEFINE x == [IdlePlan EXCEPT !.pc = "start"]
  <1>1. x \in [pc : Steps, of : Decisions] /\ x.pc = "start"
    <2>1. "start" \in Steps
      BY DEF Steps
    <2> QED BY <2>1, PolicyRecords, PolicyMoves, Zenon
  <1>2. work = [p \in Planes |-> x]
    BY DEF Init
  <1> HIDE DEF x
  <1>3. PolicyTypes
    BY <1>1, <1>2, PolicyRecords DEF Init, PolicyTypes
  <1> QED BY <1>1, <1>2, <1>3, PolicyRecords DEF Init, PolicyInv

\* The invariant names what is in use; the index tells its versions apart.
LEMMA PolicyImplies == PolicyInv => InUseIsRecorded
  <1> SUFFICES ASSUME PolicyInv, NEW d \in InUse \ {NoDecision}
               PROVE  d \in db /\ \A e \in db \cup InUse : e.version = d.version => e = d
    BY DEF InUseIsRecorded
  <1>1. InUse \subseteq Recorded
    BY DEF PolicyInv, InUse, Recorded
  <1>2. d \in db /\ d.version > 0
    BY <1>1 DEF Recorded, PolicyInv
  <1>3. NoDecision.version = 0
    BY DEF NoDecision
  <1> QED BY <1>1, <1>2, <1>3 DEF Recorded, PolicyInv

\* A step of one plane that keeps the rows: its own tick, subscriber and holder
\* may change, and the key, as long as they take what is recorded.
LEMMA PolicyKept ==
  ASSUME PolicyInv, PolicyTypes', NEW p \in Planes, db' = db, key' \in Recorded,
         \A q \in Planes \ {p} : work'[q] = work[q] /\ sub'[q] = sub[q] /\ holder'[q] = holder[q],
         holder'[p] \in Recorded, sub'[p].got \in Recorded,
         work'[p].pc = "insert" => work'[p].of.version > 0,
         work'[p].pc \in {"set", "publish", "store"} => work'[p].of \in db
  PROVE  PolicyInv'
  BY DEF PolicyInv, Recorded, NoDecision

\* The tick, the insert and what follows it; the holder takes what is recorded.
LEMMA PolicyService ==
  ASSUME PolicyInv, NEW p \in Planes, Service(p) PROVE PolicyInv'
  <1> USE PolicyRecords
  <1>0. PolicyTypes /\ work[p] \in [pc : Steps, of : Decisions] /\ holder[p] \in Decisions
    BY DEF PolicyInv, PolicyTypes
  <1>1. ASSUME NEW d \in Recorded, StoreIfNewer(p, d)
        PROVE  /\ holder' \in [Planes -> Decisions] /\ holder'[p] \in Recorded
               /\ \A q \in Planes \ {p} : holder'[q] = holder[q]
    <2>1. d \in Decisions
      BY <1>0 DEF Recorded, PolicyTypes
    <2> QED BY <1>0, <1>1, <2>1 DEF StoreIfNewer, PolicyInv, PolicyTypes
  <1>2. ASSUME NEW s \in {"set", "publish", "store"}, work[p].pc # "idle", work[p].pc # "start",
               work' = [work EXCEPT ![p].pc = s] \/ work' = [work EXCEPT ![p] = IdlePlan]
        PROVE  /\ work' \in [Planes -> [pc : Steps, of : Decisions]]
               /\ \A q \in Planes \ {p} : work'[q] = work[q]
               /\ work'[p].pc = "idle" \/ (work'[p].pc = s /\ work'[p].of = work[p].of)
    <2> DEFINE x == [work[p] EXCEPT !.pc = s]
    <2>1. x \in [pc : Steps, of : Decisions] /\ x.pc = s /\ x.of = work[p].of
      <3>1. s \in Steps
        BY DEF Steps
      <3> QED BY <1>0, <3>1, PolicyMoves, Zenon
    <2>2. work' = [work EXCEPT ![p] = x] \/ work' = [work EXCEPT ![p] = IdlePlan]
      BY <1>2, Zenon
    <2> HIDE DEF x
    <2> QED BY <1>0, <2>1, <2>2 DEF PolicyTypes
  <1>3. CASE Start(p)
    <2>1. PICK live \in {key, NoDecision} :
            /\ version' = [version EXCEPT ![p] = live.version] /\ StoreIfNewer(p, live)
      BY <1>3, Zenon DEF Start
    <2>2. live \in Recorded /\ live \in Decisions
      BY <1>0 DEF PolicyInv, PolicyTypes
    <2>3. /\ work' = [work EXCEPT ![p] = IdlePlan] /\ UNCHANGED <<ticks, db, key, sub>>
      BY <1>3 DEF Start
    <2>4. version' \in [Planes -> Nat]
      BY <1>0, <2>1, <2>2 DEF PolicyTypes, Decisions
    <2>5. PolicyTypes'
      BY <1>0, <1>1, <2>1, <2>2, <2>3, <2>4 DEF PolicyTypes
    <2>6. /\ work'[p].pc = "idle" /\ sub'[p].got \in Recorded /\ key' \in Recorded
          /\ \A q \in Planes \ {p} : work'[q] = work[q] /\ sub'[q] = sub[q]
      BY <1>0, <2>3, SMTT(20) DEF PolicyTypes, PolicyInv
    <2> QED BY <1>1, <2>1, <2>2, <2>3, <2>5, <2>6, PolicyKept
  <1>4. CASE Tick(p)
    <2>1. /\ UNCHANGED <<db, key, sub, holder>> /\ ticks' = ticks + 1
          /\ version' = [version EXCEPT ![p] = version[p] + 1]
          /\ work' = [work EXCEPT ![p] =
               [pc |-> "insert", of |-> [version |-> version[p] + 1, tick |-> ticks + 1]]]
      BY <1>4 DEF Tick
    <2>2. version[p] \in Nat /\ ticks \in Nat
      BY <1>0 DEF PolicyTypes
    <2>3. PolicyTypes'
      BY <1>0, <2>1, <2>2 DEF PolicyTypes, Decisions, Steps
    <2>4. /\ work'[p].pc = "insert" /\ work'[p].of.version > 0
          /\ \A q \in Planes \ {p} : work'[q] = work[q]
      BY <1>0, <2>1, <2>2 DEF PolicyTypes
    <2> QED BY <2>1, <2>3, <2>4, PolicyKept, ZenonT(30) DEF PolicyInv
  <1>5. CASE Insert(p)
    <2>1. UNCHANGED <<ticks, version, key, sub, holder>> /\ work[p].pc = "insert"
      BY <1>5 DEF Insert
    <2>2. CASE work' = [work EXCEPT ![p] = IdlePlan] /\ db' = db
      <3>1. PolicyTypes' /\ work'[p].pc = "idle" /\ \A q \in Planes \ {p} : work'[q] = work[q]
        BY <1>0, <1>2, <2>1, <2>2 DEF PolicyTypes
      <3> QED BY <2>1, <2>2, <3>1, PolicyKept DEF PolicyInv
    <2>3. CASE /\ \A d \in db : d.version # work[p].of.version
               /\ db' = db \cup {work[p].of} /\ work' = [work EXCEPT ![p].pc = "set"]
      <3>1. PolicyTypes' /\ work'[p].pc \in {"idle", "set"} /\ work'[p].of = work[p].of
            /\ \A q \in Planes \ {p} : work'[q] = work[q]
        <4> DEFINE x == [work[p] EXCEPT !.pc = "set"]
        <4>1. x \in [pc : Steps, of : Decisions] /\ x.pc = "set" /\ x.of = work[p].of
          <5>1. "set" \in Steps
            BY DEF Steps
          <5> QED BY <1>0, <5>1, PolicyMoves, Zenon
        <4>2. work' = [work EXCEPT ![p] = x]
          BY <2>3, Zenon
        <4> HIDE DEF x
        <4> QED BY <1>0, <2>1, <2>3, <4>1, <4>2 DEF PolicyTypes
      <3>2. work[p].of.version > 0 /\ work[p].of \in Decisions
        BY <1>0, <2>1 DEF PolicyInv
      <3>3. \A d, e \in db' : d.version = e.version => d = e
        BY <2>3 DEF PolicyInv
      <3>4. Recorded \subseteq Recorded' /\ db \subseteq db' /\ \A d \in db' : d.version > 0
        BY <2>3, <3>2 DEF Recorded, PolicyInv, NoDecision
      <3>5. ASSUME NEW q \in Planes
            PROVE  /\ work'[q].pc = "insert" => work'[q].of.version > 0
                   /\ work'[q].pc \in {"set", "publish", "store"} => work'[q].of \in db'
        BY <2>3, <3>1, <3>4 DEF PolicyInv
      <3> QED BY <2>1, <3>1, <3>3, <3>4, <3>5 DEF PolicyInv
    <2> QED BY <1>5, <2>2, <2>3, Zenon DEF Insert
  <1>6. CASE SetKey(p) \/ Publish(p)
    <2>1. /\ work[p].pc \in {"set", "publish"} /\ UNCHANGED <<ticks, version, db, sub, holder>>
          /\ key' = key \/ (key' = work[p].of /\ work[p].pc = "set")
          /\ \E s \in {"publish", "store"} :
               work' = [work EXCEPT ![p].pc = s] \/ work' = [work EXCEPT ![p] = IdlePlan]
      BY <1>6, Zenon DEF SetKey, Publish
    <2>2. /\ work' \in [Planes -> [pc : Steps, of : Decisions]]
          /\ \A q \in Planes \ {p} : work'[q] = work[q]
          /\ work'[p].pc = "idle" \/ (work'[p].pc \in {"publish", "store"} /\ work'[p].of = work[p].of)
      BY <1>2, <2>1
    <2>3. work[p].of \in db /\ work[p].of \in Decisions
      BY <1>0, <2>1 DEF PolicyInv
    <2>4. PolicyTypes' /\ key' \in Recorded
      BY <1>0, <2>1, <2>2, <2>3, SMTT(20) DEF PolicyTypes, PolicyInv, Recorded
    <2> QED BY <2>1, <2>2, <2>3, <2>4, PolicyKept DEF PolicyInv
  <1>7. CASE StoreOwn(p)
    <2>1. /\ work[p].pc = "store" /\ UNCHANGED <<ticks, version, db, key, sub>>
          /\ StoreIfNewer(p, work[p].of)
          /\ work' = [work EXCEPT ![p] = IdlePlan]
      BY <1>7 DEF StoreOwn
    <2>2. work[p].of \in Recorded
      BY <2>1 DEF PolicyInv, Recorded
    <2>3. /\ work'[p].pc = "idle" /\ \A q \in Planes \ {p} : work'[q] = work[q]
          /\ work' \in [Planes -> [pc : Steps, of : Decisions]]
      BY <1>0, <2>1 DEF PolicyTypes
    <2>4. PolicyTypes'
      BY <1>0, <1>1, <2>1, <2>2, <2>3 DEF PolicyTypes
    <2> QED BY <1>1, <2>1, <2>2, <2>3, <2>4, PolicyKept DEF PolicyInv
  <1> QED BY <1>3, <1>4, <1>5, <1>6, <1>7 DEF Service

\* The subscriber reads the key, which holds a recorded decision, and stores it.
LEMMA PolicySubscriber ==
  ASSUME PolicyInv, NEW p \in Planes, Subscriber(p) PROVE PolicyInv'
  <1> USE PolicyRecords
  <1> DEFINE Sub == [pc : Steps, got : Decisions]
  <1>0. PolicyTypes /\ sub[p] \in Sub /\ sub[p].got \in Recorded /\ key \in Recorded
    BY DEF PolicyInv, PolicyTypes
  <1>1. /\ UNCHANGED <<ticks, version, work, db, key>>
        /\ \/ UNCHANGED holder
           \/ StoreIfNewer(p, sub[p].got)
    BY DEF Subscriber, FirstGet, Subscribe, OnMessage, StoreRead
  <1>2. /\ holder' \in [Planes -> Decisions] /\ holder'[p] \in Recorded
        /\ \A q \in Planes \ {p} : holder'[q] = holder[q]
    BY <1>0, <1>1, SMTT(20) DEF StoreIfNewer, PolicyInv, PolicyTypes
  <1>3. ASSUME NEW x \in Sub, x.got \in Recorded, sub' = [sub EXCEPT ![p] = x]
        PROVE  PolicyInv'
    <2>1. PolicyTypes' /\ sub'[p].got \in Recorded /\ \A q \in Planes \ {p} : sub'[q] = sub[q]
      BY <1>0, <1>1, <1>2, <1>3, SMTT(20) DEF PolicyTypes
    <2> QED BY <1>1, <1>2, <2>1, PolicyKept, Zenon DEF PolicyInv
  <1>4. CASE sub' = sub
    <2>1. PolicyTypes'
      BY <1>0, <1>1, <1>2, <1>4 DEF PolicyTypes
    <2> QED BY <1>0, <1>1, <1>2, <1>4, <2>1, PolicyKept DEF PolicyInv
  <1>5. ASSUME NEW s \in {"first", "store"}, sub' = [sub EXCEPT ![p] = [pc |-> s, got |-> key]]
        PROVE  PolicyInv'
    <2> DEFINE x == [pc |-> s, got |-> key]
    <2>1. x \in Sub /\ x.got \in Recorded
      BY <1>0 DEF PolicyTypes, Steps
    <2>2. sub' = [sub EXCEPT ![p] = x]
      BY <1>5
    <2> HIDE DEF x
    <2> QED BY <1>3, <2>1, <2>2, Zenon
  <1>6. ASSUME NEW s \in Steps, sub' = [sub EXCEPT ![p].pc = s] PROVE PolicyInv'
    <2> DEFINE x == [sub[p] EXCEPT !.pc = s]
    <2>1. x \in Sub /\ x.got = sub[p].got
      BY <1>0, PolicyMoves, Zenon
    <2>2. sub' = [sub EXCEPT ![p] = x]
      BY <1>6, Zenon
    <2> HIDE DEF x
    <2> QED BY <1>0, <1>3, <2>1, <2>2, Zenon
  <1>7. CASE StoreRead(p)
    <2> DEFINE s == IF sub[p].pc = "first" THEN "subscribe" ELSE "idle"
               x == [OffSub EXCEPT !.pc = s]
    <2>1. s \in Steps
      BY DEF Steps
    <2>2. sub' = [sub EXCEPT ![p] = x]
      BY <1>7, Zenon DEF StoreRead
    <2> HIDE DEF s
    <2>3. x \in Sub /\ x.got = NoDecision
      BY <2>1, PolicyMoves, Zenon
    <2> HIDE DEF x
    <2> QED BY <1>3, <2>2, <2>3, Zenon
  <1>8. CASE FirstGet(p)
    <2>1. \/ sub' = [sub EXCEPT ![p] = [pc |-> "first", got |-> key]]
          \/ sub' = [sub EXCEPT ![p].pc = "subscribe"]
      BY <1>8, Zenon DEF FirstGet
    <2> QED BY <1>5, <1>6, <2>1, Zenon DEF Steps
  <1>9. CASE Subscribe(p)
    BY <1>6, <1>9, Zenon DEF Subscribe, Steps
  <1>10. CASE OnMessage(p)
    BY <1>4, <1>5, <1>10, Zenon DEF OnMessage
  <1> QED BY <1>7, <1>8, <1>9, <1>10 DEF Subscriber

\* A plane that starts again has nothing, and the key may be gone; the rows stay.
LEMMA PolicyFaults ==
  ASSUME PolicyInv, LoseKey \/ \E p \in Planes : Crash(p) PROVE PolicyInv'
  <1> USE PolicyRecords
  <1>1. CASE LoseKey
    BY <1>1, SMTT(20) DEF LoseKey, PolicyInv, PolicyTypes, Recorded
  <1>2. ASSUME NEW p \in Planes, Crash(p) PROVE PolicyInv'
    <2> DEFINE x == [IdlePlan EXCEPT !.pc = "start"]
    <2>1. x \in [pc : Steps, of : Decisions] /\ x.pc = "start"
      <3>1. "start" \in Steps
        BY DEF Steps
      <3> QED BY <3>1, PolicyMoves, Zenon
    <2>2. /\ work' = [work EXCEPT ![p] = x] /\ sub' = [sub EXCEPT ![p] = OffSub]
          /\ holder' = [holder EXCEPT ![p] = NoDecision]
          /\ version' = [version EXCEPT ![p] = 0] /\ UNCHANGED <<ticks, db, key>>
      BY <1>2 DEF Crash
    <2> HIDE DEF x
    <2>3. PolicyTypes'
      BY <2>1, <2>2 DEF PolicyInv, PolicyTypes
    <2>4. /\ work'[p].pc = "start" /\ holder'[p] \in Recorded /\ sub'[p].got \in Recorded
          /\ \A q \in Planes \ {p} : work'[q] = work[q] /\ sub'[q] = sub[q] /\ holder'[q] = holder[q]
      BY <2>1, <2>2 DEF PolicyInv, PolicyTypes
    <2> QED BY <2>2, <2>3, <2>4, PolicyKept, Zenon DEF PolicyInv
  <1> QED BY <1>1, <1>2

LEMMA PolicyNext == PolicyInv /\ [Next]_vars => PolicyInv'
  <1>1. PolicyInv /\ UNCHANGED vars => PolicyInv'
    BY DEF PolicyInv, PolicyTypes, Recorded, vars
  <1> QED BY <1>1, PolicyService, PolicySubscriber, PolicyFaults, Zenon DEF Next

\* Whatever the crashes, failed calls and losses of the key, and however many
\* planners there are, the policy under the key, in a holder or on its way to
\* one was recorded, and is the only one of its version (planner/loop.go,
\* tick and Publish; routing/policy.go).
THEOREM PoliciesRecorded == Spec => []InUseIsRecorded
  BY PolicyInit, PolicyNext, PolicyImplies, PTL DEF Spec

-----------------------------------------------------------------------------
(***************************************************************************)
(* The cache registry: its two maps tell the same, and what is removed     *)
(* stays gone, with events lost and in any order.                          *)
(***************************************************************************)
CONSTANTS Workers, Blocks, Spaces, Posts
VARIABLES byBlock, byWorker, chan, task, gone

Cache == INSTANCE CacheRegistry

Held == Workers \X Blocks
CacheSteps == {"idle", "apply", "copy", "store", "publish", "done"}
AnyEvent == Cache!Events \cup {Cache!NoEvent}
Task == {t \in [pc : CacheSteps, plane : Planes, ev : AnyEvent, copy : SUBSET Held] :
           t.pc \in {"apply", "publish"} => t.ev \in Cache!Events}

CacheTypes ==
    /\ Planes # {}
    /\ byBlock \in [Planes -> SUBSET (Spaces \X Blocks \X Workers)]
    /\ byWorker \in [Planes -> SUBSET Held]
    /\ chan \in [Planes -> Seq(Cache!Events)]
    /\ task \in [Cache!Goroutines -> Task]
    /\ gone \in [Planes -> SUBSET Held]
    /\ \A p \in Planes : task[Cache!Sub(p)].plane = p /\ task[Cache!Ticker(p)].plane = p

LEMMA GoroutineNames ==
    ASSUME NEW p \in Planes
    PROVE  Cache!Sub(p) \in Cache!Goroutines /\ Cache!Ticker(p) \in Cache!Goroutines
BY DEF Cache!Sub, Cache!Ticker, Cache!Goroutines

LEMMA TaskType ==
    ASSUME NEW s \in CacheSteps, NEW p \in Planes, NEW e \in AnyEvent, NEW c \in SUBSET Held,
           s \in {"apply", "publish"} => e \in Cache!Events
    PROVE  /\ Cache!At(s, p, e, c) \in Task
           /\ Cache!At(s, p, e, c).pc = s /\ Cache!At(s, p, e, c).plane = p /\ Cache!At(s, p, e, c).ev = e
BY DEF Cache!At, Task

LEMMA TaskParts ==
    ASSUME NEW t \in Task
    PROVE  t.pc \in CacheSteps /\ t.plane \in Planes /\ t.ev \in AnyEvent /\ t.copy \in SUBSET Held
           /\ (t.pc \in {"apply", "publish"} => t.ev \in Cache!Events)
BY DEF Task

LEMMA CacheTypeInit == Planes # {} /\ Cache!Init => CacheTypes
<1> SUFFICES ASSUME Planes # {}, Cache!Init PROVE CacheTypes
  OBVIOUS
<1>1. \A g \in Cache!Goroutines : Cache!HomeOf(g) \in Planes
  BY DEF Cache!Goroutines, Cache!Handlers, Cache!HomeOf
<1>2. \A g \in Cache!Goroutines : Cache!IdleTask(Cache!HomeOf(g)) \in Task
  BY <1>1, TaskType DEF Cache!IdleTask, CacheSteps, AnyEvent
<1>3. task \in [Cache!Goroutines -> Task]
  BY <1>2 DEF Cache!Init
<1>4. \A p \in Planes : task[Cache!Sub(p)].plane = p /\ task[Cache!Ticker(p)].plane = p
  <2>1. \A p \in Planes : Cache!HomeOf(Cache!Sub(p)) = p /\ Cache!HomeOf(Cache!Ticker(p)) = p
    BY DEF Cache!HomeOf, Cache!Sub, Cache!Ticker
  <2>2. \A p \in Planes : /\ task[Cache!Sub(p)] = Cache!IdleTask(Cache!HomeOf(Cache!Sub(p)))
                          /\ task[Cache!Ticker(p)] = Cache!IdleTask(Cache!HomeOf(Cache!Ticker(p)))
    BY GoroutineNames, Zenon DEF Cache!Init
  <2>3. \A p \in Planes : Cache!IdleTask(p).plane = p
    BY DEF Cache!IdleTask, Cache!At
  <2> QED BY <2>1, <2>2, <2>3, Zenon
<1>5. chan \in [Planes -> Seq(Cache!Events)]
  BY DEF Cache!Init
<1> QED BY <1>3, <1>4, <1>5 DEF Cache!Init, CacheTypes

-----------------------------------------------------------------------------
(* Every step changes the task of one goroutine, and keeps its plane unless *)
(* a post arrives.                                                          *)

LEMMA TaskSet ==
    ASSUME CacheTypes, NEW g \in Cache!Goroutines, NEW t \in Task,
           task' = [task EXCEPT ![g] = t],
           g[1] = "post" \/ t.plane = task[g].plane
    PROVE  /\ task' \in [Cache!Goroutines -> Task]
           /\ \A p \in Planes : task'[Cache!Sub(p)].plane = p /\ task'[Cache!Ticker(p)].plane = p
<1>1. task \in [Cache!Goroutines -> Task]
  BY DEF CacheTypes
<1>2. task' \in [Cache!Goroutines -> Task]
  BY <1>1
<1>3. ASSUME NEW h \in Cache!Goroutines, h[1] # "post" PROVE task'[h].plane = task[h].plane
  <2>1. CASE h = g
    BY <1>1, <1>3, <2>1
  <2>2. CASE h # g
    BY <1>1, <2>2
  <2> QED BY <2>1, <2>2
<1>4. \A p \in Planes : Cache!Sub(p)[1] # "post" /\ Cache!Ticker(p)[1] # "post"
  BY DEF Cache!Sub, Cache!Ticker
<1> QED BY <1>2, <1>3, <1>4, GoroutineNames DEF CacheTypes

\* What a change of an index does to the types.
LEMMA ChangeType ==
    ASSUME CacheTypes, NEW p \in Planes, NEW e \in AnyEvent, Cache!Change(p, e)
    PROVE  /\ e \in Cache!Events
           /\ byBlock' \in [Planes -> SUBSET (Spaces \X Blocks \X Workers)]
           /\ byWorker' \in [Planes -> SUBSET Held]
<1>1. e \in Cache!Events
  BY DEF Cache!Change, Cache!NoEvent, AnyEvent
<1>2. e.space \in Spaces /\ e.worker \in Workers /\ e.blocks \subseteq Blocks
  BY <1>1 DEF Cache!Events
<1>3. byBlock \in [Planes -> SUBSET (Spaces \X Blocks \X Workers)]
      /\ byWorker \in [Planes -> SUBSET Held]
  BY DEF CacheTypes
<1>4. CASE Cache!Store(p, e)
  <2>1. {<<e.space, b, e.worker>> : b \in e.blocks} \subseteq Spaces \X Blocks \X Workers
    BY <1>2
  <2>2. {<<e.worker, b>> : b \in e.blocks} \subseteq Held
    BY <1>2 DEF Held
  <2> QED BY <1>1, <1>3, <1>4, <2>1, <2>2, Zenon DEF Cache!Store
<1>5. CASE Cache!Remove(p, e)
  BY <1>1, <1>3, <1>5, Zenon DEF Cache!Remove
<1>6. CASE Cache!ClearWorker(p, e)
  BY <1>1, <1>3, <1>6, Zenon DEF Cache!ClearWorker
<1> QED BY <1>1, <1>4, <1>5, <1>6 DEF Cache!Change

LEMMA CacheTypeNext == CacheTypes /\ [Cache!Next]_(Cache!vars) => CacheTypes'
<1> SUFFICES ASSUME CacheTypes, [Cache!Next]_(Cache!vars) PROVE CacheTypes'
  OBVIOUS
<1>0. /\ task \in [Cache!Goroutines -> Task] /\ chan \in [Planes -> Seq(Cache!Events)]
      /\ byWorker \in [Planes -> SUBSET Held] /\ gone \in [Planes -> SUBSET Held]
  BY DEF CacheTypes
<1>g. /\ \A g \in Cache!Goroutines : /\ task[g].plane \in Planes /\ task[g].ev \in AnyEvent
                               /\ byWorker[task[g].plane] \in SUBSET Held
      /\ Cache!Handlers \subseteq Cache!Goroutines /\ \A g \in Cache!Handlers : g[1] = "post"
      /\ {} \in SUBSET Held /\ Cache!NoEvent \in AnyEvent /\ Cache!Events \subseteq AnyEvent
  BY <1>0, TaskParts DEF Cache!Goroutines, Cache!Handlers, AnyEvent
<1>1. ASSUME NEW g \in Cache!Handlers, Cache!Post(g) PROVE CacheTypes'
  <2>1. PICK p \in Planes, e \in Cache!Events :
          /\ task' = [task EXCEPT ![g] = Cache!At("apply", p, e, {})]
          /\ gone' = [q \in Planes |-> gone[q] \ Cache!Stores(e)]
    BY <1>1, Zenon DEF Cache!Post
  <2>2. Cache!At("apply", p, e, {}) \in Task
    BY <1>g, TaskType DEF CacheSteps
  <2>3. gone' \in [Planes -> SUBSET Held]
    BY <1>0, <2>1
  <2>4. /\ task' \in [Cache!Goroutines -> Task]
        /\ \A q \in Planes : task'[Cache!Sub(q)].plane = q /\ task'[Cache!Ticker(q)].plane = q
    <3> DEFINE t == Cache!At("apply", p, e, {})
    <3>1. t \in Task /\ task' = [task EXCEPT ![g] = t] /\ g \in Cache!Goroutines /\ g[1] = "post"
      BY <1>g, <2>1, <2>2
    <3> HIDE DEF t
    <3> QED BY <3>1, TaskSet, Zenon
  <2> QED BY <1>1, <2>3, <2>4 DEF Cache!Post, CacheTypes
<1>2. ASSUME NEW g \in Cache!Goroutines, Cache!Apply(g) PROVE CacheTypes'
  <2>1. task[g].ev \in Cache!Events
        /\ byBlock' \in [Planes -> SUBSET (Spaces \X Blocks \X Workers)]
        /\ byWorker' \in [Planes -> SUBSET Held]
    BY <1>2, <1>g, ChangeType DEF Cache!Apply
  <2>2. Cache!Drops(task[g].ev) \subseteq Held
    BY <2>1 DEF Cache!Drops, Cache!Events, Held
  <2>3. gone' \in [Planes -> SUBSET Held]
    BY <1>0, <1>2, <2>2, Zenon DEF Cache!Apply
  <2>4. Cache!At("copy", task[g].plane, task[g].ev, {}) \in Task
        /\ Cache!At("copy", task[g].plane, task[g].ev, {}).plane = task[g].plane
    BY <1>g, TaskType DEF CacheSteps
  <2>5. task' = [task EXCEPT ![g] = Cache!At("copy", task[g].plane, task[g].ev, {})]
    BY <1>2, Zenon DEF Cache!Apply
  <2>6. /\ task' \in [Cache!Goroutines -> Task]
        /\ \A q \in Planes : task'[Cache!Sub(q)].plane = q /\ task'[Cache!Ticker(q)].plane = q
    BY <2>4, <2>5, TaskSet, Zenon
  <2> QED BY <1>2, <2>1, <2>3, <2>6, Zenon DEF Cache!Apply, CacheTypes
<1>3. ASSUME NEW g \in Cache!Goroutines, Cache!Copy(g) PROVE CacheTypes'
  <2> DEFINE t == Cache!At("store", task[g].plane, task[g].ev, byWorker[task[g].plane])
  <2>1. t \in Task /\ t.plane = task[g].plane
    BY <1>g, TaskType DEF CacheSteps
  <2>2. task' = [task EXCEPT ![g] = t]
    BY <1>3, Zenon DEF Cache!Copy
  <2> HIDE DEF t
  <2>3. /\ task' \in [Cache!Goroutines -> Task]
        /\ \A q \in Planes : task'[Cache!Sub(q)].plane = q /\ task'[Cache!Ticker(q)].plane = q
    BY <2>1, <2>2, TaskSet, Zenon
  <2> QED BY <1>3, <2>3 DEF Cache!Copy, CacheTypes
<1>4. ASSUME NEW g \in Cache!Goroutines, Cache!StoreCopy(g) PROVE CacheTypes'
  <2> DEFINE s == IF task[g].ev.type = "stored" THEN "publish" ELSE "done"
             t == IF g[1] # "post" THEN Cache!IdleTask(task[g].plane)
                  ELSE Cache!At(s, task[g].plane, task[g].ev, {})
  <2>1. task' = [task EXCEPT ![g] = t]
    BY <1>4, Zenon DEF Cache!StoreCopy
  <2>2. s \in CacheSteps /\ "idle" \in CacheSteps
    BY DEF CacheSteps
  <2>a. s # "apply"
    OBVIOUS
  <2>s. s = "publish" => task[g].ev \in Cache!Events
    BY <1>g DEF AnyEvent, Cache!NoEvent
  <2> HIDE DEF s
  <2>3. t \in Task /\ t.plane = task[g].plane
    BY <1>g, <2>s, <2>a, <2>2, TaskType DEF Cache!IdleTask
  <2> HIDE DEF t
  <2>4. /\ task' \in [Cache!Goroutines -> Task]
        /\ \A q \in Planes : task'[Cache!Sub(q)].plane = q /\ task'[Cache!Ticker(q)].plane = q
    BY <2>1, <2>3, TaskSet, Zenon
  <2> QED BY <1>4, <2>4 DEF Cache!StoreCopy, CacheTypes
<1>5. ASSUME NEW g \in Cache!Handlers, Cache!Publish(g) PROVE CacheTypes'
  <2>1. Cache!At("done", task[g].plane, task[g].ev, {}) \in Task
        /\ Cache!At("done", task[g].plane, task[g].ev, {}).plane = task[g].plane
    BY <1>g, TaskType DEF CacheSteps
  <2>2. /\ task' \in [Cache!Goroutines -> Task]
        /\ \A q \in Planes : task'[Cache!Sub(q)].plane = q /\ task'[Cache!Ticker(q)].plane = q
    BY <1>5, <1>g, <2>1, TaskSet, Zenon DEF Cache!Publish
  <2>3. PICK lost \in SUBSET Planes :
          chan' = [p \in Planes |-> IF p \in lost THEN chan[p] ELSE Append(chan[p], task[g].ev)]
    BY <1>5, Zenon DEF Cache!Publish
  <2>4. task[g].ev \in Cache!Events
    BY <1>5, <1>0, <1>g, TaskParts DEF Cache!Publish
  <2>5. chan' \in [Planes -> Seq(Cache!Events)]
    BY <1>0, <2>3, <2>4
  <2> QED BY <1>5, <2>2, <2>5 DEF Cache!Publish, CacheTypes
<1>6. ASSUME NEW p \in Planes, Cache!Receive(p) PROVE CacheTypes'
  <2>1. chan[p] \in Seq(Cache!Events) /\ chan[p] # <<>>
    BY <1>0, <1>6 DEF Cache!Receive
  <2>2. Head(chan[p]) \in Cache!Events /\ Tail(chan[p]) \in Seq(Cache!Events)
    BY <2>1
  <2>3. Cache!At("apply", p, Head(chan[p]), {}) \in Task
        /\ Cache!At("apply", p, Head(chan[p]), {}).plane = task[Cache!Sub(p)].plane
    BY <1>g, <2>2, TaskType DEF CacheSteps, CacheTypes
  <2>4. chan' \in [Planes -> Seq(Cache!Events)]
    BY <1>0, <1>6, <2>2 DEF Cache!Receive
  <2>5. /\ task' \in [Cache!Goroutines -> Task]
        /\ \A q \in Planes : task'[Cache!Sub(q)].plane = q /\ task'[Cache!Ticker(q)].plane = q
    BY <1>6, <2>3, TaskSet, GoroutineNames, Zenon DEF Cache!Receive
  <2> QED BY <1>6, <2>4, <2>5 DEF Cache!Receive, CacheTypes
<1>7. ASSUME NEW p \in Planes, Cache!Tick(p) PROVE CacheTypes'
  <2>1. Cache!At("copy", p, Cache!NoEvent, {}) \in Task
        /\ Cache!At("copy", p, Cache!NoEvent, {}).plane = task[Cache!Ticker(p)].plane
    BY <1>g, TaskType DEF CacheSteps, CacheTypes
  <2>2. /\ task' \in [Cache!Goroutines -> Task]
        /\ \A q \in Planes : task'[Cache!Sub(q)].plane = q /\ task'[Cache!Ticker(q)].plane = q
    BY <1>7, <2>1, TaskSet, GoroutineNames, Zenon DEF Cache!Tick
  <2> QED BY <1>7, <2>2 DEF Cache!Tick, CacheTypes
<1>8. CASE UNCHANGED Cache!vars
  BY <1>8 DEF Cache!vars, CacheTypes
<1> QED
  BY <1>1, <1>2, <1>3, <1>4, <1>5, <1>6, <1>7, <1>8, GoroutineNames
  DEF Cache!Next, Cache!Report, Cache!publishSnapshot, Cache!Subscriber, Cache!Ticking, Cache!Goroutines

-----------------------------------------------------------------------------
(* The two maps of an index.  Image is the map by worker that the map by    *)
(* block implies.                                                           *)

Image(B) == {<<l[3], l[2]>> : l \in B}
Triples == Spaces \X Blocks \X Workers

Pairs(w, bs) == {<<w, b>> : b \in bs}
Entries(s, w, bs) == {<<s, b, w>> : b \in bs}
Less(B, w, bs) == {l \in B : ~(l[2] \in bs /\ l[3] = w)}
HeldBy(W, w) == {b \in Blocks : <<w, b>> \in W}
Others(W, w) == {h \in W : h[1] # w}

LEMMA ImageStore ==
    ASSUME NEW B, NEW s, NEW w, NEW bs
    PROVE  Image(B \cup Entries(s, w, bs)) = Image(B) \cup Pairs(w, bs)
<1>1. Image(B \cup Entries(s, w, bs)) = Image(B) \cup Image(Entries(s, w, bs))
  BY Zenon DEF Image
<1>2. Image(Entries(s, w, bs)) = Pairs(w, bs)
  <2>1. \A b : <<s, b, w>>[3] = w /\ <<s, b, w>>[2] = b
    OBVIOUS
  <2>2. ASSUME NEW x \in Image(Entries(s, w, bs)) PROVE x \in Pairs(w, bs)
    <3>1. PICK l \in Entries(s, w, bs) : x = <<l[3], l[2]>>
      BY <2>2, Zenon DEF Image
    <3>2. PICK b \in bs : l = <<s, b, w>>
      BY Zenon DEF Entries
    <3> QED BY <3>1, <3>2 DEF Pairs
  <2>3. ASSUME NEW x \in Pairs(w, bs) PROVE x \in Image(Entries(s, w, bs))
    <3>1. PICK b \in bs : x = <<w, b>>
      BY Zenon DEF Pairs
    <3>2. <<s, b, w>> \in Entries(s, w, bs)
      BY Zenon DEF Entries
    <3>3. x = << <<s, b, w>>[3], <<s, b, w>>[2] >>
      BY <3>1
    <3> QED BY <3>2, <3>3, Zenon DEF Image
  <2> QED BY <2>2, <2>3, Zenon
<1> QED BY <1>1, <1>2, Zenon

LEMMA ImageRemove ==
    ASSUME NEW B \in SUBSET Triples, NEW w, NEW bs
    PROVE  Image(Less(B, w, bs)) = Image(B) \ Pairs(w, bs)
BY DEF Image, Triples, Less, Pairs

LEMMA ImageClear ==
    ASSUME NEW B \in SUBSET Triples, NEW w
    PROVE  Image(Less(B, w, HeldBy(Image(B), w))) = Others(Image(B), w)
BY DEF Image, Triples, Less, HeldBy, Others

LEMMA AgreeNext == CacheTypes /\ Cache!IndexesAgree /\ [Cache!Next]_(Cache!vars) => Cache!IndexesAgree'
<1> SUFFICES ASSUME CacheTypes, Cache!IndexesAgree, [Cache!Next]_(Cache!vars) PROVE Cache!IndexesAgree'
  OBVIOUS
<1>1. ASSUME NEW g \in Cache!Goroutines, Cache!Apply(g) PROVE Cache!IndexesAgree'
  <2> DEFINE p == task[g].plane
             e == task[g].ev
  <2>1. p \in Planes /\ byBlock[p] \in SUBSET Triples
        /\ DOMAIN byBlock = Planes /\ DOMAIN byWorker = Planes
    BY TaskParts DEF CacheTypes, Triples
  <2>2. byWorker[p] = Image(byBlock[p])
    BY <2>1 DEF Cache!IndexesAgree, Image
  <2>3. Cache!Change(p, e)
    BY <1>1 DEF Cache!Apply
  <2> HIDE DEF p, e
  <2>4. ASSUME NEW q \in Planes, q # p
        PROVE  byWorker'[q] = byWorker[q] /\ byBlock'[q] = byBlock[q]
    BY <2>1, <2>3, <2>4 DEF Cache!Change, Cache!Store, Cache!Remove, Cache!ClearWorker
  <2>5. byWorker'[p] = Image(byBlock'[p])
    <3>1. CASE Cache!Store(p, e)
      <4>1. byWorker'[p] = byWorker[p] \cup Pairs(e.worker, e.blocks)
        BY <2>1, <3>1, Zenon DEF Cache!Store, Pairs
      <4>2. byBlock'[p] = byBlock[p] \cup Entries(e.space, e.worker, e.blocks)
        BY <2>1, <3>1, Zenon DEF Cache!Store, Entries
      <4>3. Image(byBlock[p] \cup Entries(e.space, e.worker, e.blocks))
              = Image(byBlock[p]) \cup Pairs(e.worker, e.blocks)
        BY ImageStore
      <4> QED BY <2>2, <4>1, <4>2, <4>3, Zenon
    <3>2. CASE Cache!Remove(p, e)
      <4>1. byWorker'[p] = byWorker[p] \ Pairs(e.worker, e.blocks)
        BY <2>1, <3>2, Zenon DEF Cache!Remove, Pairs
      <4>2. byBlock'[p] = Less(byBlock[p], e.worker, e.blocks)
        BY <2>1, <3>2, Zenon DEF Cache!Remove, Less
      <4>3. Image(Less(byBlock[p], e.worker, e.blocks))
              = Image(byBlock[p]) \ Pairs(e.worker, e.blocks)
        BY <2>1, ImageRemove
      <4> QED BY <2>2, <4>1, <4>2, <4>3, Zenon
    <3>3. CASE Cache!ClearWorker(p, e)
      <4>1. byWorker'[p] = Others(byWorker[p], e.worker)
        BY <2>1, <3>3, Zenon DEF Cache!ClearWorker, Others
      <4>2. byBlock'[p] = Less(byBlock[p], e.worker, HeldBy(byWorker[p], e.worker))
        BY <2>1, <3>3, Zenon DEF Cache!ClearWorker, Less, HeldBy
      <4> QED BY <2>1, <2>2, <4>1, <4>2, ImageClear, Zenon
    <3> QED BY <2>3, <3>1, <3>2, <3>3 DEF Cache!Change
  <2> QED BY <2>4, <2>5 DEF Cache!IndexesAgree, Image
<1>2. CASE UNCHANGED <<byBlock, byWorker>>
  BY <1>2 DEF Cache!IndexesAgree
<1> QED
  BY <1>1, <1>2, GoroutineNames, Zenon
  DEF Cache!Next, Cache!Report, Cache!publishSnapshot, Cache!Subscriber, Cache!Ticking, Cache!Goroutines, Cache!vars,
      Cache!Post, Cache!Copy, Cache!StoreCopy, Cache!Publish, Cache!Receive, Cache!Tick

\* Index: byWorker and byBlock tell the same, whatever is posted, lost or late.
THEOREM IndexesAgreeAlways == Planes # {} /\ Cache!Spec => []Cache!IndexesAgree
<1>1. Planes # {} /\ Cache!Init => Cache!IndexesAgree
  <2> SUFFICES ASSUME Cache!Init, NEW p \in Planes
               PROVE  byWorker[p] = {<<l[3], l[2]>> : l \in byBlock[p]}
    BY Zenon DEF Cache!IndexesAgree
  <2>1. byWorker[p] = {} /\ byBlock[p] = {}
    BY DEF Cache!Init
  <2> QED BY <2>1, Zenon
<1> QED BY <1>1, CacheTypeInit, CacheTypeNext, AgreeNext, PTL DEF Cache!Spec

-----------------------------------------------------------------------------
(* The events that may still change a plane's index, and the invariant that *)
(* makes RemovedStaysGone inductive: none of them brings back what is gone. *)

Waiting(q) == {chan[q][i] : i \in DOMAIN chan[q]}
Carried(q) == {task[g].ev : g \in {h \in Cache!Goroutines : Cache!Busy(h, q)}}
NoneComing == \A q \in Planes : \A e \in Waiting(q) \cup Carried(q) : gone[q] \cap Cache!Stores(e) = {}

LEMMA UnderWayIs ==
    ASSUME NEW q \in Planes, NEW e \in Waiting(q) \cup Carried(q)
    PROVE  Cache!Stores(e) \subseteq Cache!UnderWay(q)
BY DEF Waiting, Carried, Cache!UnderWay

LEMMA CarriedNext ==
    ASSUME CacheTypes, NEW g \in Cache!Goroutines, NEW t, task' = [task EXCEPT ![g] = t],
           NEW q \in Planes, NEW S,
           t.pc \in {"apply", "copy", "store", "publish"} /\ (g[1] = "post" \/ t.plane = q)
             => t.ev \in S
    PROVE  Carried(q)' \subseteq Carried(q) \cup S
<1> SUFFICES ASSUME NEW h \in Cache!Goroutines, Cache!Busy(h, q)'
             PROVE  task'[h].ev \in Carried(q) \cup S
  BY DEF Carried
<1>1. CASE h = g
  BY <1>1 DEF Cache!Busy, CacheTypes
<1>2. CASE h # g
  <2>1. task'[h] = task[h]
    BY <1>2 DEF CacheTypes
  <2> QED BY <2>1 DEF Cache!Busy, Carried
<1> QED BY <1>1, <1>2

\* A step that leaves the index and the history alone, and brings a plane no
\* event but one that was on its way to it or stores nothing.
LEMMA Quiet ==
    ASSUME Cache!RemovedStaysGone, NoneComing, UNCHANGED <<byWorker, gone>>,
           \A q \in Planes : \A e \in (Waiting(q) \cup Carried(q))' :
               e \in Waiting(q) \cup Carried(q) \/ Cache!Stores(e) = {}
    PROVE  Cache!RemovedStaysGone' /\ NoneComing'
BY DEF Cache!RemovedStaysGone, NoneComing

\* What a change does to what the workers hold.
LEMMA ChangeHeld ==
    ASSUME CacheTypes, NEW p \in Planes, NEW e \in Cache!Events, Cache!Change(p, e)
    PROVE  /\ byWorker'[p] \subseteq byWorker[p] \cup Cache!Stores(e)
           /\ byWorker'[p] \cap Cache!Drops(e) = {}
           /\ \A q \in Planes : q # p => byWorker'[q] = byWorker[q]
<1>1. DOMAIN byWorker = Planes /\ byWorker[p] \in SUBSET Held
  BY DEF CacheTypes
<1>2. CASE e.type = "stored" /\ Cache!Store(p, e)
  <2>1. Cache!Drops(e) = {} /\ Cache!Stores(e) = {<<e.worker, b>> : b \in e.blocks}
    BY <1>2 DEF Cache!Drops, Cache!Stores
  <2> QED BY <1>1, <1>2, <2>1, Zenon DEF Cache!Store
<1>3. CASE e.type = "removed" /\ Cache!Remove(p, e)
  <2>1. Cache!Drops(e) = {<<e.worker, b>> : b \in e.blocks}
    BY <1>3 DEF Cache!Drops
  <2> QED BY <1>1, <1>3, <2>1, Zenon DEF Cache!Remove
<1>4. CASE e.type = "cleared" /\ Cache!ClearWorker(p, e)
  <2>1. Cache!Drops(e) = {<<e.worker, b>> : b \in Blocks}
    BY <1>4 DEF Cache!Drops
  <2>2. byWorker'[p] = Others(byWorker[p], e.worker)
        /\ \A q \in Planes : q # p => byWorker'[q] = byWorker[q]
    BY <1>1, <1>4, Zenon DEF Cache!ClearWorker, Others
  <2>3. Others(byWorker[p], e.worker) \cap Cache!Drops(e) = {}
    BY <2>1 DEF Others
  <2>4. Others(byWorker[p], e.worker) \subseteq byWorker[p]
    BY DEF Others
  <2> QED BY <2>2, <2>3, <2>4, Zenon
<1> QED BY <1>2, <1>3, <1>4 DEF Cache!Change

LEMMA GoneApply ==
    ASSUME CacheTypes, Cache!RemovedStaysGone, NoneComing, NEW g \in Cache!Goroutines, Cache!Apply(g)
    PROVE  Cache!RemovedStaysGone' /\ NoneComing'
<1> DEFINE p == task[g].plane
           e == task[g].ev
<1>1. p \in Planes /\ e \in Cache!Events /\ task[g].pc = "apply" /\ Cache!Change(p, e)
      /\ task' = [task EXCEPT ![g] = Cache!At("copy", p, e, {})] /\ chan' = chan
      /\ gone' = [gone EXCEPT ![p] = @ \cup (Cache!Drops(e) \ Cache!UnderWay(p))]
  BY TaskParts DEF CacheTypes, Cache!Apply
<1>2. e \in Carried(p)
  BY <1>1 DEF Carried, Cache!Busy
<1>3. \A q \in Planes : Carried(q)' \subseteq Carried(q)
  <2> SUFFICES ASSUME NEW q \in Planes PROVE Carried(q)' \subseteq Carried(q)
    OBVIOUS
  <2> DEFINE t == Cache!At("copy", p, e, {})
  <2>1. t.pc = "copy" /\ t.plane = p /\ t.ev = e
    BY DEF Cache!At
  <2>2. g[1] = "post" \/ p = q => e \in Carried(q)
    BY <1>1 DEF Carried, Cache!Busy
  <2>3. task' = [task EXCEPT ![g] = t]
    BY <1>1
  <2> HIDE DEF t, p, e
  <2>a. t.pc \in {"apply", "copy", "store", "publish"} /\ (g[1] = "post" \/ t.plane = q)
          => t.ev \in Carried(q)
    BY <2>1, <2>2
  <2>4. Carried(q)' \subseteq Carried(q) \cup Carried(q)
    BY <2>a, <2>3, CarriedNext, Zenon
  <2> QED BY <2>4
<1>4. \A q \in Planes : Waiting(q)' = Waiting(q)
  BY <1>1 DEF Waiting
<1> HIDE DEF p, e
<1>5. /\ gone'[p] = gone[p] \cup (Cache!Drops(e) \ Cache!UnderWay(p))
      /\ \A q \in Planes : q # p => gone'[q] = gone[q]
  BY <1>1 DEF CacheTypes
<1>6. /\ byWorker'[p] \subseteq byWorker[p] \cup Cache!Stores(e)
      /\ byWorker'[p] \cap Cache!Drops(e) = {}
      /\ \A q \in Planes : q # p => byWorker'[q] = byWorker[q]
  BY <1>1, ChangeHeld
<1>7. gone[p] \cap Cache!Stores(e) = {}
  BY <1>1, <1>2 DEF NoneComing
<1>8. Cache!RemovedStaysGone'
  BY <1>1, <1>5, <1>6, <1>7 DEF Cache!RemovedStaysGone
<1>9. ASSUME NEW q \in Planes, NEW f \in Waiting(q)' \cup Carried(q)'
      PROVE  gone'[q] \cap Cache!Stores(f) = {}
  <2>1. f \in Waiting(q) \cup Carried(q)
    BY <1>3, <1>4, <1>9
  <2>2. gone[q] \cap Cache!Stores(f) = {} /\ Cache!Stores(f) \subseteq Cache!UnderWay(q)
    BY <2>1, UnderWayIs DEF NoneComing
  <2> QED BY <1>5, <2>2
<1> QED BY <1>8, <1>9 DEF NoneComing

LEMMA GonePost ==
    ASSUME CacheTypes, Cache!RemovedStaysGone, NoneComing, NEW g \in Cache!Handlers, Cache!Post(g)
    PROVE  Cache!RemovedStaysGone' /\ NoneComing'
<1>1. PICK p \in Planes, e \in Cache!Events :
        /\ task' = [task EXCEPT ![g] = Cache!At("apply", p, e, {})]
        /\ gone' = [q \in Planes |-> gone[q] \ Cache!Stores(e)]
  BY Zenon DEF Cache!Post
<1>2. g \in Cache!Goroutines /\ byWorker' = byWorker /\ chan' = chan
  BY DEF Cache!Post, Cache!Goroutines
<1>3. ASSUME NEW q \in Planes PROVE Carried(q)' \subseteq Carried(q) \cup {e}
  <2> DEFINE t == Cache!At("apply", p, e, {})
  <2>1. t.pc \in {"apply", "copy", "store", "publish"} /\ (g[1] = "post" \/ t.plane = q)
          => t.ev \in {e}
    BY DEF Cache!At
  <2>2. task' = [task EXCEPT ![g] = t]
    BY <1>1
  <2> HIDE DEF t
  <2> QED BY <1>2, <2>1, <2>2, CarriedNext, Zenon
<1>4. \A q \in Planes : Waiting(q)' = Waiting(q)
  BY <1>2 DEF Waiting
<1>5. Cache!RemovedStaysGone'
  BY <1>1, <1>2 DEF Cache!RemovedStaysGone
<1>6. ASSUME NEW q \in Planes, NEW f \in Waiting(q)' \cup Carried(q)'
      PROVE  gone'[q] \cap Cache!Stores(f) = {}
  <2>1. f \in Waiting(q) \cup Carried(q) \/ f = e
    BY <1>3, <1>4, <1>6
  <2>2. gone'[q] = gone[q] \ Cache!Stores(e)
    BY <1>1
  <2> QED BY <2>1, <2>2 DEF NoneComing
<1> QED BY <1>5, <1>6 DEF NoneComing

LEMMA GoneNext == CacheTypes /\ Cache!RemovedStaysGone /\ NoneComing /\ [Cache!Next]_(Cache!vars)
                    => Cache!RemovedStaysGone' /\ NoneComing'
<1> SUFFICES ASSUME CacheTypes, Cache!RemovedStaysGone, NoneComing, [Cache!Next]_(Cache!vars)
             PROVE  Cache!RemovedStaysGone' /\ NoneComing'
  OBVIOUS
<1> DEFINE Kept == Cache!RemovedStaysGone' /\ NoneComing'
           Moving == {"apply", "copy", "store", "publish"}
<1>g. Cache!Handlers \subseteq Cache!Goroutines /\ \A h \in Cache!Handlers : h[1] = "post"
  BY DEF Cache!Goroutines, Cache!Handlers
<1>n. Cache!Stores(Cache!NoEvent) = {}
  BY DEF Cache!Stores, Cache!NoEvent
<1>1. ASSUME NEW g \in Cache!Goroutines, Cache!Copy(g) \/ Cache!StoreCopy(g) PROVE Kept
  <2>1. ASSUME NEW q \in Planes PROVE Carried(q)' \subseteq Carried(q)
    <3>1. PICK t : /\ task' = [task EXCEPT ![g] = t]
                   /\ t.pc \in Moving => t.plane = task[g].plane /\ t.ev = task[g].ev
      <4>1. CASE Cache!Copy(g)
        <5> DEFINE u == Cache!At("store", task[g].plane, task[g].ev, byWorker[task[g].plane])
        <5>1. u.plane = task[g].plane /\ u.ev = task[g].ev
          BY DEF Cache!At
        <5>2. task' = [task EXCEPT ![g] = u]
          BY <4>1, Zenon DEF Cache!Copy
        <5> HIDE DEF u
        <5> QED BY <5>1, <5>2, Zenon
      <4>2. CASE Cache!StoreCopy(g)
        <5> DEFINE u == IF g[1] # "post" THEN Cache!IdleTask(task[g].plane)
                        ELSE Cache!At(IF task[g].ev.type = "stored" THEN "publish" ELSE "done",
                                task[g].plane, task[g].ev, {})
        <5>1. u.pc \in Moving => u.plane = task[g].plane /\ u.ev = task[g].ev
          BY DEF Cache!At, Cache!IdleTask
        <5>2. task' = [task EXCEPT ![g] = u]
          BY <4>2, Zenon DEF Cache!StoreCopy
        <5> HIDE DEF u
        <5> QED BY <5>1, <5>2, Zenon
      <4> QED BY <1>1, <4>1, <4>2
    <3>2. task[g].pc \in Moving
      BY <1>1 DEF Cache!Copy, Cache!StoreCopy
    <3>3. t.pc \in Moving /\ (g[1] = "post" \/ t.plane = q) => t.ev \in Carried(q)
      BY <3>1, <3>2 DEF Carried, Cache!Busy
    <3>4. Carried(q)' \subseteq Carried(q) \cup Carried(q)
      BY <3>1, <3>3, CarriedNext, Zenon
    <3> QED BY <3>4
  <2>2. \A q \in Planes : Waiting(q)' = Waiting(q)
    BY <1>1 DEF Cache!Copy, Cache!StoreCopy, Waiting
  <2>3. UNCHANGED <<byWorker, gone>>
    BY <1>1 DEF Cache!Copy, Cache!StoreCopy
  <2> QED BY <2>1, <2>2, <2>3, Quiet
<1>2. ASSUME NEW g \in Cache!Handlers, Cache!Publish(g) PROVE Kept
  <2>1. ASSUME NEW q \in Planes
        PROVE  Carried(q)' \subseteq Carried(q) /\ Waiting(q)' \subseteq Waiting(q) \cup Carried(q)
    <3> DEFINE t == Cache!At("done", task[g].plane, task[g].ev, {})
    <3>1. t.pc \in Moving /\ (g[1] = "post" \/ t.plane = q) => t.ev \in {}
      BY DEF Cache!At
    <3>2. task' = [task EXCEPT ![g] = t] /\ g \in Cache!Goroutines
      BY <1>2, <1>g DEF Cache!Publish
    <3> HIDE DEF t
    <3>3. Carried(q)' \subseteq Carried(q) \cup {}
      BY <3>1, <3>2, CarriedNext, Zenon
    <3>4. task[g].ev \in Carried(q)
      BY <1>2, <1>g DEF Cache!Publish, Carried, Cache!Busy
    <3>5. chan'[q] = chan[q] \/ chan'[q] = Append(chan[q], task[g].ev)
      BY <1>2 DEF Cache!Publish
    <3>6. Waiting(q)' \subseteq Waiting(q) \cup {task[g].ev}
      <4>1. chan[q] \in Seq(Cache!Events) /\ task[g].ev \in Cache!Events
        BY <1>2, <1>g, TaskParts DEF CacheTypes, Cache!Publish
      <4> QED BY <3>5, <4>1 DEF Waiting
    <3> QED BY <3>3, <3>4, <3>6
  <2>2. UNCHANGED <<byWorker, gone>>
    BY <1>2 DEF Cache!Publish
  <2> QED BY <2>1, <2>2, Quiet
<1>3. ASSUME NEW p \in Planes, Cache!Receive(p) PROVE Kept
  <2> DEFINE t == Cache!At("apply", p, Head(chan[p]), {})
  <2>1. task' = [task EXCEPT ![Cache!Sub(p)] = t] /\ Cache!Sub(p) \in Cache!Goroutines
    BY <1>3, GoroutineNames DEF Cache!Receive
  <2>2. chan[p] \in Seq(Cache!Events) /\ chan[p] # <<>> /\ chan' = [chan EXCEPT ![p] = Tail(@)]
    BY <1>3 DEF Cache!Receive, CacheTypes
  <2>3. Head(chan[p]) \in Waiting(p)
    BY <2>2 DEF Waiting
  <2>4. t.plane = p /\ t.ev = Head(chan[p]) /\ Cache!Sub(p)[1] # "post"
    BY DEF Cache!At, Cache!Sub
  <2> HIDE DEF t
  <2>5. ASSUME NEW q \in Planes PROVE Carried(q)' \subseteq Carried(q) \cup Waiting(q)
    <3>1. t.pc \in Moving /\ (Cache!Sub(p)[1] = "post" \/ t.plane = q) => t.ev \in Waiting(q)
      BY <2>3, <2>4
    <3> QED BY <2>1, <3>1, CarriedNext, Zenon
  <2>6. ASSUME NEW q \in Planes PROVE Waiting(q)' \subseteq Waiting(q)
    <3>1. CASE q = p
      <4>1. chan'[p] = Tail(chan[p])
        BY <2>2 DEF CacheTypes
      <4>2. \A i \in DOMAIN Tail(chan[p]) : /\ i + 1 \in DOMAIN chan[p]
                                            /\ Tail(chan[p])[i] = chan[p][i + 1]
        BY <2>2
      <4> QED BY <3>1, <4>1, <4>2 DEF Waiting
    <3>2. CASE q # p
      BY <3>2, <2>2 DEF Waiting, CacheTypes
    <3> QED BY <3>1, <3>2
  <2>7. UNCHANGED <<byWorker, gone>>
    BY <1>3 DEF Cache!Receive
  <2> QED BY <2>5, <2>6, <2>7, Quiet
<1>4. ASSUME NEW p \in Planes, Cache!Tick(p) PROVE Kept
  <2> DEFINE t == Cache!At("copy", p, Cache!NoEvent, {})
  <2>1. task' = [task EXCEPT ![Cache!Ticker(p)] = t] /\ Cache!Ticker(p) \in Cache!Goroutines /\ t.ev = Cache!NoEvent
    BY <1>4, GoroutineNames, Zenon DEF Cache!Tick, Cache!At
  <2> HIDE DEF t
  <2>2. ASSUME NEW q \in Planes PROVE Carried(q)' \subseteq Carried(q) \cup {Cache!NoEvent}
    <3>1. t.pc \in Moving /\ (Cache!Ticker(p)[1] = "post" \/ t.plane = q) => t.ev \in {Cache!NoEvent}
      BY <2>1
    <3> QED BY <2>1, <3>1, CarriedNext, Zenon
  <2>3. \A q \in Planes : Waiting(q)' = Waiting(q)
    BY <1>4 DEF Cache!Tick, Waiting
  <2>4. UNCHANGED <<byWorker, gone>>
    BY <1>4 DEF Cache!Tick
  <2> QED BY <1>n, <2>2, <2>3, <2>4, Quiet
<1>5. CASE UNCHANGED Cache!vars
  BY <1>5 DEF Cache!vars, Cache!RemovedStaysGone, NoneComing, Waiting, Carried, Cache!Busy
<1> QED
  BY <1>1, <1>2, <1>3, <1>4, <1>5, <1>g, GoroutineNames, GonePost, GoneApply
  DEF Cache!Next, Cache!Report, Cache!publishSnapshot, Cache!Subscriber, Cache!Ticking

\* Index.Remove and ClearWorker: no interleaving of posts, subscribers and
\* tickers brings a removed block back, unless a report of it was on its way.
THEOREM RemovedStaysGoneAlways == Planes # {} /\ Cache!Spec => []Cache!RemovedStaysGone
<1>1. Planes # {} /\ Cache!Init => Cache!RemovedStaysGone /\ NoneComing
  BY DEF Cache!Init, Cache!RemovedStaysGone, NoneComing
<1> QED BY <1>1, CacheTypeInit, CacheTypeNext, GoneNext, PTL DEF Cache!Spec

-----------------------------------------------------------------------------
(***************************************************************************)
(* What a decision holds: weights that are shares of a sum.  A sum over    *)
(* the rows of a snapshot is a recursive function of a set, so that facts  *)
(* about it are proved by looking for the smallest set that breaks them.   *)
(***************************************************************************)
INSTANCE FiniteSetTheorems

HasSmallest(C) == \E T \in C : \A U \in C : U \subseteq T => U = T

\* Among sets of elements of a finite set there is one that contains no other.
LEMMA SmallestSet ==
  ASSUME NEW S, IsFiniteSet(S), NEW C \in SUBSET SUBSET S, C # {}
  PROVE  HasSmallest(C)
<1>1. IsWellFoundedOn(StrictSubsetOrdering(S), FiniteSubsetsOf(S))
  BY FS_StrictSubsetOrderingWellFounded
<1>2. C \subseteq FiniteSubsetsOf(S)
  BY FS_FiniteSubsetsOfFinite
<1>3. PICK T \in C : \A U \in C : ~(<<U, T>> \in StrictSubsetOrdering(S))
  BY <1>1, <1>2, WFMin
<1> QED BY <1>3, Zenon DEF StrictSubsetOrdering, HasSmallest

\* g has the sums of f over the sets of D, each from that over a smaller one.
Some(T) == CHOOSE x \in T : TRUE
Sums(g, f, D) == g = [T \in D |-> IF T = {} THEN 0 ELSE f[Some(T)] + g[T \ {Some(T)}]]

LEMMA SomeIs ==
  ASSUME NEW T, T # {}
  PROVE  Some(T) \in T
BY DEF Some

LEMMA SumsAre ==
  ASSUME NEW g, NEW f, NEW D, Sums(g, f, D)
  PROVE  \A T \in D : g[T] = IF T = {} THEN 0 ELSE f[Some(T)] + g[T \ {Some(T)}]
<1> DEFINE h == [T \in D |-> IF T = {} THEN 0 ELSE f[Some(T)] + g[T \ {Some(T)}]]
<1>1. g = h
  BY DEF Sums
<1>2. \A T \in D : h[T] = IF T = {} THEN 0 ELSE f[Some(T)] + g[T \ {Some(T)}]
  OBVIOUS
<1> HIDE DEF h
<1> QED BY <1>1, <1>2, Zenon

\* The subsets of S of no more than n elements.
Small(S, n) == {T \in SUBSET S : Cardinality(T) <= n}

\* There are such sums, found for the sets of one more element at a time.
LEMMA SumsExist ==
  ASSUME NEW S, IsFiniteSet(S), NEW f
  PROVE  \E g : Sums(g, f, SUBSET S)
<1> DEFINE N == Cardinality(S)
           Have(n) == \E g : Sums(g, f, Small(S, n))
           B == {n \in 0..N : ~Have(n)}
<1>1. N \in Nat /\ Small(S, N) = SUBSET S
  BY FS_CardinalityType, FS_Subset DEF Small
<1>2. \A T \in SUBSET S : IsFiniteSet(T) /\ Cardinality(T) \in Nat
  BY FS_CardinalityType, FS_Subset
<1>3. B \in SUBSET (0..N) /\ \A n \in 0..N : n \in B <=> ~Have(n)
  OBVIOUS
<1> HIDE DEF B, N
<1>4. 0 \notin B
  <2> DEFINE g == [T \in Small(S, 0) |-> 0]
  <2>1. \A T \in Small(S, 0) : T = {}
    BY <1>2, FS_EmptySet DEF Small
  <2>2. g = [T \in Small(S, 0) |-> IF T = {} THEN 0 ELSE f[Some(T)] + g[T \ {Some(T)}]]
    BY <2>1
  <2>3. Sums(g, f, Small(S, 0))
    BY <2>2 DEF Sums
  <2>4. Have(0)
    BY <2>3
  <2> HIDE DEF Have
  <2> QED BY <1>1, <1>3, <2>4
<1>5. ASSUME NEW n \in 0..N, n # N, n \notin B
      PROVE  n + 1 \notin B
  <2>1. PICK g : Sums(g, f, Small(S, n))
    BY <1>3, <1>5
  <2> DEFINE val(T) == IF T = {} THEN 0 ELSE f[Some(T)] + g[T \ {Some(T)}]
             h == [T \in Small(S, n + 1) |-> val(T)]
             k == [T \in Small(S, n + 1) |-> IF T = {} THEN 0 ELSE f[Some(T)] + h[T \ {Some(T)}]]
  <2>2. \A T \in Small(S, n) : g[T] = val(T)
    BY <2>1, SumsAre
  <2>3. ASSUME NEW T \in Small(S, n + 1), T # {}
        PROVE  h[T \ {Some(T)}] = g[T \ {Some(T)}]
    <3>1. Some(T) \in T
      BY <2>3, SomeIs
    <3>2. T \ {Some(T)} \in Small(S, n)
      <4>1. T \in SUBSET S /\ Cardinality(T) <= n + 1
        BY DEF Small
      <4>2. Cardinality(T \ {Some(T)}) = Cardinality(T) - 1
        BY <1>2, <3>1, <4>1, FS_RemoveElement
      <4> QED BY <1>1, <1>2, <4>1, <4>2 DEF Small
    <3>3. T \ {Some(T)} \in Small(S, n + 1)
      BY <1>1, <1>2, <3>2 DEF Small
    <3>4. h[T \ {Some(T)}] = val(T \ {Some(T)})
      BY <3>3
    <3> HIDE DEF h, val
    <3> QED BY <2>2, <3>2, <3>4
  <2>4. h = k
    <3>1. \A T \in Small(S, n + 1) : val(T) = IF T = {} THEN 0 ELSE f[Some(T)] + h[T \ {Some(T)}]
      <4> HIDE DEF h
      <4> QED BY <2>3
    <3> HIDE DEF val
    <3> QED BY <3>1, Zenon
  <2>5. Sums(h, f, Small(S, n + 1))
    <3> HIDE DEF h
    <3> QED BY <2>4, Zenon DEF Sums
  <2>6. Have(n + 1) /\ n + 1 \in 0..N
    BY <1>1, <1>5, <2>5
  <2> HIDE DEF Have
  <2> QED BY <1>3, <2>6
<1>6. ASSUME B # {}
      PROVE  FALSE
  <2> DEFINE I == 0..N
             Up(n) == {m \in I : m < n}
             C == {Up(n) : n \in B}
  <2>1. C \in SUBSET SUBSET I /\ C # {}
    BY <1>6, Zenon
  <2>2. IsFiniteSet(I)
    BY <1>1, FS_Interval
  <2>3. \E U \in C : \A V \in C : V \subseteq U => V = U
    <3> HIDE DEF C, I
    <3> QED BY <2>1, <2>2, SmallestSet DEF HasSmallest
  <2>4. PICK n \in B : \A k \in B : Up(k) \subseteq Up(n) => Up(k) = Up(n)
    <3> HIDE DEF Up, I
    <3> QED BY <2>3
  <2>5. n \in 0..N /\ n # 0
    BY <1>3, <1>4
  <2>6. n - 1 \in B
    BY <1>1, <1>5, <2>5
  <2>7. Up(n - 1) \subseteq Up(n)
    BY <1>1, <2>5
  <2>8. n - 1 \in Up(n) /\ n - 1 \notin Up(n - 1)
    BY <1>1, <2>5
  <2> HIDE DEF Up
  <2> QED BY <2>4, <2>6, <2>7, <2>8
<1>7. \E g : Sums(g, f, Small(S, N))
  <2>1. Have(N)
    <3> HIDE DEF Have
    <3> QED BY <1>1, <1>3, <1>6
  <2> QED BY <2>1
<1> QED BY <1>1, <1>7

\* What SumFunction computes.
LEMMA SumFunctionIs ==
  ASSUME NEW f, IsFiniteSet(DOMAIN f)
  PROVE  \E g : Sums(g, f, SUBSET (DOMAIN f)) /\ SumFunction(f) = g[DOMAIN f]
<1> DEFINE S == DOMAIN f
           g == CHOOSE h : Sums(h, f, SUBSET S)
<1>1. Sums(g, f, SUBSET S)
  BY SumsExist, Zenon
<1>2. SumFunction(f) = g[S]
  BY DEF SumFunction, SumFunctionOnSet, FoldFunctionOnSet, MapThenFoldSet, Sums, Some
<1> QED BY <1>1, <1>2, Zenon

\* The terms of a sum may be taken in any order.
Additive(g, f, S) ==
  g[{}] = 0 /\ \A T \in SUBSET S : g[T] \in Int /\ \A x \in T : g[T] = f[x] + g[T \ {x}]

\* A sum has a term for each element, whichever is taken first.
LEMMA SumStep ==
  ASSUME NEW S, IsFiniteSet(S), NEW f, \A x \in S : f[x] \in Int,
         NEW g, Sums(g, f, SUBSET S)
  PROVE  Additive(g, f, S)
<1> DEFINE Good(T) == g[T] \in Int /\ \A x \in T : g[T] = f[x] + g[T \ {x}]
           C == {T \in SUBSET S : ~Good(T)}
<1>0. g[{}] = 0
  <2>1. {} \in SUBSET S
    OBVIOUS
  <2> QED BY <2>1, SumsAre, Zenon
<1>1. SUFFICES ASSUME C # {} PROVE FALSE
  BY <1>0 DEF Additive
<1>2. PICK T \in C : \A U \in C : U \subseteq T => U = T
  <2>1. C \in SUBSET SUBSET S
    OBVIOUS
  <2> HIDE DEF C
  <2> QED BY <1>1, <2>1, SmallestSet DEF HasSmallest
<1>3. T \in SUBSET S /\ ~Good(T) /\ \A U \in SUBSET T : U # T => Good(U)
  BY <1>2
<1> HIDE DEF C
<1>4. \A U \in SUBSET S : g[U] = IF U = {} THEN 0 ELSE f[Some(U)] + g[U \ {Some(U)}]
  BY SumsAre, Zenon
<1>5. T # {}
  <2>2. Good({})
    BY <1>0
  <2> HIDE DEF Good
  <2> QED BY <1>3, <2>2, Zenon
<1> DEFINE c == Some(T)
<1>6. c \in T
  BY <1>5, SomeIs
<1>7. g[T] = f[c] + g[T \ {c}]
  BY <1>3, <1>4, <1>5, Zenon
<1> HIDE DEF c
<1>8. Good(T \ {c}) /\ f[c] \in Int
  BY <1>3, <1>6, Zenon
<1>9. ASSUME NEW x \in T
      PROVE  g[T] = f[x] + g[T \ {x}]
  <2>1. CASE x = c
    BY <1>7, <2>1
  <2>2. CASE x # c
    <3>1. Good(T \ {x}) /\ f[x] \in Int
      BY <1>3, Zenon
    <3>2. g[T \ {c}] = f[x] + g[(T \ {c}) \ {x}]
      BY <1>8, <2>2, Zenon
    <3>3. g[T \ {x}] = f[c] + g[(T \ {x}) \ {c}]
      BY <1>6, <2>2, <3>1, Zenon
    <3>4. (T \ {c}) \ {x} = (T \ {x}) \ {c}
      OBVIOUS
    <3>5. g[(T \ {c}) \ {x}] \in Int
      <4>1. (T \ {c}) \ {x} \in SUBSET T /\ (T \ {c}) \ {x} # T
        BY <1>6
      <4> QED BY <1>3, <4>1
    <3>6. g[T \ {x}] = f[c] + g[(T \ {c}) \ {x}]
      BY <3>3, <3>4, Zenon
    <3>7. f[c] \in Int /\ f[x] \in Int
      BY <1>8, <3>1
    <3> QED BY <1>7, <3>2, <3>5, <3>6, <3>7
  <2> QED BY <2>1, <2>2
<1>10. g[T] \in Int
  BY <1>7, <1>8
<1> QED BY <1>3, <1>9, <1>10

\* A part of a sum of numbers that are not negative is no more than the whole.
LEMMA SumMonotone ==
  ASSUME NEW S, IsFiniteSet(S), NEW f, \A x \in S : f[x] \in Nat,
         NEW g, Sums(g, f, SUBSET S), NEW T \in SUBSET S
  PROVE  g[T] <= g[S]
<1> DEFINE C == {D \in SUBSET S : ~(g[S \ D] <= g[S])}
<1>0. \A x \in S : f[x] \in Int
  OBVIOUS
<1>1. Additive(g, f, S)
  BY <1>0, SumStep
<1>2. C \in SUBSET SUBSET S /\ \A D \in SUBSET S : D \in C <=> ~(g[S \ D] <= g[S])
  OBVIOUS
<1> HIDE DEF C
<1>3. ASSUME C # {}
      PROVE  FALSE
  <2>1. PICK D \in C : \A U \in C : U \subseteq D => U = D
    BY <1>2, <1>3, SmallestSet DEF HasSmallest
  <2>2. D \in SUBSET S /\ ~(g[S \ D] <= g[S])
    BY <1>2
  <2>3. D # {}
    <3>1. S \ {} = S /\ g[S] \in Int
      BY <1>1 DEF Additive
    <3>2. g[S] <= g[S]
      BY <3>1
    <3> QED BY <2>2, <3>1, <3>2, Zenon
  <2>4. PICK x : x \in D
    BY <2>3
  <2>5. g[S \ (D \ {x})] <= g[S]
    <3>1. D \ {x} \in SUBSET S /\ D \ {x} \subseteq D /\ D \ {x} # D
      BY <2>2, <2>4
    <3>2. D \ {x} \notin C
      BY <2>1, <3>1
    <3> QED BY <1>2, <3>1, <3>2
  <2> DEFINE E == S \ (D \ {x})
  <2>6. E \in SUBSET S /\ x \in E /\ E \ {x} = S \ D
    BY <2>2, <2>4
  <2>7. g[E] = f[x] + g[S \ D] /\ g[E] \in Int /\ f[x] \in Nat
    <3> HIDE DEF E
    <3> QED BY <1>1, <2>6, Zenon DEF Additive
  <2>8. g[S \ D] \in Int /\ g[S] \in Int
    BY <1>1 DEF Additive
  <2> QED BY <2>2, <2>5, <2>7, <2>8
<1>4. S \ T \in SUBSET S /\ S \ (S \ T) = T
  OBVIOUS
<1>5. S \ T \notin C
  BY <1>3
<1> QED BY <1>2, <1>4, <1>5

Picks(raw, f, at, W) ==
  (\A v, w \in W : at[v] = at[w] => v = w) /\ \A w \in W : raw[w] = f[at[w]]

PartOfSum(h, raw, W, g, f, S, at) == h[W] = g[Range(at)]

\* Terms taken from another sum, each from a place of its own, are a part of it.
LEMMA SumOfPart ==
  ASSUME NEW S, IsFiniteSet(S), NEW f, \A x \in S : f[x] \in Int,
         NEW g, Sums(g, f, SUBSET S),
         NEW W, IsFiniteSet(W), NEW at \in [W -> S],
         NEW raw, Picks(raw, f, at, W),
         NEW h, Sums(h, raw, SUBSET W)
  PROVE  PartOfSum(h, raw, W, g, f, S, at)
<1> DEFINE P(V) == {at[w] : w \in V}
           C == {V \in SUBSET W : ~(h[V] = g[P(V)])}
<1>0. \A x \in S : f[x] \in Int
  OBVIOUS
<1>1. Additive(g, f, S)
  BY <1>0, SumStep
<1>2. Additive(h, raw, W)
  <2>1. \A w \in W : raw[w] \in Int
    BY DEF Picks
  <2> QED BY <2>1, SumStep
<1>3. C \in SUBSET SUBSET W /\ \A V \in SUBSET W : V \in C <=> ~(h[V] = g[P(V)])
  OBVIOUS
<1> HIDE DEF C
<1>4. ASSUME C # {}
      PROVE  FALSE
  <2>1. PICK V \in C : \A U \in C : U \subseteq V => U = V
    BY <1>3, <1>4, SmallestSet DEF HasSmallest
  <2>2. V \in SUBSET W /\ ~(h[V] = g[P(V)])
    BY <1>3
  <2>3. V # {}
    <3>1. h[{}] = 0 /\ g[{}] = 0
      BY <1>1, <1>2 DEF Additive
    <3>2. P({}) = {}
      OBVIOUS
    <3> HIDE DEF P
    <3> QED BY <2>2, <3>1, <3>2, Zenon
  <2>4. PICK x : x \in V
    BY <2>3
  <2>5. h[V \ {x}] = g[P(V \ {x})]
    <3>1. V \ {x} \in SUBSET W /\ V \ {x} \subseteq V /\ V \ {x} # V
      BY <2>2, <2>4
    <3>2. V \ {x} \notin C
      BY <2>1, <3>1
    <3> HIDE DEF P
    <3> QED BY <1>3, <3>1, <3>2
  <2>6. P(V) \in SUBSET S /\ at[x] \in P(V) /\ P(V) \ {at[x]} = P(V \ {x})
    BY <2>2, <2>4 DEF Picks
  <2> HIDE DEF P
  <2>7. g[P(V)] = f[at[x]] + g[P(V \ {x})]
    <3>1. g[P(V)] = f[at[x]] + g[P(V) \ {at[x]}]
      BY <1>1, <2>6, Zenon DEF Additive
    <3> QED BY <2>6, <3>1, Zenon
  <2>8. h[V] = raw[x] + h[V \ {x}] /\ raw[x] = f[at[x]]
    BY <1>2, <2>2, <2>4, Zenon DEF Additive, Picks
  <2> QED BY <2>2, <2>5, <2>7, <2>8
<1>5. W \notin C
  BY <1>4
<1>6. P(W) = Range(at)
  BY DEF Range
<1> QED BY <1>3, <1>5, <1>6 DEF PartOfSum

\* A function has finitely many values on a finite set.
LEMMA ImageFinite ==
  ASSUME NEW S, IsFiniteSet(S), NEW f, DOMAIN f = S
  PROVE  IsFiniteSet({f[x] : x \in S})
<1> DEFINE T == {f[x] : x \in S}
           g == [x \in S |-> f[x]]
<1>1. g \in Surjection(S, T)
  BY DEF Surjection
<1> HIDE DEF T, g
<1> QED BY <1>1, FS_Surjection DEF T

\* A finite set of numbers has a highest one.
LEMMA MaxOf ==
  ASSUME NEW S \in SUBSET Int, IsFiniteSet(S), S # {}
  PROVE  Max(S) \in S /\ \A x \in S : x <= Max(S)
<1> DEFINE Above(x) == {y \in S : y > x}
           C == {Above(x) : x \in S}
<1>1. C \in SUBSET SUBSET S /\ C # {}
  BY Zenon
<1>2. HasSmallest(C)
  <2>1. IsFiniteSet(S)
    OBVIOUS
  <2> HIDE DEF C
  <2> QED BY <1>1, <2>1, SmallestSet, Zenon
<1>3. PICK m \in S : \A y \in S : Above(y) \subseteq Above(m) => Above(y) = Above(m)
  <2> HIDE DEF Above
  <2> QED BY <1>2 DEF HasSmallest
<1>4. \A y \in S : y <= m
  <2> SUFFICES ASSUME NEW y \in S, ~(y <= m) PROVE FALSE
    OBVIOUS
  <2>0. m \in Int /\ y \in Int /\ y > m /\ \A z \in S : z \in Int
    OBVIOUS
  <2>1. Above(y) \subseteq Above(m) /\ y \in Above(m) /\ y \notin Above(y)
    <3>1. \A z \in S : z > y => z > m
      BY <2>0
    <3>2. Above(y) \subseteq Above(m)
      BY <3>1, Zenon
    <3>3. y \in Above(m) /\ y \notin Above(y)
      BY <2>0
    <3> QED BY <3>2, <3>3
  <2> HIDE DEF Above
  <2> QED BY <1>3, <2>1
<1> QED BY <1>4, Zenon DEF Max

\* The score of a row is a positive number.
LEMMA ScoreIs ==
  ASSUME NEW o, o.load \in Int, o.latency \in Int, o.cost \in Int,
         NEW w, w.load \in Nat, w.cost \in Int, NEW max \in Int
  PROVE  Floored(RawScore(o, w, max)) \in Nat /\ Floored(RawScore(o, w, max)) > 0
<1>1. Cent \div (1 + w.load) \in Int
  BY DEF Cent
<1>2. max > 0 => (Cent * w.cost) \div max \in Int
  BY DEF Cent
<1>3. RawScore(o, w, max) \in Int
  BY <1>1, <1>2 DEF RawScore, Cent
<1>4. \A x \in Int : Max({x, 12}) \in Nat /\ Max({x, 12}) > 0
  BY DEF Max
<1> QED BY <1>3, <1>4 DEF Floored, Cent

\* What scoreWorkers gives the workers of a model are shares of its sum: all of
\* it when every worker has one row.
Alone(workers, I) == \A i, j \in I : workers[i].id = workers[j].id => i = j

Shares(r, workers, I) ==
  /\ \A w \in DOMAIN r.raw : r.raw[w] > 0
  /\ SumFunction(r.raw) <= r.sum
  /\ Alone(workers, I) => SumFunction(r.raw) = r.sum

LEMMA ScoresAreShares ==
  ASSUME NEW o, o.load \in Int, o.latency \in Int, o.cost \in Int,
         NEW N \in Nat, NEW I \in SUBSET (1..N), NEW workers, DOMAIN workers = I,
         \A i \in I : workers[i].load \in Nat /\ workers[i].cost \in Int
  PROVE  Shares(scoreWorkers(o, workers), workers, I)
<1> DEFINE costs == [i \in I |-> workers[i].cost]
           max == Max({0} \cup {workers[i].cost : i \in I})
           f == [i \in I |-> Floored(RawScore(o, workers[i], max))]
           W == {workers[i].id : i \in I}
           own(w) == {i \in I : workers[i].id = w}
           at == [w \in W |-> Max(own(w))]
           raw == [w \in W |-> Floored(RawScore(o, workers[Max(own(w))], max))]
<1>1. IsFiniteSet(I)
  <2>1. IsFiniteSet(1..N)
    BY FS_Interval
  <2> QED BY <2>1, FS_Subset, Zenon
<1>2. scoreWorkers(o, workers) = [raw |-> raw, sum |-> SumFunction(f)]
  BY DEF scoreWorkers
<1>3. max \in Int
  <2> DEFINE K == {costs[i] : i \in I}
             M == {0} \cup K
  <2>1. IsFiniteSet(K)
    <3> HIDE DEF costs
    <3>1. DOMAIN costs = I
      BY DEF costs
    <3> QED BY <1>1, <3>1, ImageFinite, Zenon
  <2>2. M = {0} \cup {workers[i].cost : i \in I} /\ M \in SUBSET Int /\ M # {}
    OBVIOUS
  <2>3. IsFiniteSet(M)
    BY <2>1, FS_EmptySet, FS_AddElement, FS_Union, FS_Singleton
  <2>4. Max(M) \in M
    <3> HIDE DEF M
    <3> QED BY <2>2, <2>3, MaxOf, Zenon
  <2> QED BY <2>2, <2>4
<1> HIDE DEF max
<1>4. \A i \in I : f[i] \in Nat /\ f[i] > 0
  BY <1>3, ScoreIs
<1>5. ASSUME NEW w \in W
      PROVE  at[w] \in I /\ workers[at[w]].id = w /\ raw[w] = f[at[w]]
  <2>1. own(w) \in SUBSET Int /\ own(w) # {} /\ own(w) \in SUBSET I
    <3>1. I \in SUBSET Int
      OBVIOUS
    <3>2. \E i \in I : workers[i].id = w
      OBVIOUS
    <3> QED BY <3>1, <3>2, Zenon
  <2>2. IsFiniteSet(own(w))
    BY <1>1, <2>1, FS_Subset
  <2>3. Max(own(w)) \in own(w)
    <3> HIDE DEF own
    <3> QED BY <2>1, <2>2, MaxOf
  <2> QED BY <2>3
<1>6. IsFiniteSet(W)
  <2> DEFINE ids == [i \in I |-> workers[i].id]
  <2>1. DOMAIN ids = I /\ W = {ids[i] : i \in I}
    OBVIOUS
  <2> HIDE DEF ids, W
  <2> QED BY <1>1, <2>1, ImageFinite, Zenon
<1>7. DOMAIN f = I /\ DOMAIN raw = W /\ at \in [W -> I]
  BY <1>5, Zenon
<1> HIDE DEF f, raw, at, W, own
<1>8. PICK g : Sums(g, f, SUBSET I) /\ SumFunction(f) = g[I]
  BY <1>1, <1>7, SumFunctionIs, Zenon
<1>9. PICK h : Sums(h, raw, SUBSET W) /\ SumFunction(raw) = h[W]
  BY <1>6, <1>7, SumFunctionIs, Zenon
<1> DEFINE P == Range(at)
<1>10. h[W] = g[P]
  <2>1. Picks(raw, f, at, W)
    BY <1>5 DEF Picks
  <2>2. \A i \in I : f[i] \in Int
    BY <1>4
  <2>3. at \in [W -> I] /\ Sums(g, f, SUBSET I) /\ Sums(h, raw, SUBSET W)
    BY <1>7, <1>8, <1>9
  <2>4. PartOfSum(h, raw, W, g, f, I, at)
    BY <1>1, <1>6, <2>1, <2>2, <2>3, SumOfPart, Zenon
  <2> QED BY <2>4 DEF PartOfSum
<1>11. g[P] <= g[I]
  <2>1. P \in SUBSET I
    BY <1>7 DEF Range
  <2>2. \A i \in I : f[i] \in Nat
    BY <1>4
  <2> HIDE DEF P
  <2> QED BY <1>1, <1>8, <2>1, <2>2, SumMonotone
<1>12. Alone(workers, I) => P = I
  <2> SUFFICES ASSUME Alone(workers, I) PROVE P = I
    OBVIOUS
  <2>1. \A i \in I : workers[i].id \in W
    BY Zenon DEF W
  <2>2. \A i \in I : at[workers[i].id] = i
    BY <1>5, <2>1, Zenon DEF Alone
  <2>3. P \subseteq I
    BY <1>7 DEF Range
  <2>4. \A i \in I : i \in P
    BY <1>7, <2>1, <2>2 DEF Range
  <2> HIDE DEF P
  <2> QED BY <2>3, <2>4, Zenon
<1>13. \A w \in W : raw[w] > 0
  BY <1>4, <1>5, Zenon
<1> DEFINE r == scoreWorkers(o, workers)
<1>14. r.raw = raw /\ r.sum = SumFunction(f)
  BY <1>2
<1> HIDE DEF r, P
<1> QED BY <1>7, <1>8, <1>9, <1>10, <1>11, <1>12, <1>13, <1>14 DEF Shares, r

\* plan, for any objectives and snapshots: the weights of a model are shares.
LEMMA PlanShares == EveryWeightIsAShare
<1> SUFFICES ASSUME NEW o \in Objectives, NEW s \in Snapshots, NEW m \in DOMAIN plan(o, s)
             PROVE  Shares(plan(o, s)[m], s, Rows(o, s, m))
  BY DEF EveryWeightIsAShare, Shares, Alone
<1> DEFINE I == Rows(o, s, m)
           workers == [i \in I |-> s[i]]
<1>1. PICK n \in 0..MaxViews : s \in [1..n -> Views]
  BY DEF Snapshots
<1>2. plan(o, s)[m] = scoreWorkers(o, workers)
  <2>1. I = {j \in {i \in DOMAIN s : Usable(o, s[i])} : s[j].base = m}
    BY DEF Rows
  <2> HIDE DEF I
  <2> QED BY <2>1 DEF plan
<1>3. n \in Nat /\ I \in SUBSET (1..n) /\ DOMAIN workers = I
  BY <1>1, PlanScoreAssumption DEF Rows
<1>4. \A i \in I : workers[i] = s[i] /\ workers[i].load \in Nat /\ workers[i].cost \in Int
  <2>1. \A i \in I : s[i] \in Views
    BY <1>1, <1>3
  <2> HIDE DEF I
  <2> QED BY <2>1, PlanScoreAssumption
<1>5. o.load \in Int /\ o.latency \in Int /\ o.cost \in Int
  BY PlanScoreAssumption
<1> HIDE DEF I, workers
<1>6. Shares(scoreWorkers(o, workers), workers, I)
  BY <1>3, <1>4, <1>5, ScoresAreShares, Zenon
<1>7. Alone(workers, I) <=> Alone(s, I)
  BY <1>4 DEF Alone
<1> QED BY <1>2, <1>6, <1>7, Zenon DEF Shares, I

\* A recorded decision of any planner holds weights that are positive shares,
\* adding up to the whole unless scoreWorkers counts a worker twice.
THEOREM WeightsCorrect == Spec => []WeightsAreShares
<1>1. WeightsAreShares
  BY PlanShares DEF WeightsAreShares
<1> QED BY <1>1, PTL
=============================================================================
