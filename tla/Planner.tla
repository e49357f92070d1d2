------------------------------- MODULE Planner -------------------------------
(***************************************************************************)
(* The planner (services/planner) of every control plane computes a policy *)
(* on a timer, numbers it, records the decision in Postgres, writes it to  *)
(* one Redis key and announces it; the subscriber of every control plane   *)
(* (services/routing/policy.go) reads the key on every announcement and    *)
(* keeps the newest version in a holder.                                   *)
(*                                                                         *)
(* A decision is its version and the tick that made it; what it holds is   *)
(* plan of PlanScore, for the objective and the snapshot of that moment.   *)
(***************************************************************************)
EXTENDS Naturals

CONSTANTS Planes,      \* control plane processes
          MaxTicks,    \* bound on ticks of all planners
          MaxFaults,   \* bound on crashes, failed calls and losses of the key
          FaultsUntil  \* no fault after this many ticks

ASSUME PlannerAssumption ==
    MaxTicks \in Nat /\ MaxFaults \in Nat /\ FaultsUntil \in 0..MaxTicks

VARIABLES ticks,    \* ticks begun so far; numbers the decisions
          version,  \* Service.version
          work,     \* the tick of each planner: its step and its decision
          db,       \* planner_decisions, with a unique index on the version
          key,      \* the policy under forge:policy:routing:v1
          sub,      \* RunPolicySubscriber: its step and what it has read
          note,     \* planes with an announcement to handle
          holder,   \* PolicyHolder: what the scheduler reads
          faults

vars == <<ticks, version, work, db, key, sub, note, holder, faults>>

NoDecision == [version |-> 0, tick |-> 0]
IdlePlan == [pc |-> "idle", of |-> NoDecision]
OffSub == [pc |-> "off", got |-> NoDecision]

Init ==
    /\ ticks = 0
    /\ version = [p \in Planes |-> 0]
    /\ work = [p \in Planes |-> [IdlePlan EXCEPT !.pc = "start"]]
    /\ db = {}
    /\ key = NoDecision
    /\ sub = [p \in Planes |-> OffSub]
    /\ note = {}
    /\ holder = [p \in Planes |-> NoDecision]
    /\ faults = 0

Fault == faults < MaxFaults /\ ticks <= FaultsUntil /\ faults' = faults + 1

StoreIfNewer(p, d) ==
    holder' = [holder EXCEPT ![p] = IF d.version > @.version THEN d ELSE @]

-----------------------------------------------------------------------------
\* The planner.

\* LoadLive: the policy under the key, if there is one; or the call fails.
LoadLive(live) ==
    \/ live = key /\ UNCHANGED faults
    \/ live = NoDecision /\ Fault

\* Start: LoadLive gives the version to go on from; without a key, or when the
\* call fails, it is zero.
Start(p) ==
    /\ work[p].pc = "start"
    /\ work' = [work EXCEPT ![p] = IdlePlan]
    /\ \E live \in {key, NoDecision} :
         /\ LoadLive(live)
         /\ version' = [version EXCEPT ![p] = live.version]
         /\ StoreIfNewer(p, live)
    /\ UNCHANGED <<ticks, db, key, sub, note>>

\* Mutant: the version is taken again until a decision is recorded with it.
TickAgain(p) ==
    /\ work[p].pc = "idle" /\ ticks < MaxTicks
    /\ ticks' = ticks + 1
    /\ version' = [version EXCEPT ![p] = key.version + 1]
    /\ work' = [work EXCEPT ![p] =
         [pc |-> "insert", of |-> [version |-> key.version + 1, tick |-> ticks + 1]]]
    /\ UNCHANGED <<db, key, sub, note, holder, faults>>

\* tick: the version is used up whether or not the decision is published.
Tick(p) ==
    /\ work[p].pc = "idle" /\ ticks < MaxTicks
    /\ ticks' = ticks + 1
    /\ version' = [version EXCEPT ![p] = @ + 1]
    /\ work' = [work EXCEPT ![p] =
         [pc |-> "insert", of |-> [version |-> version[p] + 1, tick |-> ticks + 1]]]
    /\ UNCHANGED <<db, key, sub, note, holder, faults>>

\* Mutant: the error of the insert is only logged.
InsertBestEffort(p) ==
    /\ work[p].pc = "insert"
    /\ \/ db' = db \cup {work[p].of} /\ UNCHANGED faults
       \/ Fault /\ UNCHANGED db
    /\ work' = [work EXCEPT ![p].pc = "set"]
    /\ UNCHANGED <<ticks, version, key, sub, note, holder>>

\* Publish, first the row: a version that exists, or any other error, ends the
\* tick.
Insert(p) ==
    /\ work[p].pc = "insert"
    /\ LET taken == \E d \in db : d.version = work[p].of.version
       IN  \/ /\ ~taken
              /\ db' = db \cup {work[p].of}
              /\ work' = [work EXCEPT ![p].pc = "set"]
              /\ UNCHANGED faults
           \/ /\ IF taken THEN UNCHANGED faults ELSE Fault
              /\ work' = [work EXCEPT ![p] = IdlePlan]
              /\ UNCHANGED db
    /\ UNCHANGED <<ticks, version, key, sub, note, holder>>

\* Then the key; of two planners the later write stays, whatever its version.
SetKey(p) ==
    /\ work[p].pc = "set"
    /\ \/ /\ key' = work[p].of
          /\ work' = [work EXCEPT ![p].pc = "publish"]
          /\ UNCHANGED faults
       \/ /\ Fault
          /\ work' = [work EXCEPT ![p] = IdlePlan]
          /\ UNCHANGED key
    /\ UNCHANGED <<ticks, version, db, sub, note, holder>>

\* Then the announcement, which reaches the planes that are subscribed.
Subscribed == {q \in Planes : sub[q].pc \in {"idle", "store"}}

Publish(p) ==
    /\ work[p].pc = "publish"
    /\ \/ /\ note' = note \cup Subscribed
          /\ work' = [work EXCEPT ![p].pc = "store"]
          /\ UNCHANGED faults
       \/ /\ Fault
          /\ \E lost \in SUBSET Subscribed : note' = note \cup (Subscribed \ lost)
          /\ \/ work' = [work EXCEPT ![p].pc = "store"]
             \/ work' = [work EXCEPT ![p] = IdlePlan]
    /\ UNCHANGED <<ticks, version, db, key, sub, holder>>

\* And the planner's own holder.
StoreOwn(p) ==
    /\ work[p].pc = "store"
    /\ StoreIfNewer(p, work[p].of)
    /\ work' = [work EXCEPT ![p] = IdlePlan]
    /\ UNCHANGED <<ticks, version, db, key, sub, note, faults>>

-----------------------------------------------------------------------------
\* The subscriber.

\* RunPolicySubscriber reads the key once, and then subscribes.
FirstGet(p) ==
    /\ sub[p].pc = "off"
    /\ \/ sub' = [sub EXCEPT ![p] = [pc |-> "first", got |-> key]] /\ UNCHANGED faults
       \/ sub' = [sub EXCEPT ![p].pc = "subscribe"] /\ Fault
    /\ UNCHANGED <<ticks, version, work, db, key, note, holder>>

Subscribe(p) ==
    /\ sub[p].pc = "subscribe"
    /\ sub' = [sub EXCEPT ![p].pc = "idle"]
    /\ UNCHANGED <<ticks, version, work, db, key, note, holder, faults>>

\* An announcement's content is not used: the key is read.
OnMessage(p) ==
    /\ sub[p].pc = "idle" /\ p \in note
    /\ note' = note \ {p}
    /\ \/ /\ key # NoDecision
          /\ sub' = [sub EXCEPT ![p] = [pc |-> "store", got |-> key]]
          /\ UNCHANGED faults
       \/ /\ IF key = NoDecision THEN UNCHANGED faults ELSE Fault
          /\ UNCHANGED sub
    /\ UNCHANGED <<ticks, version, work, db, key, holder>>

StoreRead(p) ==
    /\ sub[p].pc \in {"first", "store"}
    /\ StoreIfNewer(p, sub[p].got)
    /\ sub' = [sub EXCEPT ![p] =
         [OffSub EXCEPT !.pc = IF sub[p].pc = "first" THEN "subscribe" ELSE "idle"]]
    /\ UNCHANGED <<ticks, version, work, db, key, note, faults>>

-----------------------------------------------------------------------------
\* A control plane crashes and starts again; or Redis comes back empty.
Crash(p) ==
    /\ Fault
    /\ version' = [version EXCEPT ![p] = 0]
    /\ work' = [work EXCEPT ![p] = [IdlePlan EXCEPT !.pc = "start"]]
    /\ sub' = [sub EXCEPT ![p] = OffSub]
    /\ note' = note \ {p}
    /\ holder' = [holder EXCEPT ![p] = NoDecision]
    /\ UNCHANGED <<ticks, db, key>>

LoseKey ==
    /\ Fault /\ key # NoDecision
    /\ key' = NoDecision
    /\ UNCHANGED <<ticks, version, work, db, sub, note, holder>>

Service(p) == Start(p) \/ Tick(p) \/ Insert(p) \/ SetKey(p) \/ Publish(p) \/ StoreOwn(p)
Subscriber(p) == FirstGet(p) \/ Subscribe(p) \/ OnMessage(p) \/ StoreRead(p)

Next ==
    \/ \E p \in Planes : Service(p) \/ Subscriber(p) \/ Crash(p)
    \/ LoseKey

Spec == Init /\ [][Next]_vars

Fairness == \A p \in Planes : WF_vars(Service(p)) /\ WF_vars(Subscriber(p))

LiveSpec == Spec /\ Fairness

-----------------------------------------------------------------------------
InUse == {key} \cup {holder[p] : p \in Planes} \cup {sub[p].got : p \in Planes}
               \cup {work[p].of : p \in {q \in Planes : work[q].pc \in {"set", "publish", "store"}}}

\* Whatever policy is in use was recorded before, and its version names it alone:
\* a crash at any point leaves no policy whose reason cannot be looked up, and
\* planners that count from the same key, or from zero after the key was lost,
\* never have two policies in use under one number.
InUseIsRecorded ==
    \A d \in InUse \ {NoDecision} :
        d \in db /\ \A e \in db \cup InUse : e.version = d.version => e = d

\* A planner cannot be stuck on a version that is taken: after a crash between
\* the row and the key, a failed write or the loss of the key, a counter that
\* starts again from zero passes the recorded versions and some policy is live.
LiveAgain == key = NoDecision ~> key # NoDecision
=============================================================================
