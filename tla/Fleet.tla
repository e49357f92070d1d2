-------------------------------- MODULE Fleet --------------------------------
(***************************************************************************)
(* The fleet manager of the control plane (services/fleet) for one model.  *)
(* Three kinds of goroutines share the table of tracked workers: the       *)
(* reconcile loop, the gateway handlers that activate a model scaled to    *)
(* zero, and one readiness wait per provisioned worker.  Each action is    *)
(* what a goroutine does between two lock acquisitions or remote calls.    *)
(*                                                                         *)
(* Workers are numbered in the order they are provisioned.  The workers    *)
(* themselves and the routing snapshot that shows them to the manager are  *)
(* the environment.                                                        *)
(***************************************************************************)
EXTENDS Hysteresis, FiniteSets

CONSTANTS Kinds,          \* the provisioners: "local" and "runpod"
          Activators,     \* gateway handlers that may activate the model
          External,       \* workers of the model the fleet did not provision
          Policies,       \* scaling policies an operator may store
          MaxProvisions,  \* bound on calls of Provision
          MaxFaults,      \* bound on failed calls, readiness timeouts and exits
          MaxActive       \* bound on the load of the model

FleetNoPolicy == [min |-> -1, max |-> -1, target |-> 0, util |-> 0, delay |-> 0]

ASSUME FleetAssumption ==
    /\ Kinds \subseteq {"local", "runpod"}
    /\ MaxProvisions \in Nat /\ MaxFaults \in Nat
    /\ MaxActive \in Nat
    /\ IsFiniteSet(External)
    /\ \A p \in Policies :
         /\ p.min \in Int /\ p.max \in Int
         /\ p.target \in Int /\ p.util \in Int /\ p.delay \in Int

VARIABLES
  tracked,      \* Manager.workers: the state of each provisioned worker
  placeholder,  \* Manager.workers holds "provisioning-<model>"
  hyst,         \* Manager.hyst for the model
  desired,      \* Manager.desired for the model
  policy,       \* PolicyCache.by for the model, or FleetNoPolicy
  stored,       \* the policy row in the database, or FleetNoPolicy
  rc,           \* the reconcile loop: pc, the ready count it read, its worker
  act,          \* each activating handler: pc and its worker
  waiter,       \* the readiness wait of each worker
  next,         \* workers provisioned so far
  alive,        \* workers whose process or pod runs
  rows,         \* pods with an enabled provider row
  listed,       \* workers the routing snapshot lists for the model
  snap,         \* those it shows healthy and ready
  faults,
  kind          \* the provisioner of this process

env == <<alive, rows, listed, snap>>
vars == <<tracked, placeholder, hyst, desired, policy, stored, rc, act, waiter,
          next, faults, kind, env>>

WorkerID == 1..MaxProvisions
NoWorker == 0

\* The identifier a worker has in the routing snapshot: a pod appears there as
\* the virtual worker of its provider row.
ViewID(w) == <<IF kind = "local" THEN "worker" ELSE "provider", w>>
ExternalIDs == {<<"worker", e>> : e \in External}

Idle(self) == [pc |-> "idle", ready |-> 0, wid |-> NoWorker]

Init ==
    /\ tracked = [w \in WorkerID |-> "absent"]
    /\ placeholder = FALSE
    /\ hyst = FreshState
    /\ desired = 0
    /\ policy = FleetNoPolicy
    /\ stored \in Policies \cup {FleetNoPolicy}
    /\ rc = Idle("rc")
    /\ act = [a \in Activators |-> Idle(a)]
    /\ waiter = [w \in WorkerID |-> "none"]
    /\ next = 0
    /\ alive = {} /\ rows = {}
    /\ listed = ExternalIDs
    /\ snap \in SUBSET ExternalIDs
    /\ faults = 0
    /\ kind \in Kinds

-----------------------------------------------------------------------------
\* Policies and counts.

\* DefaultPolicy, used when the cache has none; utilisation in percent and the
\* delay only as zero or not.
DefaultPolicy == [min |-> 0, max |-> 3, target |-> 16, util |-> 70, delay |-> 900]

Get == IF policy = FleetNoPolicy THEN DefaultPolicy ELSE policy

\* readyCount: the union, by identifier, of the snapshot and the table.
readyCount ==
    Cardinality(snap \cup {<<"worker", w>> : w \in {v \in WorkerID : tracked[v] = "ready"}})

\* provisioningCount: tracked workers that wait, and the placeholder.
provisioningCount ==
    Cardinality({w \in WorkerID : tracked[w] = "provisioning"})
        + (IF placeholder THEN 1 ELSE 0)

ceilDiv(a, b) == IF a <= 0 THEN 0 ELSE (a + b - 1) \div b

clamp(v, lo, hi) == IF v < lo THEN lo ELSE IF hi > 0 /\ v > hi THEN hi ELSE v

\* reconcile: the number of workers the load asks for, before damping.
Wanted(active, ready, p) ==
    LET target == IF p.target <= 0 THEN 16 ELSE p.target
        raw    == ceilDiv(active, target)
        busy   == IF ready > 1 THEN ready ELSE 1
        quiet  == /\ active > 0
                  /\ active * 100 < p.util * target * busy
                  /\ raw <= ready
    IN  clamp(IF quiet THEN ready ELSE raw, p.min, p.max)

-----------------------------------------------------------------------------
\* The reconcile loop.

\* discoverModels: the snapshot lists a worker of the model, or the table has
\* one that is not retired.
Known ==
    \/ listed # {}
    \/ placeholder
    \/ \E w \in WorkerID : tracked[w] \notin {"absent", "retired"}

\* Reload: a failed query keeps the old policies.
Reload == policy' \in {policy, stored}

\* ReconcileAll: reload the policies, then reconcile the model if it is known;
\* reconcile first counts ready workers.
ReconcileAll ==
    /\ rc.pc = "idle"
    /\ Reload
    /\ rc' = IF Known THEN [rc EXCEPT !.pc = "apply", !.ready = readyCount] ELSE rc
    /\ UNCHANGED <<tracked, placeholder, hyst, desired, stored, act, waiter,
                   next, faults, kind, env>>

\* What the listed workers may report together.
sumActive == 0..(IF listed = {} THEN 0 ELSE MaxActive)

\* What the load may ask for, and whether the scale-down delay counts as passed:
\* it is zero, there was no action yet, or the time since then decides.
Wants == {Wanted(active, rc.ready, Get) : active \in sumActive}
DelayPassed == IF Get.delay = 0 \/ ~hyst.acted THEN {TRUE} ELSE BOOLEAN

\* The decision.
Apply ==
    /\ rc.pc = "apply"
    /\ \E wanted \in Wants, passed \in DelayPassed, k \in Keeps(hyst.samples) :
         LET kept == Kept(hyst.samples, wanted, k)
         IN  \E hi, lo \in Samples(kept) :
               /\ Extremes(kept, hi, lo)
               /\ desired' = Out(hyst, wanted, rc.ready, hi, lo, passed)
               /\ hyst' = Applied(hyst, kept, wanted, rc.ready, passed)
    /\ rc' = [rc EXCEPT !.pc = "compare"]
    /\ UNCHANGED <<tracked, placeholder, policy, stored, act, waiter, next,
                   faults, kind, env>>

\* Mutant: a tick that has nothing to do leaves the decision pending.
CompareKeepsPending ==
    /\ rc.pc = "compare"
    /\ LET effective == rc.ready + provisioningCount
       IN  rc' = IF desired > effective THEN [rc EXCEPT !.pc = "scaleUp"]
                 ELSE IF desired < rc.ready THEN [rc EXCEPT !.pc = "drain"]
                 ELSE Idle("rc")
    /\ UNCHANGED <<tracked, placeholder, hyst, desired, policy, stored, act,
                   waiter, next, faults, kind, env>>

\* The switch of reconcile, on a fresh count of pending workers.
Compare ==
    /\ rc.pc = "compare"
    /\ LET effective == rc.ready + provisioningCount
       IN  \/ /\ desired > effective
              /\ rc' = [rc EXCEPT !.pc = "scaleUp"]
              /\ UNCHANGED hyst
           \/ /\ desired <= effective /\ desired < rc.ready
              /\ rc' = [rc EXCEPT !.pc = "drain"]
              /\ UNCHANGED hyst
           \/ /\ desired <= effective /\ desired >= rc.ready
              /\ hyst' = ClearPending(hyst)
              /\ rc' = Idle("rc")
    /\ UNCHANGED <<tracked, placeholder, desired, policy, stored, act, waiter,
                   next, faults, kind, env>>

\* Mutant: a worker still waiting to be ready is drained too.
PickAny ==
    /\ rc.pc = "drain"
    /\ \E w \in WorkerID :
         /\ tracked[w] \in {"provisioning", "ready"}
         /\ tracked' = [tracked EXCEPT ![w] = "draining"]
         /\ rc' = [rc EXCEPT !.pc = "retire", !.wid = w]
    /\ UNCHANGED <<placeholder, hyst, desired, policy, stored, act, waiter, next,
                   faults, kind, env>>

\* drainOne: the first step picks a ready worker, if there is one.  Nothing
\* calls SetInFlight, so the wait for its requests to end is never entered.
Pick ==
    /\ rc.pc = "drain"
    /\ \/ \E w \in WorkerID :
            /\ tracked[w] = "ready"
            /\ tracked' = [tracked EXCEPT ![w] = "draining"]
            /\ rc' = [rc EXCEPT !.pc = "retire", !.wid = w]
            /\ UNCHANGED hyst
       \/ /\ \A w \in WorkerID : tracked[w] # "ready"
          /\ hyst' = ClearPending(hyst)
          /\ rc' = Idle("rc")
          /\ UNCHANGED tracked
    /\ UNCHANGED <<placeholder, desired, policy, stored, act, waiter, next,
                   faults, kind, env>>

\* Retire of a local worker kills the process.
RetireLocal(w) == alive' = alive \ {w} /\ UNCHANGED faults

\* The request that deletes a pod may fail.
DeletePodFails(w) ==
    /\ w \in alive /\ faults < MaxFaults
    /\ faults' = faults + 1
    /\ UNCHANGED alive

RetirePod(w) ==
    \/ alive' = alive \ {w} /\ UNCHANGED faults
    \/ DeletePodFails(w)

\* The callers ignore the error of Retire.
Retire(w) == IF kind = "local" THEN RetireLocal(w) ELSE RetirePod(w)

RetireDrained ==
    /\ rc.pc = "retire"
    /\ Retire(rc.wid)
    /\ rc' = [rc EXCEPT !.pc = "retired"]
    /\ UNCHANGED <<tracked, placeholder, hyst, desired, policy, stored, act,
                   waiter, next, kind, rows, listed, snap>>

MarkDrained ==
    /\ rc.pc = "retired"
    /\ tracked' = [tracked EXCEPT ![rc.wid] = "retired"]
    /\ hyst' = ClearPending(hyst)
    /\ rc' = Idle("rc")
    /\ UNCHANGED <<placeholder, desired, policy, stored, act, waiter, next,
                   faults, kind, env>>

-----------------------------------------------------------------------------
\* Activation by a gateway handler, and scaleUp.

\* tryActivate: NeedsActivation holds for a model without a minimum that has no
\* ready worker; Activate counts again.
NeedsActivation(a) ==
    /\ act[a].pc = "idle"
    /\ Get.min <= 0
    /\ readyCount = 0
    /\ act' = [act EXCEPT ![a].pc = "activate"]
    /\ UNCHANGED <<tracked, placeholder, hyst, desired, policy, stored, rc,
                   waiter, next, faults, kind, env>>

Activate(a) ==
    /\ act[a].pc = "activate"
    /\ act' = [act EXCEPT ![a].pc = IF readyCount > 0 THEN "done" ELSE "scaleUp"]
    /\ UNCHANGED <<tracked, placeholder, hyst, desired, policy, stored, rc,
                   waiter, next, faults, kind, env>>

\* The goroutines that run scaleUp: the loop and the handlers.
Scaler == {"rc"} \cup Activators
At(s) == IF s = "rc" THEN rc ELSE act[s]
Move(s, st) ==
    IF s = "rc" THEN rc' = st /\ UNCHANGED act
                ELSE act' = [act EXCEPT ![s] = st] /\ UNCHANGED rc

\* scaleUp, first critical section: one placeholder for the whole model.
PutPlaceholder(s) ==
    /\ At(s).pc = "scaleUp"
    /\ placeholder' = TRUE
    /\ Move(s, [At(s) EXCEPT !.pc = "provision"])
    /\ UNCHANGED <<tracked, hyst, desired, policy, stored, waiter, next,
                   faults, kind, env>>

\* A worker starts and Provision returns its identifier.
Starts(s) ==
    /\ next < MaxProvisions
    /\ next' = next + 1
    /\ alive' = alive \cup {next + 1}
    /\ Move(s, [At(s) EXCEPT !.pc = "track", !.wid = next + 1])
    /\ UNCHANGED faults

\* Provision returns an error.
Fails(s) ==
    /\ faults < MaxFaults \/ next = MaxProvisions
    /\ faults' = IF faults < MaxFaults THEN faults + 1 ELSE faults
    /\ Move(s, [At(s) EXCEPT !.pc = "track", !.wid = NoWorker])

\* No port, no binary, or the process does not start.
ProvisionLocal(s) == Starts(s) \/ (Fails(s) /\ UNCHANGED <<next, alive>>)

\* The request that creates a pod fails before or after the pod exists.
CreatePodFails(s) ==
    /\ Fails(s)
    /\ \/ UNCHANGED <<next, alive>>
       \/ /\ next < MaxProvisions
          /\ next' = next + 1
          /\ alive' = alive \cup {next + 1}

ProvisionPod(s) == Starts(s) \/ CreatePodFails(s)

Provision(s) ==
    /\ At(s).pc = "provision"
    /\ IF kind = "local" THEN ProvisionLocal(s) ELSE ProvisionPod(s)
    /\ UNCHANGED <<tracked, placeholder, hyst, desired, policy, stored, waiter,
                   kind, rows, listed, snap>>

\* scaleUp, second critical section: the placeholder goes, the worker comes,
\* and its readiness wait starts; an error leaves hyst pending.
Track(s) ==
    /\ At(s).pc = "track"
    /\ placeholder' = FALSE
    /\ LET w == At(s).wid
       IN  IF w = NoWorker
           THEN UNCHANGED <<tracked, waiter, hyst>>
           ELSE /\ tracked' = [tracked EXCEPT ![w] = "provisioning"]
                /\ waiter' = [waiter EXCEPT ![w] = "waiting"]
                /\ hyst' = ClearPending(hyst)
    /\ Move(s, IF s = "rc" THEN Idle(s) ELSE [Idle(s) EXCEPT !.pc = "done"])
    /\ UNCHANGED <<desired, policy, stored, next, faults, kind, env>>

-----------------------------------------------------------------------------
\* The readiness wait.

\* A pod is ready when its server lists a model, a local worker when the
\* snapshot shows it healthy and ready.
httpModelsOK(w) == w \in alive

checkReady(w) == IF kind = "local" THEN ViewID(w) \in snap ELSE httpModelsOK(w)

\* The registration gives a pod a provider row.
register(w) == rows' = IF kind = "runpod" THEN rows \cup {w} ELSE rows

\* WaitReady sees the worker ready, registers it and calls back the manager,
\* which marks it ready.
Ready(w) ==
    /\ waiter[w] = "waiting"
    /\ checkReady(w)
    /\ register(w)
    /\ tracked' = [tracked EXCEPT ![w] = "ready"]
    /\ waiter' = [waiter EXCEPT ![w] = "called"]
    /\ UNCHANGED <<placeholder, hyst, desired, policy, stored, rc, act, next,
                   faults, kind, alive, listed, snap>>

\* Back in scaleUp's goroutine the worker is marked ready a second time.
ReadyAgain(w) ==
    /\ waiter[w] = "called"
    /\ tracked' = [tracked EXCEPT ![w] = "ready"]
    /\ waiter' = [waiter EXCEPT ![w] = "done"]
    /\ UNCHANGED <<placeholder, hyst, desired, policy, stored, rc, act, next,
                   faults, kind, env>>

\* The wait times out, or the registration fails, at worst after the provider
\* row was written: the worker is to be retired.
GiveUp(w) ==
    /\ waiter[w] = "waiting"
    /\ faults < MaxFaults \/ w \notin alive
    /\ faults' = IF faults < MaxFaults THEN faults + 1 ELSE faults
    /\ \/ UNCHANGED rows
       \/ kind = "runpod" /\ checkReady(w) /\ register(w)
    /\ waiter' = [waiter EXCEPT ![w] = "failed"]
    /\ UNCHANGED <<tracked, placeholder, hyst, desired, policy, stored, rc, act,
                   next, kind, alive, listed, snap>>

\* Mutant: the worker is forgotten without being retired.
ForgetFailed(w) ==
    /\ waiter[w] = "failed"
    /\ waiter' = [waiter EXCEPT ![w] = "retired"]
    /\ UNCHANGED <<tracked, placeholder, hyst, desired, policy, stored, rc, act,
                   next, faults, kind, env>>

RetireFailed(w) ==
    /\ waiter[w] = "failed"
    /\ Retire(w)
    /\ waiter' = [waiter EXCEPT ![w] = "retired"]
    /\ UNCHANGED <<tracked, placeholder, hyst, desired, policy, stored, rc, act,
                   next, kind, rows, listed, snap>>

\* Mutant: after the retirement the wait starts over.
MarkFailedRetries(w) ==
    /\ waiter[w] = "retired"
    /\ tracked' = [tracked EXCEPT ![w] = "retired"]
    /\ waiter' = [waiter EXCEPT ![w] = "waiting"]
    /\ UNCHANGED <<placeholder, hyst, desired, policy, stored, rc, act, next,
                   faults, kind, env>>

\* Mutant: the table keeps the failed worker as provisioning.
MarkFailedKeeps(w) ==
    /\ waiter[w] = "retired"
    /\ waiter' = [waiter EXCEPT ![w] = "dropped"]
    /\ UNCHANGED <<tracked, placeholder, hyst, desired, policy, stored, rc, act,
                   next, faults, kind, env>>

MarkFailed(w) ==
    /\ waiter[w] = "retired"
    /\ tracked' = [tracked EXCEPT ![w] = "retired"]
    /\ waiter' = [waiter EXCEPT ![w] = "dropped"]
    /\ UNCHANGED <<placeholder, hyst, desired, policy, stored, rc, act, next,
                   faults, kind, env>>

-----------------------------------------------------------------------------
\* The environment.

\* A worker exits by itself; nothing tells the manager.
Die(w) ==
    /\ w \in alive /\ faults < MaxFaults
    /\ alive' = alive \ {w}
    /\ faults' = faults + 1
    /\ UNCHANGED <<tracked, placeholder, hyst, desired, policy, stored, rc, act,
                   waiter, next, kind, rows, listed, snap>>

\* The snapshot catches up with the registered workers and their heartbeats, or
\* with the provider rows; a registration is never withdrawn.
Appear(w) ==
    /\ ViewID(w) \notin snap
    /\ \/ /\ kind = "local" /\ w \in alive
          /\ snap' \in {snap, snap \cup {ViewID(w)}}
       \/ /\ kind = "runpod" /\ w \in rows
          /\ snap' = snap \cup {ViewID(w)}
    /\ listed' = listed \cup {ViewID(w)}
    /\ UNCHANGED <<tracked, placeholder, hyst, desired, policy, stored, rc, act,
                   waiter, next, faults, kind, alive, rows>>

Disappear(w) ==
    /\ kind = "local" /\ w \notin alive /\ ViewID(w) \in snap
    /\ snap' = snap \ {ViewID(w)}
    /\ UNCHANGED <<tracked, placeholder, hyst, desired, policy, stored, rc, act,
                   waiter, next, faults, kind, alive, rows, listed>>

\* forge-catalog fleet-policy writes the row.
UpsertPolicy ==
    /\ stored' \in Policies \ {stored}
    /\ UNCHANGED <<tracked, placeholder, hyst, desired, policy, rc, act, waiter,
                   next, faults, kind, env>>

Loop == ReconcileAll \/ Apply \/ Compare \/ Pick \/ RetireDrained \/ MarkDrained
ScaleUp(s) == PutPlaceholder(s) \/ Provision(s) \/ Track(s)
Wait(w) == Ready(w) \/ ReadyAgain(w) \/ GiveUp(w) \/ RetireFailed(w) \/ MarkFailed(w)

Next ==
    \/ Loop
    \/ \E s \in Scaler : ScaleUp(s)
    \/ \E a \in Activators : NeedsActivation(a) \/ Activate(a)
    \/ \E w \in WorkerID : Wait(w) \/ Die(w) \/ Appear(w) \/ Disappear(w)
    \/ UpsertPolicy

Spec == Init /\ [][Next]_vars

\* The ticker runs the loop, a handler runs on once it has begun to activate, and
\* the readiness waits run; a process that stays alive is eventually shown ready,
\* one that is gone eventually is not.
Shown(w) == Appear(w) /\ ViewID(w) \in snap'

Fairness ==
    /\ WF_vars(Loop \/ ScaleUp("rc"))
    /\ \A a \in Activators : WF_vars(Activate(a) \/ ScaleUp(a))
    /\ \A w \in WorkerID : WF_vars(Wait(w)) /\ WF_vars(Shown(w) \/ Disappear(w))

LiveSpec == Spec /\ Fairness

-----------------------------------------------------------------------------
\* Properties.

\* A worker has one owner at a time.  Until its readiness wait is over only the
\* wait touches it: the loop cannot drain a worker that the wait is about to
\* retire, nor count it as ready.  Afterwards only a drain of the loop retires
\* it, one worker at a time, and the wait that failed leaves it retired.
WorkerOwned ==
    \A w \in WorkerID :
      /\ waiter[w] = "none" <=> tracked[w] = "absent"
      /\ waiter[w] \in {"waiting", "failed", "retired"} <=> tracked[w] = "provisioning"
      /\ waiter[w] = "dropped" => tracked[w] = "retired"
      /\ rc.pc \in {"retire", "retired"} /\ rc.wid = w => waiter[w] \in {"called", "done"}
      /\ tracked[w] = "draining" => rc.pc \in {"retire", "retired"} /\ rc.wid = w

\* A decision moves the fleet by one worker from the count it was made on, a
\* scale-up stays within the policy's maximum and a drain above its minimum:
\* whatever samples the window still holds from another load or an older policy,
\* reconcile does not start a worker that would exceed MaxReplicas by its count.
\* With a maximum below the minimum, which nothing rejects, it keeps between them.
StepsWithinPolicy ==
    /\ rc.pc = "compare" => desired \in (rc.ready - 1)..(rc.ready + 1)
    /\ rc.pc \in {"scaleUp", "provision"} =>
         desired = rc.ready + 1 /\ (desired <= Get.max \/ Get.max <= 0 \/ desired <= Get.min)
    /\ rc.pc = "drain" =>
         /\ desired = rc.ready - 1
         /\ desired >= Get.min \/ (0 < Get.max /\ Get.max < Get.min /\ desired >= Get.max)

\* The fleet never loses a process it started: one that runs is in the table
\* and not retired, or scaleUp has it in hand.  Holds for local processes; a pod
\* whose creation or deletion failed half way escapes it.
NoLostProcess ==
    kind = "local" => \A w \in alive :
      \/ tracked[w] \in {"provisioning", "ready", "draining"}
      \/ \E s \in Scaler : At(s).pc = "track" /\ At(s).wid = w

\* A retired worker stays retired, except in the instant between the callback of
\* WaitReady and the goroutine's own assignment, where a drain can overtake it.
RetiredStays ==
    [][\A w \in WorkerID :
         tracked[w] = "retired" /\ waiter[w] # "called" => tracked'[w] = "retired"]_vars

\* The flag that damps the loop is always released, also when Provision fails
\* and scaleUp returns without clearing it: the model can scale again.
PendingClears == hyst.pending ~> ~hyst.pending

\* While the manager knows the model it keeps reaching the policy's minimum of
\* workers it counts as ready, unless it ran out of provisions to make.
MinimumCounted ==
    []<>(~Known \/ readyCount >= Get.min \/ next = MaxProvisions)

\* What loop.go says of a worker in state provisioning: it counts toward the
\* gap between desired and ready.  The loop starts a worker only when those
\* ready and those some goroutine is starting or waiting for fall short.
InFlight ==
    Cardinality({w \in WorkerID : tracked[w] = "provisioning"})
        + Cardinality({s \in Scaler : At(s).pc \in {"provision", "track"}})

GapFillCountsInFlight ==
    [][rc.pc = "compare" /\ rc'.pc = "scaleUp" => desired > rc.ready + InFlight]_vars

\* What the README calls the desired-capacity loop: a model whose stored policy
\* asks for a minimum of replicas gets them, again and again.
DesiredCapacity == []<>(readyCount >= stored.min \/ next = MaxProvisions)

\* What the README says of dead nodes: a worker whose process has exited leaves
\* the set the fleet counts as ready, so that it is replaced.
DeadWorkersLeave ==
    \A w \in WorkerID :
      (w <= next /\ w \notin alive ~> tracked[w] # "ready" /\ ViewID(w) \notin snap)

\* What deploy/runpod says tears a pod down: scale-down, or Retire.
RetiredPodIsGone == \A w \in WorkerID : tracked[w] = "retired" => w \notin alive
=============================================================================
