---------------------------- MODULE FleetProofs ----------------------------
(***************************************************************************)
(* Proofs about the fleet manager, for any number of activating handlers,  *)
(* provisions and faults and any policies: each tracked worker has one     *)
(* owner, no local process is lost, a retired worker stays retired, and    *)
(* the loop's decisions stay within the policy they were made under.       *)
(***************************************************************************)
EXTENDS Fleet, TLAPS

Places ==
  {"idle", "apply", "compare", "scaleUp", "provision", "track", "drain", "retire",
   "retired", "activate", "done"}

Goroutine == [pc : Places, ready : Nat, wid : WorkerID \cup {NoWorker}]

TrackedStates == {"absent", "provisioning", "ready", "draining", "retired"}
WaiterStates == {"none", "waiting", "called", "done", "failed", "retired", "dropped"}

(* Type correctness of the manager's state; only workers that were          *)
(* provisioned run.                                                         *)
TypeOK ==
  /\ tracked \in [WorkerID -> TrackedStates]
  /\ waiter \in [WorkerID -> WaiterStates]
  /\ rc \in Goroutine /\ act \in [Activators -> Goroutine]
  /\ placeholder \in BOOLEAN
  /\ next \in Nat /\ next <= MaxProvisions
  /\ alive \subseteq 1..next
  /\ desired \in Int
  /\ policy \in Policies \cup {FleetNoPolicy} /\ stored \in Policies \cup {FleetNoPolicy}
  /\ hyst \in [samples : Seq(Int), pending : BOOLEAN, acted : BOOLEAN]
  /\ kind \in Kinds

(* What the loop counts is a number; the last section shows that it is.     *)
Counted == readyCount \in Nat /\ provisioningCount \in Nat

-----------------------------------------------------------------------------
(* Deciding.                                                                *)

(* The policy in force consists of numbers, the default included.           *)
LEMMA GetIsNumeric ==
  ASSUME TypeOK
  PROVE  /\ Get.min \in Int /\ Get.max \in Int
         /\ Get.target \in Int /\ Get.util \in Int
BY FleetAssumption DEF TypeOK, Get, DefaultPolicy

(* A number within the bounds of a policy.  With a maximum below the        *)
(* minimum clamp returns either of them.                                    *)
NotAbove(d, lo, hi) == d <= hi \/ hi <= 0 \/ d <= lo
NotBelow(d, lo, hi) == d >= lo \/ (0 < hi /\ hi < lo /\ d >= hi)

(* What the load asks for respects the policy's bounds.                     *)
LEMMA WantedWithinPolicy ==
  ASSUME NEW active \in Nat, NEW ready \in Nat, NEW p,
         p.min \in Int, p.max \in Int, p.target \in Int, p.util \in Int
  PROVE  /\ Wanted(active, ready, p) \in Int
         /\ NotBelow(Wanted(active, ready, p), p.min, p.max)
         /\ NotAbove(Wanted(active, ready, p), p.min, p.max)
<1> DEFINE target == IF p.target <= 0 THEN 16 ELSE p.target
           raw == ceilDiv(active, target)
<1>1. target \in Nat \ {0}
  OBVIOUS
<1>2. raw \in Int
  <2> HIDE DEF target
  <2>1. \A a \in Nat, b \in Nat \ {0} : (a + b - 1) \div b \in Int
    OBVIOUS
  <2> QED BY <1>1, <2>1 DEF ceilDiv
<1>3. \A v, lo, hi \in Int :
        /\ clamp(v, lo, hi) \in Int
        /\ NotBelow(clamp(v, lo, hi), lo, hi) /\ NotAbove(clamp(v, lo, hi), lo, hi)
  BY DEF clamp, NotBelow, NotAbove
<1>4. \E v \in Int : Wanted(active, ready, p) = clamp(v, p.min, p.max)
  <2> HIDE DEF raw
  <2>1. \/ Wanted(active, ready, p) = clamp(ready, p.min, p.max)
        \/ Wanted(active, ready, p) = clamp(raw, p.min, p.max)
    BY DEF Wanted, raw
  <2> QED BY <1>2, <2>1
<1>5. PICK v \in Int : Wanted(active, ready, p) = clamp(v, p.min, p.max)
  BY <1>4
<1> QED BY <1>3, <1>5, Zenon

(* A decision moves by at most one worker from the count it was made on, in *)
(* the direction the load asks for.                                         *)
LEMMA OutIsOneStep ==
  ASSUME NEW st, NEW wanted \in Int, NEW ready \in Int, NEW hi \in Int, NEW lo \in Int,
         NEW passed, lo <= wanted, wanted <= hi
  PROVE  LET out == Out(st, wanted, ready, hi, lo, passed)
         IN  \/ out = ready
             \/ out = ready + 1 /\ out <= wanted
             \/ out = ready - 1 /\ out >= wanted
BY DEF Out, step

(* The window keeps the newest sample, and what it keeps is a list of       *)
(* samples.                                                                 *)
LEMMA WindowKeepsNewest ==
  ASSUME NEW samples \in Seq(Int), NEW wanted \in Int, NEW k \in Keeps(samples)
  PROVE  /\ Kept(samples, wanted, k) \in Seq(Int)
         /\ wanted \in Samples(Kept(samples, wanted, k))
         /\ Samples(Kept(samples, wanted, k)) \subseteq Int
<1> DEFINE a == Append(samples, wanted)
           n == Len(samples) + 1
           kept == SubSeq(a, k, n)
<1>1. a \in Seq(Int) /\ Len(a) = n /\ a[n] = wanted /\ n \in Nat
  OBVIOUS
<1>2. k \in 1..n
  BY DEF Keeps
<1> HIDE DEF a, n
<1>3. kept \in Seq(Int) /\ Len(kept) = n - k + 1
      /\ \A i \in 1..(n - k + 1) : kept[i] = a[k + i - 1]
  <2>1. k \in Int /\ k <= n /\ \A i \in k..n : i \in 1..Len(a)
    BY <1>1, <1>2
  <2> QED BY <1>1, <1>2, <2>1
<1>4. n - k + 1 \in 1..(n - k + 1) /\ k + (n - k + 1) - 1 = n
  BY <1>1, <1>2
<1>5. kept[n - k + 1] = wanted /\ n - k + 1 \in DOMAIN kept
  BY <1>1, <1>3, <1>4
<1>6. Kept(samples, wanted, k) = kept
  BY DEF Kept, a, n
<1> HIDE DEF kept
<1>7. \A i \in DOMAIN kept : kept[i] \in Int
  BY <1>3
<1> QED BY <1>3, <1>5, <1>6, <1>7 DEF Samples
-----------------------------------------------------------------------------
(* Type correctness.                                                        *)

(* A step of scaleUp moves the goroutine that takes it and no other.        *)
LEMMA MoveMoves ==
  ASSUME TypeOK, NEW s \in Scaler, NEW st \in Goroutine, Move(s, st)
  PROVE  /\ rc' \in Goroutine /\ act' \in [Activators -> Goroutine]
         /\ At(s)' = st /\ \A t \in Scaler : t # s => At(t)' = At(t)
         /\ s # "rc" => rc' = rc
<1>0. act \in [Activators -> Goroutine] /\ rc \in Goroutine
  BY DEF TypeOK
<1>1. CASE s = "rc"
  BY <1>0, <1>1 DEF Move, At
<1>2. CASE s # "rc"
  <2>1. s \in Activators /\ act' = [act EXCEPT ![s] = st] /\ rc' = rc
    BY <1>2 DEF Move, Scaler
  <2> QED BY <1>0, <1>2, <2>1 DEF At, Scaler
<1> QED BY <1>1, <1>2

LEMMA AtIsGoroutine ==
  ASSUME TypeOK, NEW s \in Scaler
  PROVE  At(s) \in Goroutine
BY DEF TypeOK, At, Scaler

LEMMA IdleIsGoroutine == \A s : Idle(s) \in Goroutine
BY DEF Idle, Goroutine, Places

(* The fields of a goroutine change as written.                             *)
LEMMA Fields ==
  ASSUME NEW g \in Goroutine
  PROVE  g.pc \in Places /\ g.ready \in Nat /\ g.wid \in WorkerID \cup {NoWorker}
BY DEF Goroutine

LEMMA MovePc ==
  ASSUME NEW g \in Goroutine, NEW p \in Places
  PROVE  /\ [g EXCEPT !.pc = p] \in Goroutine
         /\ [g EXCEPT !.pc = p].pc = p
         /\ [g EXCEPT !.pc = p].ready = g.ready
         /\ [g EXCEPT !.pc = p].wid = g.wid
BY DEF Goroutine

LEMMA MoveReady ==
  ASSUME NEW g \in Goroutine, NEW p \in Places, NEW n \in Nat
  PROVE  /\ [g EXCEPT !.pc = p, !.ready = n] \in Goroutine
         /\ [g EXCEPT !.pc = p, !.ready = n].pc = p
         /\ [g EXCEPT !.pc = p, !.ready = n].ready = n
         /\ [g EXCEPT !.pc = p, !.ready = n].wid = g.wid
BY Zenon DEF Goroutine

LEMMA MoveWid ==
  ASSUME NEW g \in Goroutine, NEW p \in Places, NEW w \in WorkerID \cup {NoWorker}
  PROVE  /\ [g EXCEPT !.pc = p, !.wid = w] \in Goroutine
         /\ [g EXCEPT !.pc = p, !.wid = w].pc = p
         /\ [g EXCEPT !.pc = p, !.wid = w].ready = g.ready
         /\ [g EXCEPT !.pc = p, !.wid = w].wid = w
BY Zenon DEF Goroutine

LEMMA ClearedIsState ==
  ASSUME hyst \in [samples : Seq(Int), pending : BOOLEAN, acted : BOOLEAN]
  PROVE  ClearPending(hyst) \in [samples : Seq(Int), pending : BOOLEAN, acted : BOOLEAN]
BY Zenon DEF ClearPending

LEMMA TypeInit == Init => TypeOK
<1> SUFFICES ASSUME Init PROVE TypeOK
  OBVIOUS
<1>3. hyst \in [samples : Seq(Int), pending : BOOLEAN, acted : BOOLEAN]
  BY DEF Init, FreshState
<1>4. next \in Nat /\ next <= MaxProvisions
  BY FleetAssumption DEF Init
<1>5. rc \in Goroutine /\ act \in [Activators -> Goroutine]
  BY IdleIsGoroutine DEF Init
<1>6. tracked \in [WorkerID -> TrackedStates] /\ waiter \in [WorkerID -> WaiterStates]
  BY DEF Init, TrackedStates, WaiterStates
<1>7. /\ placeholder \in BOOLEAN /\ alive \subseteq 1..next
      /\ policy \in Policies \cup {FleetNoPolicy}
      /\ stored \in Policies \cup {FleetNoPolicy} /\ kind \in Kinds
  BY Zenon DEF Init
<1>8. desired \in Int
  BY DEF Init
<1> QED BY <1>3, <1>4, <1>5, <1>6, <1>7, <1>8, Zenon DEF TypeOK

(* The decision of the loop: one worker more, one less or as many, within   *)
(* the policy.                                                              *)
Within(d) == NotAbove(d, Get.min, Get.max)
Enough(d) == NotBelow(d, Get.min, Get.max)

LEMMA ApplyDecides ==
  ASSUME TypeOK, Apply
  PROVE  /\ desired' \in Int
         /\ hyst' \in [samples : Seq(Int), pending : BOOLEAN, acted : BOOLEAN]
         /\ \/ desired' = rc.ready
            \/ desired' = rc.ready + 1 /\ Within(desired')
            \/ desired' = rc.ready - 1 /\ Enough(desired')
<1>0. rc.ready \in Nat /\ hyst.samples \in Seq(Int) /\ hyst.pending \in BOOLEAN
      /\ hyst.acted \in BOOLEAN
  BY Fields DEF TypeOK
<1>1. PICK wanted \in Wants, passed \in DelayPassed, k \in Keeps(hyst.samples) :
        \E hi, lo \in Samples(Kept(hyst.samples, wanted, k)) :
          /\ Extremes(Kept(hyst.samples, wanted, k), hi, lo)
          /\ desired' = Out(hyst, wanted, rc.ready, hi, lo, passed)
          /\ hyst' = Applied(hyst, Kept(hyst.samples, wanted, k), wanted, rc.ready, passed)
  BY Zenon DEF Apply
<1>2. /\ wanted \in Int
      /\ NotBelow(wanted, Get.min, Get.max) /\ NotAbove(wanted, Get.min, Get.max)
  <2>1. PICK active \in sumActive : wanted = Wanted(active, rc.ready, Get)
    BY Zenon DEF Wants
  <2>2. active \in Nat
    BY FleetAssumption DEF sumActive
  <2> QED BY <1>0, <2>1, <2>2, GetIsNumeric, WantedWithinPolicy, Zenon
<1> DEFINE kept == Kept(hyst.samples, wanted, k)
<1>3. kept \in Seq(Int) /\ wanted \in Samples(kept) /\ Samples(kept) \subseteq Int
  BY <1>0, <1>2, WindowKeepsNewest
<1> HIDE DEF kept
<1>4. PICK hi \in Samples(kept), lo \in Samples(kept) :
        /\ Extremes(kept, hi, lo)
        /\ desired' = Out(hyst, wanted, rc.ready, hi, lo, passed)
        /\ hyst' = Applied(hyst, kept, wanted, rc.ready, passed)
  BY <1>1, Zenon DEF kept
<1>5. hi \in Int /\ lo \in Int /\ lo <= wanted /\ wanted <= hi
  BY <1>3, <1>4 DEF Extremes
<1>6. \/ desired' = rc.ready
      \/ desired' = rc.ready + 1 /\ desired' <= wanted
      \/ desired' = rc.ready - 1 /\ desired' >= wanted
  BY <1>0, <1>2, <1>4, <1>5, OutIsOneStep
<1>7. hyst' \in [samples : Seq(Int), pending : BOOLEAN, acted : BOOLEAN]
  <2>1. passed \in BOOLEAN
    BY Zenon DEF DelayPassed
  <2> QED BY <1>0, <1>3, <1>4, <2>1 DEF Applied, Acts
<1>8. \A d, w, lo1, hi1 \in Int :
        /\ d <= w /\ NotAbove(w, lo1, hi1) => NotAbove(d, lo1, hi1)
        /\ d >= w /\ NotBelow(w, lo1, hi1) => NotBelow(d, lo1, hi1)
  BY DEF NotAbove, NotBelow
<1>9. desired' \in Int /\ Get.min \in Int /\ Get.max \in Int /\ rc.ready \in Int
  BY <1>0, <1>6, GetIsNumeric
<1> QED BY <1>2, <1>6, <1>7, <1>8, <1>9, Zenon DEF Within, Enough

LEMMA TypeNext == TypeOK /\ Counted /\ [Next]_vars => TypeOK'
<1> SUFFICES ASSUME TypeOK, Counted, [Next]_vars PROVE TypeOK'
  OBVIOUS
<1> USE DEF env
<1>0. /\ tracked \in [WorkerID -> TrackedStates] /\ waiter \in [WorkerID -> WaiterStates]
      /\ rc \in Goroutine /\ act \in [Activators -> Goroutine]
      /\ next \in Nat /\ next <= MaxProvisions /\ alive \subseteq 1..next
  BY DEF TypeOK
<1>1. CASE ReconcileAll
  <2>1. rc' \in Goroutine
    BY <1>0, <1>1, MoveReady, Zenon DEF ReconcileAll, Places, Counted
  <2>2. policy' \in Policies \cup {FleetNoPolicy}
    BY <1>1 DEF ReconcileAll, Reload, TypeOK
  <2> QED BY <1>1, <2>1, <2>2 DEF ReconcileAll, TypeOK
<1>2. CASE Apply
  <2>1. rc' \in Goroutine
    BY <1>0, <1>2, MovePc, Zenon DEF Apply, Places
  <2>2. desired' \in Int /\ hyst' \in [samples : Seq(Int), pending : BOOLEAN, acted : BOOLEAN]
    BY <1>2, ApplyDecides
  <2>3. UNCHANGED <<tracked, placeholder, policy, stored, act, waiter, next, kind, env>>
    BY <1>2 DEF Apply
  <2> QED BY <2>1, <2>2, <2>3 DEF TypeOK
<1>3. CASE Compare
  <2>1. rc' \in Goroutine
    <3>1. \/ rc' = [rc EXCEPT !.pc = "scaleUp"] \/ rc' = [rc EXCEPT !.pc = "drain"]
          \/ rc' = Idle("rc")
      BY <1>3, Zenon DEF Compare
    <3>2. "scaleUp" \in Places /\ "drain" \in Places
      BY DEF Places
    <3>3. [rc EXCEPT !.pc = "scaleUp"] \in Goroutine /\ [rc EXCEPT !.pc = "drain"] \in Goroutine
      BY <1>0, <3>2, MovePc, Zenon
    <3> QED BY <3>1, <3>3, IdleIsGoroutine
  <2>2. hyst' = hyst \/ hyst' = ClearPending(hyst)
    BY <1>3, Zenon DEF Compare
  <2> QED BY <1>3, <2>1, <2>2, ClearedIsState DEF Compare, TypeOK
<1>4. CASE Pick \/ MarkDrained
  <2>1. rc' \in Goroutine
    <3>1. \/ \E w \in WorkerID : rc' = [rc EXCEPT !.pc = "retire", !.wid = w]
          \/ rc' = Idle("rc")
      BY <1>4, Zenon DEF Pick, MarkDrained
    <3>2. "retire" \in Places
      BY DEF Places
    <3>3. \A w \in WorkerID : [rc EXCEPT !.pc = "retire", !.wid = w] \in Goroutine
      BY <1>0, <3>2, MoveWid, Zenon
    <3>4. ASSUME NEW w \in WorkerID, rc' = [rc EXCEPT !.pc = "retire", !.wid = w]
          PROVE  rc' \in Goroutine
      BY <3>3, <3>4, Zenon
    <3> QED BY <3>1, <3>4, IdleIsGoroutine, Zenon
  <2>2. hyst' = hyst \/ hyst' = ClearPending(hyst)
    BY <1>4, Zenon DEF Pick, MarkDrained
  <2>3. tracked' \in [WorkerID -> TrackedStates]
    <3>1. \/ tracked' = tracked
          \/ \E w : tracked' = [tracked EXCEPT ![w] = "draining"]
          \/ \E w : tracked' = [tracked EXCEPT ![w] = "retired"]
      BY <1>4, Zenon DEF Pick, MarkDrained
    <3> QED BY <1>0, <3>1 DEF TrackedStates
  <2>4. UNCHANGED <<placeholder, desired, policy, stored, act, waiter, next, kind, env>>
    BY <1>4, Zenon DEF Pick, MarkDrained
  <2> QED BY <2>1, <2>2, <2>3, <2>4, ClearedIsState DEF TypeOK
<1>5. CASE RetireDrained
  <2>1. rc' \in Goroutine
    BY <1>0, <1>5, MovePc, Zenon DEF RetireDrained, Places
  <2>2. alive' \subseteq alive
    BY <1>5 DEF RetireDrained, Retire, RetireLocal, RetirePod, DeletePodFails
  <2> QED BY <1>0, <1>5, <2>1, <2>2 DEF RetireDrained, TypeOK
<1>6. ASSUME NEW s \in Scaler, ScaleUp(s) PROVE TypeOK'
  <2>0. At(s) \in Goroutine
    BY AtIsGoroutine
  <2>1. CASE PutPlaceholder(s)
    <3>1. [At(s) EXCEPT !.pc = "provision"] \in Goroutine
      BY <2>0, MovePc, Zenon DEF Places
    <3>2. rc' \in Goroutine /\ act' \in [Activators -> Goroutine]
      BY <2>1, <3>1, MoveMoves DEF PutPlaceholder
    <3> QED BY <2>1, <3>2 DEF PutPlaceholder, TypeOK
  <2>2. CASE Provision(s)
    <3>1. /\ \/ next' = next /\ alive' = alive
             \/ next < MaxProvisions /\ next' = next + 1 /\ alive' = alive \cup {next + 1}
          /\ \/ /\ next < MaxProvisions
                /\ Move(s, [At(s) EXCEPT !.pc = "track", !.wid = next + 1])
             \/ Move(s, [At(s) EXCEPT !.pc = "track", !.wid = NoWorker])
      BY <2>2, Zenon
      DEF Provision, ProvisionLocal, ProvisionPod, Starts, Fails, CreatePodFails
    <3>2. next' \in Nat /\ next' <= MaxProvisions /\ alive' \subseteq 1..next'
      BY <1>0, <3>1, FleetAssumption
    <3>3. next < MaxProvisions => next + 1 \in WorkerID
      BY <1>0, FleetAssumption DEF WorkerID
    <3>4. /\ next < MaxProvisions => [At(s) EXCEPT !.pc = "track", !.wid = next + 1] \in Goroutine
          /\ [At(s) EXCEPT !.pc = "track", !.wid = NoWorker] \in Goroutine
      BY <2>0, <3>3, MoveWid, Zenon DEF Places
    <3>5. rc' \in Goroutine /\ act' \in [Activators -> Goroutine]
      BY <3>1, <3>4, MoveMoves
    <3> QED BY <2>2, <3>2, <3>5 DEF Provision, TypeOK
  <2>3. CASE Track(s)
    <3>1. [Idle(s) EXCEPT !.pc = "done"] \in Goroutine
      BY IdleIsGoroutine, MovePc, Zenon DEF Places
    <3>2. rc' \in Goroutine /\ act' \in [Activators -> Goroutine]
      BY <2>3, <3>1, IdleIsGoroutine, MoveMoves DEF Track
    <3>3. /\ tracked' \in [WorkerID -> TrackedStates]
          /\ waiter' \in [WorkerID -> WaiterStates]
          /\ hyst' = hyst \/ hyst' = ClearPending(hyst)
      BY <1>0, <2>3 DEF Track, TrackedStates, WaiterStates
    <3>4. placeholder' = FALSE /\ UNCHANGED <<desired, policy, stored, next, kind, env>>
      BY <2>3 DEF Track
    <3>5. hyst' \in [samples : Seq(Int), pending : BOOLEAN, acted : BOOLEAN]
      BY <3>3, ClearedIsState, Zenon DEF TypeOK
    <3> QED BY <3>2, <3>3, <3>4, <3>5, Zenon DEF TypeOK
  <2> QED BY <1>6, <2>1, <2>2, <2>3 DEF ScaleUp
<1>7. ASSUME NEW a \in Activators, NeedsActivation(a) \/ Activate(a) PROVE TypeOK'
  <2>1. PICK p \in Places : act' = [act EXCEPT ![a].pc = p]
    BY <1>7 DEF NeedsActivation, Activate, Places
  <2>2. [act[a] EXCEPT !.pc = p] \in Goroutine
    BY <1>0, MovePc
  <2>3. act' \in [Activators -> Goroutine]
    BY <1>0, <2>1, <2>2
  <2> QED BY <1>7, <2>3 DEF NeedsActivation, Activate, TypeOK
<1>8. ASSUME NEW w \in WorkerID, Wait(w) PROVE TypeOK'
  <2>1. /\ tracked' \in [WorkerID -> TrackedStates]
        /\ waiter' \in [WorkerID -> WaiterStates]
    BY <1>0, <1>8
    DEF Wait, Ready, ReadyAgain, GiveUp, RetireFailed, MarkFailed, TrackedStates, WaiterStates
  <2>2. alive' \subseteq alive
    BY <1>8
    DEF Wait, Ready, ReadyAgain, GiveUp, RetireFailed, MarkFailed, Retire, RetireLocal,
        RetirePod, DeletePodFails
  <2>3. UNCHANGED <<placeholder, hyst, desired, policy, stored, rc, act, next, kind, snap>>
    BY <1>8 DEF Wait, Ready, ReadyAgain, GiveUp, RetireFailed, MarkFailed
  <2> QED BY <1>0, <2>1, <2>2, <2>3 DEF TypeOK
<1>9. ASSUME NEW w \in WorkerID, Die(w) \/ Appear(w) \/ Disappear(w) PROVE TypeOK'
  <2>1. alive' \subseteq alive
    BY <1>9 DEF Die, Appear, Disappear
  <2>4. UNCHANGED <<tracked, placeholder, hyst, desired, policy, stored, rc, act, waiter,
                    next, kind>>
    BY <1>9 DEF Die, Appear, Disappear
  <2> QED BY <1>0, <2>1, <2>4 DEF TypeOK
<1>10. CASE UpsertPolicy
  BY <1>10 DEF UpsertPolicy, TypeOK
<1>11. CASE UNCHANGED vars
  BY <1>11 DEF vars, TypeOK
<1> QED
  BY <1>1, <1>2, <1>3, <1>4, <1>5, <1>6, <1>7, <1>8, <1>9, <1>10, <1>11
  DEF Next, Loop
-----------------------------------------------------------------------------
(* Ownership.                                                               *)

(* The body of WorkerOwned for one worker.                                  *)
Owned(w) ==
  /\ waiter[w] = "none" <=> tracked[w] = "absent"
  /\ waiter[w] \in {"waiting", "failed", "retired"} <=> tracked[w] = "provisioning"
  /\ waiter[w] = "dropped" => tracked[w] = "retired"
  /\ rc.pc \in {"retire", "retired"} /\ rc.wid = w => waiter[w] \in {"called", "done"}
  /\ tracked[w] = "draining" => rc.pc \in {"retire", "retired"} /\ rc.wid = w

(* Goroutine s has worker w in hand: Provision returned it and it is not in *)
(* the table yet.                                                           *)
Holds(s, w) == At(s).pc = "track" /\ At(s).wid = w

(* WorkerOwned strengthened: identifiers are fresh, so a worker that some   *)
(* goroutine has in hand is in no table yet and in no other hand.           *)
OwnInv ==
  /\ \A w \in WorkerID : Owned(w)
  /\ \A w \in WorkerID : w > next => waiter[w] = "none"
  /\ \A s \in Scaler, w \in WorkerID : Holds(s, w) => w <= next /\ waiter[w] = "none"
  /\ \A s, t \in Scaler, w \in WorkerID : Holds(s, w) /\ Holds(t, w) => s = t
  /\ rc.pc \in {"retire", "retired"} => rc.wid \in WorkerID

(* The loop between "idle" and "drain": it owns no worker.                  *)
Unowning == {"idle", "apply", "compare", "scaleUp", "drain"}

(* What each step of the loop does to its own state.                        *)
LEMMA LoopMoves ==
  ASSUME TypeOK, Loop
  PROVE  /\ UNCHANGED <<act, waiter, next>>
         /\ \/ /\ ReconcileAll \/ Apply \/ Compare
               /\ rc.pc \in Unowning /\ rc'.pc \in Unowning /\ UNCHANGED <<tracked, alive, kind>>
            \/ /\ rc.pc = "drain" /\ rc'.pc = "idle"
               /\ UNCHANGED <<tracked, alive, kind>>
            \/ \E w \in WorkerID :
                 /\ rc.pc = "drain" /\ rc'.pc = "retire" /\ rc'.wid = w
                 /\ tracked[w] = "ready" /\ tracked' = [tracked EXCEPT ![w] = "draining"]
                 /\ UNCHANGED <<alive, kind>>
            \/ /\ rc.pc = "retire" /\ rc'.pc = "retired" /\ rc'.wid = rc.wid
               /\ alive' \subseteq alive /\ (kind = "local" => alive' = alive \ {rc.wid})
               /\ UNCHANGED <<tracked, kind>>
            \/ /\ rc.pc = "retired" /\ rc'.pc = "idle"
               /\ tracked' = [tracked EXCEPT ![rc.wid] = "retired"]
               /\ UNCHANGED <<alive, kind>>
<1> USE DEF env
<1>0. rc \in Goroutine /\ \A s : Idle(s).pc = "idle"
  BY DEF TypeOK, Idle
<1>p. /\ "apply" \in Places /\ "compare" \in Places /\ "scaleUp" \in Places
      /\ "drain" \in Places /\ "retire" \in Places /\ "retired" \in Places
  BY DEF Places
<1>1. CASE ReconcileAll
  <2>1. rc'.pc \in {"apply", "idle"} /\ rc.pc = "idle"
    <3>1. /\ rc.pc = "idle"
          /\ rc' = rc \/ rc' = [rc EXCEPT !.pc = "apply", !.ready = readyCount]
      BY <1>1, Zenon DEF ReconcileAll
    <3>2. rc' = [rc EXCEPT !.pc = "apply", !.ready = readyCount] => rc'.pc = "apply"
      BY <1>0, Zenon DEF Goroutine
    <3> QED BY <3>1, <3>2
  <2> QED BY <1>1, <2>1 DEF ReconcileAll, Unowning
<1>2. CASE Apply
  <2>1. rc.pc = "apply" /\ rc'.pc = "compare"
    BY <1>0, <1>2, <1>p, MovePc DEF Apply
  <2> QED BY <1>2, <2>1 DEF Apply, Unowning
<1>3. CASE Compare
  <2>1. rc.pc = "compare" /\ rc'.pc \in {"scaleUp", "drain", "idle"}
    <3>1. /\ rc.pc = "compare"
          /\ \/ rc' = [rc EXCEPT !.pc = "scaleUp"] \/ rc' = [rc EXCEPT !.pc = "drain"]
             \/ rc' = Idle("rc")
      BY <1>3, Zenon DEF Compare
    <3>2. /\ rc' = [rc EXCEPT !.pc = "scaleUp"] => rc'.pc = "scaleUp"
          /\ rc' = [rc EXCEPT !.pc = "drain"] => rc'.pc = "drain"
      BY <1>0, Zenon DEF Goroutine
    <3> QED BY <1>0, <3>1, <3>2
  <2> QED BY <1>3, <2>1 DEF Compare, Unowning
<1>4. CASE Pick
  <2>1. rc.pc = "drain" /\ UNCHANGED <<act, waiter, next, alive, kind>>
    BY <1>4, Zenon DEF Pick
  <2>2. \/ rc' = Idle("rc") /\ UNCHANGED tracked
        \/ \E w \in WorkerID :
             /\ tracked[w] = "ready"
             /\ tracked' = [tracked EXCEPT ![w] = "draining"]
             /\ rc' = [rc EXCEPT !.pc = "retire", !.wid = w]
    BY <1>4, Zenon DEF Pick
  <2>3. CASE rc' = Idle("rc") /\ UNCHANGED tracked
    BY <1>0, <2>1, <2>3
  <2>4. ASSUME NEW w \in WorkerID, tracked[w] = "ready",
               tracked' = [tracked EXCEPT ![w] = "draining"],
               rc' = [rc EXCEPT !.pc = "retire", !.wid = w]
        PROVE  \E v \in WorkerID :
                 /\ rc.pc = "drain" /\ rc'.pc = "retire" /\ rc'.wid = v
                 /\ tracked[v] = "ready" /\ tracked' = [tracked EXCEPT ![v] = "draining"]
                 /\ UNCHANGED <<alive, kind>>
    <3>1. rc'.pc = "retire" /\ rc'.wid = w
      BY <1>0, <2>4, Zenon DEF Goroutine
    <3> QED BY <2>1, <2>4, <3>1, Zenon
  <2>5. CASE \E w \in WorkerID :
               /\ tracked[w] = "ready"
               /\ tracked' = [tracked EXCEPT ![w] = "draining"]
               /\ rc' = [rc EXCEPT !.pc = "retire", !.wid = w]
    BY <2>1, <2>4, <2>5, Zenon
  <2> QED BY <2>2, <2>3, <2>5, Zenon
<1>5. CASE RetireDrained
  <2>1. rc.pc = "retire" /\ rc'.pc = "retired" /\ rc'.wid = rc.wid
    BY <1>0, <1>5, <1>p, MovePc DEF RetireDrained
  <2>2. alive' \subseteq alive /\ (kind = "local" => alive' = alive \ {rc.wid})
    BY <1>5 DEF RetireDrained, Retire, RetireLocal, RetirePod, DeletePodFails
  <2> QED BY <1>5, <2>1, <2>2 DEF RetireDrained
<1>6. CASE MarkDrained
  BY <1>0, <1>6 DEF MarkDrained
<1> QED BY <1>1, <1>2, <1>3, <1>4, <1>5, <1>6 DEF Loop
LEMMA OwnInit == Init => OwnInv
BY DEF Init, OwnInv, Owned, Holds, At, Scaler, Idle

(* A step of the loop.                                                      *)
LEMMA LoopOwns ==
  ASSUME TypeOK, OwnInv, Loop
  PROVE  OwnInv'
<1>0. tracked \in [WorkerID -> TrackedStates] /\ waiter \in [WorkerID -> WaiterStates]
  BY DEF TypeOK
<1>1. UNCHANGED <<act, waiter, next>> /\ rc.pc # "track" /\ rc'.pc # "track"
  BY LoopMoves DEF Unowning
<1>2. \A s \in Scaler, w \in WorkerID : Holds(s, w)' => Holds(s, w)
  BY <1>1 DEF Holds, At
<1>3. rc'.pc \in {"retire", "retired"} => rc'.wid \in WorkerID
  BY LoopMoves DEF OwnInv, Unowning
<1>4. ASSUME NEW w \in WorkerID PROVE Owned(w)'
  <2>0. /\ Owned(w) /\ tracked[w] \in TrackedStates /\ waiter[w] \in WaiterStates
        /\ waiter'[w] = waiter[w]
    BY <1>0, <1>1 DEF OwnInv
  <2>1. CASE rc.pc \in Unowning /\ rc'.pc \in Unowning /\ tracked' = tracked
    BY <2>0, <2>1 DEF Owned, Unowning
  <2>2. CASE \E v \in WorkerID :
               /\ rc.pc = "drain" /\ rc'.pc = "retire" /\ rc'.wid = v
               /\ tracked[v] = "ready" /\ tracked' = [tracked EXCEPT ![v] = "draining"]
    <3>1. PICK v \in WorkerID :
            /\ rc.pc = "drain" /\ rc'.pc = "retire" /\ rc'.wid = v
            /\ tracked[v] = "ready" /\ tracked' = [tracked EXCEPT ![v] = "draining"]
      BY <2>2, Zenon
    <3>2. tracked'[w] = IF w = v THEN "draining" ELSE tracked[w]
      BY <1>0, <3>1
    <3> QED BY <2>0, <3>1, <3>2 DEF Owned, TrackedStates, WaiterStates
  <2>3. CASE /\ rc.pc = "retire" /\ rc'.pc = "retired" /\ rc'.wid = rc.wid
             /\ tracked' = tracked
    BY <2>0, <2>3 DEF Owned
  <2>4. CASE /\ rc.pc = "retired" /\ rc'.pc = "idle"
             /\ tracked' = [tracked EXCEPT ![rc.wid] = "retired"]
    <3>1. tracked'[w] = IF w = rc.wid THEN "retired" ELSE tracked[w]
      BY <1>0, <2>4
    <3> QED BY <2>0, <2>4, <3>1 DEF Owned, TrackedStates, WaiterStates
  <2>5. \/ rc.pc \in Unowning /\ rc'.pc \in Unowning /\ tracked' = tracked
        \/ \E v \in WorkerID :
               /\ rc.pc = "drain" /\ rc'.pc = "retire" /\ rc'.wid = v
               /\ tracked[v] = "ready" /\ tracked' = [tracked EXCEPT ![v] = "draining"]
        \/ /\ rc.pc = "retire" /\ rc'.pc = "retired" /\ rc'.wid = rc.wid
           /\ tracked' = tracked
        \/ /\ rc.pc = "retired" /\ rc'.pc = "idle"
           /\ tracked' = [tracked EXCEPT ![rc.wid] = "retired"]
    BY LoopMoves, Zenon DEF Unowning
  <2> QED BY <2>1, <2>2, <2>3, <2>4, <2>5
<1> QED BY <1>1, <1>2, <1>3, <1>4 DEF OwnInv

(* What each step of scaleUp does: it takes a fresh worker in hand, or puts *)
(* the one in hand into the table.                                          *)
LEMMA ScaleUpMoves ==
  ASSUME TypeOK, NEW s \in Scaler, ScaleUp(s)
  PROVE  /\ \A t \in Scaler : t # s => At(t)' = At(t)
         /\ s # "rc" => rc' = rc
         /\ At(s).pc \in {"scaleUp", "provision", "track"} /\ kind' = kind
         /\ \/ /\ At(s).pc = "scaleUp" /\ At(s)'.pc = "provision"
               /\ UNCHANGED <<tracked, waiter, next, alive>>
            \/ /\ At(s).pc = "provision" /\ At(s)'.pc = "track" /\ At(s)'.wid = next + 1
               /\ next < MaxProvisions /\ next' = next + 1 /\ alive' = alive \cup {next + 1}
               /\ UNCHANGED <<tracked, waiter>>
            \/ /\ At(s).pc = "provision" /\ At(s)'.pc = "track" /\ At(s)'.wid = NoWorker
               /\ \/ UNCHANGED <<next, alive>>
                  \/ /\ kind # "local" /\ next < MaxProvisions /\ next' = next + 1
                     /\ alive' = alive \cup {next + 1}
               /\ UNCHANGED <<tracked, waiter>>
            \/ /\ At(s).pc = "track" /\ At(s)'.pc \in {"idle", "done"}
               /\ At(s).wid = NoWorker /\ UNCHANGED <<tracked, waiter, next, alive>>
            \/ /\ At(s).pc = "track" /\ At(s)'.pc \in {"idle", "done"}
               /\ At(s).wid \in WorkerID
               /\ tracked' = [tracked EXCEPT ![At(s).wid] = "provisioning"]
               /\ waiter' = [waiter EXCEPT ![At(s).wid] = "waiting"]
               /\ UNCHANGED <<next, alive>>
<1> USE DEF env
<1>0. /\ At(s) \in Goroutine /\ next \in Nat /\ next <= MaxProvisions
      /\ At(s).wid \in WorkerID \cup {NoWorker}
  BY AtIsGoroutine, Fields, Zenon DEF TypeOK
<1>p. "provision" \in Places /\ "track" \in Places /\ "done" \in Places
  BY DEF Places
<1>1. CASE PutPlaceholder(s)
  <2> DEFINE g == [At(s) EXCEPT !.pc = "provision"]
  <2>1. g \in Goroutine /\ g.pc = "provision"
    BY <1>0, <1>p, MovePc
  <2> HIDE DEF g
  <2>2. Move(s, g) /\ At(s).pc = "scaleUp" /\ UNCHANGED <<tracked, waiter, next, alive, kind>>
    BY <1>1 DEF PutPlaceholder, g
  <2> QED BY <2>1, <2>2, MoveMoves
<1>2. CASE Provision(s)
  <2>0. At(s).pc = "provision" /\ UNCHANGED <<tracked, waiter, kind>>
    BY <1>2 DEF Provision
  <2>1. CASE Starts(s)
    <3> DEFINE g == [At(s) EXCEPT !.pc = "track", !.wid = next + 1]
    <3>1. /\ next < MaxProvisions /\ next' = next + 1 /\ alive' = alive \cup {next + 1}
          /\ Move(s, g)
      BY <2>1 DEF Starts
    <3>2. next + 1 \in WorkerID
      BY <1>0, <3>1, FleetAssumption DEF WorkerID
    <3>3. g \in Goroutine /\ g.pc = "track" /\ g.wid = next + 1
      BY <1>0, <3>2, <1>p, Zenon DEF Goroutine
    <3> HIDE DEF g
    <3> QED BY <2>0, <3>1, <3>3, MoveMoves
  <2>2. CASE Fails(s)
    <3> DEFINE g == [At(s) EXCEPT !.pc = "track", !.wid = NoWorker]
    <3>1. g \in Goroutine /\ g.pc = "track" /\ g.wid = NoWorker
      BY <1>0, <1>p, Zenon DEF Goroutine
    <3> HIDE DEF g
    <3>2. Move(s, g)
      BY <2>2 DEF Fails, g
    <3>3. \/ Starts(s)
          \/ UNCHANGED <<next, alive>>
          \/ /\ kind # "local" /\ next < MaxProvisions /\ next' = next + 1
             /\ alive' = alive \cup {next + 1}
      BY <1>2, Zenon DEF Provision, ProvisionLocal, ProvisionPod, CreatePodFails
    <3> QED BY <2>0, <2>1, <3>1, <3>2, <3>3, MoveMoves
  <2> QED BY <1>2, <2>1, <2>2 DEF Provision, ProvisionLocal, ProvisionPod, CreatePodFails
<1>3. CASE Track(s)
  <2> DEFINE g == IF s = "rc" THEN Idle(s) ELSE [Idle(s) EXCEPT !.pc = "done"]
  <2>1. g \in Goroutine /\ g.pc \in {"idle", "done"}
    <3>1. Idle(s) \in Goroutine /\ Idle(s).pc = "idle"
      BY IdleIsGoroutine DEF Idle
    <3>2. [Idle(s) EXCEPT !.pc = "done"] \in Goroutine /\ [Idle(s) EXCEPT !.pc = "done"].pc = "done"
      BY <3>1, <1>p, MovePc
    <3> QED BY <3>1, <3>2
  <2> HIDE DEF g
  <2>2. Move(s, g) /\ At(s).pc = "track" /\ UNCHANGED <<next, alive, kind>>
    BY <1>3, Zenon DEF Track, g
  <2>3. /\ At(s).wid = NoWorker => UNCHANGED <<tracked, waiter>>
        /\ At(s).wid # NoWorker =>
             /\ tracked' = [tracked EXCEPT ![At(s).wid] = "provisioning"]
             /\ waiter' = [waiter EXCEPT ![At(s).wid] = "waiting"]
    BY <1>3 DEF Track
  <2> QED BY <1>0, <2>1, <2>2, <2>3, MoveMoves
<1> QED BY <1>1, <1>2, <1>3 DEF ScaleUp
LEMMA ScaleUpOwns ==
  ASSUME TypeOK, OwnInv, NEW s \in Scaler, ScaleUp(s)
  PROVE  OwnInv'
<1>0. /\ tracked \in [WorkerID -> TrackedStates] /\ waiter \in [WorkerID -> WaiterStates]
      /\ next \in Nat /\ next <= MaxProvisions /\ WorkerID \subseteq Nat \ {0}
  BY DEF TypeOK, WorkerID
<1>1. /\ \A t \in Scaler : t # s => At(t)' = At(t)
      /\ s # "rc" => rc' = rc
      /\ At(s).pc \in {"scaleUp", "provision", "track"}
  BY ScaleUpMoves
<1>2. At("rc") = rc /\ At("rc")' = rc'
  BY DEF At
<1>3. At(s)'.pc \in {"provision", "track", "idle", "done"}
  BY ScaleUpMoves
<1>4. /\ rc'.pc \in {"retire", "retired"} => rc' = rc
      /\ rc.pc \in {"retire", "retired"} => rc' = rc
  BY <1>1, <1>2, <1>3
<1>5. CASE tracked' = tracked /\ waiter' = waiter /\ next' = next
           /\ \A w \in WorkerID : ~Holds(s, w)'
  <2>1. \A t \in Scaler, w \in WorkerID : Holds(t, w)' => Holds(t, w)
    BY <1>1, <1>5 DEF Holds
  <2>2. \A w \in WorkerID : Owned(w)'
    BY <1>4, <1>5 DEF Owned, OwnInv
  <2> QED BY <1>4, <1>5, <2>1, <2>2 DEF OwnInv
<1>6. CASE /\ At(s)'.pc = "track" /\ At(s)'.wid \in {next + 1, NoWorker} /\ next' = next + 1
           /\ next < MaxProvisions /\ tracked' = tracked /\ waiter' = waiter
  <2>1. \A w \in WorkerID : Holds(s, w)' => w = next + 1
    BY <1>0, <1>6 DEF Holds, NoWorker
  <2>2. \A t \in Scaler, w \in WorkerID : Holds(t, w) => w <= next /\ w # next + 1
    BY <1>0 DEF OwnInv
  <2>3. \A t \in Scaler, w \in WorkerID : t # s => (Holds(t, w)' <=> Holds(t, w))
    BY <1>1 DEF Holds
  <2>4. \A w \in WorkerID : Owned(w)'
    BY <1>4, <1>6 DEF Owned, OwnInv
  <2>5. \A w \in WorkerID : w > next' => waiter'[w] = "none"
    <3>1. \A w \in WorkerID : w > next + 1 => w > next
      BY <1>0
    <3> QED BY <1>6, <3>1 DEF OwnInv
  <2>6. \A t \in Scaler, w \in WorkerID : Holds(t, w)' => w <= next' /\ waiter'[w] = "none"
    <3>1. \A w \in WorkerID : (w <= next => w <= next + 1) /\ (w = next + 1 => w > next /\ w <= next + 1)
      BY <1>0
    <3>2. ASSUME NEW t \in Scaler, NEW w \in WorkerID, Holds(t, w)'
          PROVE  w <= next' /\ waiter'[w] = "none"
      <4>1. CASE t = s
        BY <1>6, <2>1, <3>1, <3>2, <4>1 DEF OwnInv
      <4>2. CASE t # s
        BY <1>6, <2>2, <2>3, <3>1, <3>2, <4>2 DEF OwnInv
      <4> QED BY <4>1, <4>2
    <3> QED BY <3>2
  <2>7. \A t, u \in Scaler, w \in WorkerID : Holds(t, w)' /\ Holds(u, w)' => t = u
    BY <2>1, <2>2, <2>3 DEF OwnInv
  <2> QED BY <1>4, <2>4, <2>5, <2>6, <2>7 DEF OwnInv
<1>7. CASE /\ At(s).pc = "track" /\ At(s)'.pc \in {"idle", "done"} /\ At(s).wid \in WorkerID
           /\ tracked' = [tracked EXCEPT ![At(s).wid] = "provisioning"]
           /\ waiter' = [waiter EXCEPT ![At(s).wid] = "waiting"]
           /\ next' = next
  <2> DEFINE v == At(s).wid
  <2>1. v \in WorkerID /\ Holds(s, v) /\ v <= next /\ waiter[v] = "none"
    BY <1>7 DEF Holds, OwnInv
  <2>2. \A w \in WorkerID : /\ tracked'[w] = IF w = v THEN "provisioning" ELSE tracked[w]
                            /\ waiter'[w] = IF w = v THEN "waiting" ELSE waiter[w]
    BY <1>0, <1>7
  <2> HIDE DEF v
  <2>3. \A t \in Scaler, w \in WorkerID : Holds(t, w)' => Holds(t, w) /\ w # v
    <3>1. \A w \in WorkerID : ~Holds(s, w)'
      BY <1>7 DEF Holds
    <3>2. \A t \in Scaler, w \in WorkerID : t # s /\ Holds(t, w)' => Holds(t, w)
      BY <1>1 DEF Holds
    <3> QED BY <2>1, <3>1, <3>2 DEF OwnInv
  <2>4. \A w \in WorkerID : Owned(w)'
    BY <1>4, <2>1, <2>2 DEF Owned, OwnInv
  <2>5. \A w \in WorkerID : w > next' => waiter'[w] = "none"
    <3>1. \A w \in WorkerID : w > next => w # v
      BY <1>0, <2>1
    <3> QED BY <1>7, <2>2, <3>1 DEF OwnInv
  <2> QED BY <1>4, <1>7, <2>2, <2>3, <2>4, <2>5 DEF OwnInv
<1>8. \/ tracked' = tracked /\ waiter' = waiter /\ next' = next /\ \A w \in WorkerID : ~Holds(s, w)'
      \/ /\ At(s)'.pc = "track" /\ At(s)'.wid \in {next + 1, NoWorker} /\ next' = next + 1
         /\ next < MaxProvisions /\ tracked' = tracked /\ waiter' = waiter
      \/ /\ At(s).pc = "track" /\ At(s)'.pc \in {"idle", "done"} /\ At(s).wid \in WorkerID
         /\ tracked' = [tracked EXCEPT ![At(s).wid] = "provisioning"]
         /\ waiter' = [waiter EXCEPT ![At(s).wid] = "waiting"]
         /\ next' = next
  <2>1. NoWorker \notin WorkerID
    BY DEF WorkerID, NoWorker
  <2> QED BY <2>1, ScaleUpMoves DEF Holds
<1> QED BY <1>5, <1>6, <1>7, <1>8

(* What each step of a readiness wait does to its worker.                   *)
LEMMA WaitMoves ==
  ASSUME TypeOK, NEW v \in WorkerID, Wait(v)
  PROVE  /\ UNCHANGED <<rc, act, next, kind>>
         /\ \/ /\ waiter[v] = "waiting" /\ waiter' = [waiter EXCEPT ![v] = "called"]
               /\ tracked' = [tracked EXCEPT ![v] = "ready"] /\ alive' = alive
            \/ /\ waiter[v] = "called" /\ waiter' = [waiter EXCEPT ![v] = "done"]
               /\ tracked' = [tracked EXCEPT ![v] = "ready"] /\ alive' = alive
            \/ /\ waiter[v] = "waiting" /\ waiter' = [waiter EXCEPT ![v] = "failed"]
               /\ tracked' = tracked /\ alive' = alive
            \/ /\ waiter[v] = "failed" /\ waiter' = [waiter EXCEPT ![v] = "retired"]
               /\ tracked' = tracked
               /\ alive' \subseteq alive /\ (kind = "local" => alive' = alive \ {v})
            \/ /\ waiter[v] = "retired" /\ waiter' = [waiter EXCEPT ![v] = "dropped"]
               /\ tracked' = [tracked EXCEPT ![v] = "retired"] /\ alive' = alive
<1> USE DEF env
<1>1. CASE Ready(v) BY <1>1 DEF Ready
<1>2. CASE ReadyAgain(v) BY <1>2 DEF ReadyAgain
<1>3. CASE GiveUp(v) BY <1>3 DEF GiveUp
<1>4. CASE RetireFailed(v)
  BY <1>4 DEF RetireFailed, Retire, RetireLocal, RetirePod, DeletePodFails
<1>5. CASE MarkFailed(v) BY <1>5 DEF MarkFailed
<1> QED BY <1>1, <1>2, <1>3, <1>4, <1>5 DEF Wait

LEMMA WaitOwns ==
  ASSUME TypeOK, OwnInv, NEW v \in WorkerID, Wait(v)
  PROVE  OwnInv'
<1>0. tracked \in [WorkerID -> TrackedStates] /\ waiter \in [WorkerID -> WaiterStates]
  BY DEF TypeOK
<1>1. UNCHANGED <<rc, act, next>> /\ waiter[v] # "none"
  BY WaitMoves
<1>2. \A s \in Scaler, w \in WorkerID : (Holds(s, w)' <=> Holds(s, w)) /\ ~Holds(s, v)
  BY <1>1 DEF Holds, At, OwnInv
<1>3. \A w \in WorkerID : w # v => waiter'[w] = waiter[w] /\ tracked'[w] = tracked[w]
  BY <1>0, WaitMoves
<1>4. \/ waiter[v] \in {"waiting", "called"} /\ waiter'[v] \in {"called", "done"} /\ tracked'[v] = "ready"
      \/ /\ waiter[v] \in {"waiting", "failed"} /\ waiter'[v] \in {"failed", "retired"}
         /\ tracked'[v] = tracked[v]
      \/ waiter[v] = "retired" /\ waiter'[v] = "dropped" /\ tracked'[v] = "retired"
  BY <1>0, WaitMoves
<1>5. \A w \in WorkerID : Owned(w)'
  <2>1. Owned(v)'
    BY <1>1, <1>4 DEF Owned, OwnInv
  <2>2. \A w \in WorkerID : w # v => Owned(w)'
    BY <1>1, <1>3 DEF Owned, OwnInv
  <2> QED BY <2>1, <2>2
<1>6. \A w \in WorkerID : w > next' => waiter'[w] = "none"
  BY <1>1, <1>3 DEF OwnInv
<1> QED BY <1>1, <1>2, <1>3, <1>5, <1>6 DEF OwnInv
(* The steps of a handler before scaleUp and those of the environment leave *)
(* the table and every hand as they are.                                    *)
Aside ==
  \/ \E a \in Activators : NeedsActivation(a) \/ Activate(a)
  \/ \E w \in WorkerID : Die(w) \/ Appear(w) \/ Disappear(w)
  \/ UpsertPolicy
  \/ UNCHANGED vars

LEMMA AsideMoves ==
  ASSUME TypeOK, Aside
  PROVE  /\ UNCHANGED <<tracked, waiter, rc, next, kind, desired, policy>>
         /\ alive' \subseteq alive
         /\ \A s \in Scaler, w \in WorkerID : Holds(s, w)' <=> Holds(s, w)
<1> USE DEF env
<1>1. ASSUME NEW a \in Activators, NeedsActivation(a) \/ Activate(a)
      PROVE  /\ UNCHANGED <<tracked, waiter, rc, next, kind, desired, policy>>
             /\ alive' \subseteq alive
             /\ \A s \in Scaler, w \in WorkerID : Holds(s, w)' <=> Holds(s, w)
  <2>1. /\ UNCHANGED <<tracked, waiter, rc, next, kind, desired, policy, alive>>
        /\ act[a].pc # "track"
    BY <1>1 DEF NeedsActivation, Activate
  <2>2. act \in [Activators -> Goroutine]
    BY DEF TypeOK
  <2>3. PICK p \in Places \ {"track"} : act' = [act EXCEPT ![a].pc = p]
    BY <1>1 DEF NeedsActivation, Activate, Places
  <2>4. act'[a].pc # "track" /\ \A b \in Activators : b # a => act'[b] = act[b]
    BY <2>2, <2>3 DEF Goroutine
  <2> QED BY <2>1, <2>4 DEF Holds, At, Scaler
<1>2. ASSUME UNCHANGED <<rc, act>>
      PROVE  \A s \in Scaler, w \in WorkerID : Holds(s, w)' <=> Holds(s, w)
  BY <1>2 DEF Holds, At
<1>3. CASE \E w \in WorkerID : Die(w) \/ Appear(w) \/ Disappear(w)
  <2>1. /\ UNCHANGED <<tracked, waiter, rc, act, next, kind, desired, policy>>
        /\ alive' \subseteq alive
    BY <1>3 DEF Die, Appear, Disappear
  <2> QED BY <1>2, <2>1
<1>4. CASE UpsertPolicy \/ UNCHANGED vars
  <2>1. UNCHANGED <<tracked, waiter, rc, act, next, kind, desired, policy, alive>>
    BY <1>4 DEF UpsertPolicy, vars
  <2> QED BY <1>2, <2>1
<1> QED BY <1>1, <1>3, <1>4 DEF Aside

LEMMA AsideOwns ==
  ASSUME TypeOK, OwnInv, Aside
  PROVE  OwnInv'
BY AsideMoves DEF OwnInv, Owned

(* Every step is one of these.                                              *)
LEMMA StepKinds ==
  [Next]_vars => \/ Loop \/ Aside
                 \/ \E s \in Scaler : ScaleUp(s)
                 \/ \E w \in WorkerID : Wait(w)
BY DEF Next, Aside

LEMMA OwnNext == TypeOK /\ OwnInv /\ [Next]_vars => OwnInv'
BY StepKinds, LoopOwns, ScaleUpOwns, WaitOwns, AsideOwns

(* A retired worker whose readiness callback is not running stays retired.  *)
LEMMA RetiredNext ==
  ASSUME TypeOK, OwnInv, [Next]_vars, NEW w \in WorkerID,
         tracked[w] = "retired", waiter[w] # "called"
  PROVE  tracked'[w] = "retired"
<1>0. tracked \in [WorkerID -> TrackedStates] /\ waiter \in [WorkerID -> WaiterStates]
  BY DEF TypeOK
<1>1. CASE Loop
  <2>1. \/ tracked' = tracked
        \/ \E v \in WorkerID : tracked[v] = "ready" /\ tracked' = [tracked EXCEPT ![v] = "draining"]
        \/ tracked' = [tracked EXCEPT ![rc.wid] = "retired"]
    BY <1>1, LoopMoves, Zenon
  <2> QED BY <1>0, <2>1
<1>2. ASSUME NEW s \in Scaler, ScaleUp(s) PROVE tracked'[w] = "retired"
  <2>1. \/ tracked' = tracked
        \/ /\ At(s).pc = "track" /\ At(s).wid \in WorkerID
           /\ tracked' = [tracked EXCEPT ![At(s).wid] = "provisioning"]
    BY <1>2, ScaleUpMoves, Zenon
  <2>2. waiter[w] # "none"
    BY DEF OwnInv, Owned
  <2>3. ~Holds(s, w)
    BY <2>2 DEF OwnInv
  <2> QED BY <1>0, <2>1, <2>3 DEF Holds
<1>3. ASSUME NEW v \in WorkerID, Wait(v) PROVE tracked'[w] = "retired"
  <2>1. waiter[w] # "waiting"
    BY DEF OwnInv, Owned
  <2> QED BY <1>0, <1>3, <2>1, WaitMoves
<1>4. CASE Aside
  BY <1>4, AsideMoves
<1> QED BY <1>1, <1>2, <1>3, <1>4, StepKinds

-----------------------------------------------------------------------------
(* Local processes.                                                         *)

(* NoLostProcess strengthened: the goroutine about to mark a worker retired *)
(* has killed its process, and identifiers are not used again.              *)
LossInv ==
  kind = "local" =>
    /\ \A w \in alive : tracked[w] \in {"provisioning", "ready", "draining"}
                        \/ \E s \in Scaler : Holds(s, w)
    /\ rc.pc = "retired" => rc.wid \notin alive
    /\ \A w \in WorkerID : waiter[w] = "retired" => w \notin alive

LEMMA LossNext ==
  ASSUME TypeOK, OwnInv, LossInv, [Next]_vars
  PROVE  LossInv'
<1>0. /\ tracked \in [WorkerID -> TrackedStates] /\ waiter \in [WorkerID -> WaiterStates]
      /\ alive \subseteq WorkerID /\ next \in Nat /\ alive \subseteq 1..next
  BY FleetAssumption DEF TypeOK, WorkerID
<1>k. kind' = kind
  BY StepKinds, LoopMoves, ScaleUpMoves, WaitMoves, AsideMoves
<1> SUFFICES ASSUME kind = "local"
             PROVE  /\ \A w \in alive' : \/ tracked'[w] \in {"provisioning", "ready", "draining"}
                                         \/ \E s \in Scaler : Holds(s, w)'
                    /\ rc'.pc = "retired" => rc'.wid \notin alive'
                    /\ \A w \in WorkerID : waiter'[w] = "retired" => w \notin alive'
  BY <1>k DEF LossInv
<1>i. /\ \A w \in alive : tracked[w] \in {"provisioning", "ready", "draining"}
                          \/ \E s \in Scaler : Holds(s, w)
      /\ rc.pc = "retired" => rc.wid \notin alive
      /\ \A w \in WorkerID : waiter[w] = "retired" => w \notin alive
  BY DEF LossInv
<1>1. CASE Loop
  <2>1. UNCHANGED <<act, waiter>> /\ rc.pc # "track" /\ rc'.pc # "track" /\ alive' \subseteq alive
    BY <1>1, LoopMoves DEF Unowning
  <2>2. \A s \in Scaler, w \in WorkerID : Holds(s, w)' <=> Holds(s, w)
    BY <2>1 DEF Holds, At
  <2>3. rc'.pc = "retired" => rc'.wid \notin alive'
    BY <1>1, LoopMoves DEF Unowning
  <2>4. \A w \in alive' : tracked[w] \in {"provisioning", "ready", "draining"}
                            => tracked'[w] \in {"provisioning", "ready", "draining"}
    <3>1. \/ tracked' = tracked
          \/ \E v \in WorkerID : tracked' = [tracked EXCEPT ![v] = "draining"]
          \/ rc.pc = "retired" /\ alive' = alive /\ tracked' = [tracked EXCEPT ![rc.wid] = "retired"]
      BY <1>1, LoopMoves, Zenon
    <3> QED BY <1>0, <1>i, <2>1, <3>1
  <2> QED BY <1>0, <1>i, <2>1, <2>2, <2>3, <2>4
<1>2. ASSUME NEW s \in Scaler, ScaleUp(s)
      PROVE  /\ \A w \in alive' : \/ tracked'[w] \in {"provisioning", "ready", "draining"}
                                  \/ \E t \in Scaler : Holds(t, w)'
             /\ rc'.pc = "retired" => rc'.wid \notin alive'
             /\ \A w \in WorkerID : waiter'[w] = "retired" => w \notin alive'
  <2>1. /\ \A t \in Scaler : t # s => At(t)' = At(t)
        /\ s # "rc" => rc' = rc
        /\ At(s).pc \in {"scaleUp", "provision", "track"}
        /\ At(s)'.pc \in {"provision", "track", "idle", "done"}
    BY <1>2, ScaleUpMoves
  <2>2. At("rc") = rc /\ At("rc")' = rc'
    BY DEF At
  <2>3. rc'.pc = "retired" => rc' = rc
    BY <2>1, <2>2
  <2>4. \A t \in Scaler, w \in WorkerID : t # s /\ Holds(t, w) => Holds(t, w)'
    BY <2>1 DEF Holds
  <2>5. CASE UNCHANGED <<tracked, waiter, alive>> /\ \A w \in WorkerID : ~Holds(s, w)
    BY <1>0, <1>i, <2>3, <2>4, <2>5
  <2>6. CASE /\ At(s).pc = "provision" /\ At(s)'.pc = "track" /\ At(s)'.wid = next + 1
             /\ alive' = alive \cup {next + 1} /\ UNCHANGED <<tracked, waiter>>
             /\ next + 1 \in WorkerID
    <3>0. PICK n \in WorkerID : n = next + 1
      BY <2>6
    <3>1. Holds(s, n)' /\ \A w \in WorkerID : ~Holds(s, w)
      BY <2>6, <3>0 DEF Holds
    <3>2. waiter[n] = "none"
      <4>1. n > next
        BY <1>0, <3>0
      <4> QED BY <4>1 DEF OwnInv
    <3>3. rc'.pc = "retired" => rc'.wid # n
      <4>1. rc.pc = "retired" => waiter[rc.wid] \in {"called", "done"}
        BY DEF OwnInv, Owned
      <4> QED BY <2>3, <3>2, <4>1
    <3>4. alive' = alive \cup {n} /\ UNCHANGED <<tracked, waiter>>
      BY <2>6, <3>0
    <3> QED BY <1>0, <1>i, <2>3, <2>4, <3>1, <3>2, <3>3, <3>4
  <2>7. CASE /\ At(s).pc = "track" /\ At(s).wid \in WorkerID
             /\ tracked' = [tracked EXCEPT ![At(s).wid] = "provisioning"]
             /\ waiter' = [waiter EXCEPT ![At(s).wid] = "waiting"] /\ alive' = alive
    <3>1. \A w \in WorkerID : Holds(s, w) => w = At(s).wid
      BY DEF Holds
    <3>2. \A w \in WorkerID :
            /\ tracked'[w] = IF w = At(s).wid THEN "provisioning" ELSE tracked[w]
            /\ waiter'[w] = IF w = At(s).wid THEN "waiting" ELSE waiter[w]
      BY <1>0, <2>7
    <3> QED BY <1>0, <1>i, <2>3, <2>4, <2>7, <3>1, <3>2
  <2>8. \/ UNCHANGED <<tracked, waiter, alive>> /\ \A w \in WorkerID : ~Holds(s, w)
        \/ /\ At(s).pc = "provision" /\ At(s)'.pc = "track" /\ At(s)'.wid = next + 1
           /\ alive' = alive \cup {next + 1} /\ UNCHANGED <<tracked, waiter>>
           /\ next + 1 \in WorkerID
        \/ /\ At(s).pc = "track" /\ At(s).wid \in WorkerID
           /\ tracked' = [tracked EXCEPT ![At(s).wid] = "provisioning"]
           /\ waiter' = [waiter EXCEPT ![At(s).wid] = "waiting"] /\ alive' = alive
    <3>1. next < MaxProvisions => next + 1 \in WorkerID
      BY <1>0, FleetAssumption DEF WorkerID
    <3>2. NoWorker \notin WorkerID
      BY DEF WorkerID, NoWorker
    <3> QED BY <1>2, <3>1, <3>2, ScaleUpMoves DEF Holds
  <2> QED BY <2>5, <2>6, <2>7, <2>8
<1>3. ASSUME NEW v \in WorkerID, Wait(v)
      PROVE  /\ \A w \in alive' : \/ tracked'[w] \in {"provisioning", "ready", "draining"}
                                  \/ \E t \in Scaler : Holds(t, w)'
             /\ rc'.pc = "retired" => rc'.wid \notin alive'
             /\ \A w \in WorkerID : waiter'[w] = "retired" => w \notin alive'
  <2>1. UNCHANGED <<rc, act>> /\ alive' \subseteq alive
    BY <1>3, WaitMoves
  <2>2. \A s \in Scaler, w \in WorkerID : Holds(s, w)' <=> Holds(s, w)
    BY <2>1 DEF Holds, At
  <2>3. \A w \in WorkerID : w # v => waiter'[w] = waiter[w] /\ tracked'[w] = tracked[w]
    BY <1>0, <1>3, WaitMoves
  <2>4. /\ waiter'[v] = "retired" => v \notin alive'
        /\ v \in alive' /\ tracked[v] \in {"provisioning", "ready", "draining"}
             => tracked'[v] \in {"provisioning", "ready", "draining"}
        /\ waiter[v] # "none"
    BY <1>0, <1>3, <1>i, WaitMoves
  <2>5. ASSUME NEW w \in alive'
        PROVE  \/ tracked'[w] \in {"provisioning", "ready", "draining"}
               \/ \E t \in Scaler : Holds(t, w)'
    <3>1. w \in alive /\ w \in WorkerID
      BY <1>0, <2>1
    <3>2. CASE \E t \in Scaler : Holds(t, w)
      BY <2>2, <3>1, <3>2
    <3>3. CASE tracked[w] \in {"provisioning", "ready", "draining"}
      BY <2>3, <2>4, <3>1, <3>3
    <3> QED BY <1>i, <3>1, <3>2, <3>3
  <2>6. rc'.pc = "retired" => rc'.wid \notin alive'
    BY <1>i, <2>1
  <2>7. \A w \in WorkerID : waiter'[w] = "retired" => w \notin alive'
    BY <1>i, <2>1, <2>3, <2>4
  <2> QED BY <2>5, <2>6, <2>7
<1>4. CASE Aside
  <2>0. UNCHANGED <<tracked, waiter, rc>> /\ alive' \subseteq alive
    BY <1>4, AsideMoves
  <2>1. UNCHANGED <<tracked, waiter, rc>> /\ alive' \subseteq alive /\ alive' \subseteq WorkerID
    BY <1>0, <2>0
  <2>2. \A s \in Scaler, w \in alive' : Holds(s, w)' <=> Holds(s, w)
    BY <1>4, <2>1, AsideMoves
  <2> QED BY <1>i, <2>1, <2>2
<1> QED BY <1>1, <1>2, <1>3, <1>4, StepKinds

-----------------------------------------------------------------------------
(* Decisions.                                                               *)

(* StepsWithinPolicy strengthened: the bound holds from the decision on,    *)
(* not only once the loop acts on it.                                       *)
StepInv ==
  /\ rc.pc = "compare" => \/ desired = rc.ready
                          \/ desired = rc.ready + 1 /\ Within(desired)
                          \/ desired = rc.ready - 1 /\ Enough(desired)
  /\ rc.pc \in {"scaleUp", "provision"} => desired = rc.ready + 1 /\ Within(desired)
  /\ rc.pc = "drain" => desired = rc.ready - 1 /\ Enough(desired)

LEMMA StepNext ==
  ASSUME TypeOK, Counted, StepInv, [Next]_vars
  PROVE  StepInv'
<1> USE DEF env
<1>0. rc \in Goroutine /\ rc.ready \in Nat /\ desired \in Int
  BY Fields DEF TypeOK
<1>p. "compare" \in Places /\ "scaleUp" \in Places /\ "drain" \in Places /\ "provision" \in Places
  BY DEF Places
<1>1. CASE Apply
  <2>1. rc'.pc = "compare" /\ rc'.ready = rc.ready /\ policy' = policy
    <3>1. rc' = [rc EXCEPT !.pc = "compare"] /\ policy' = policy
      BY <1>1 DEF Apply
    <3> QED BY <1>0, <1>p, <3>1, MovePc
  <2>2. Get' = Get
    BY <2>1 DEF Get
  <2> QED BY <1>1, <2>1, <2>2, ApplyDecides DEF StepInv, Within, Enough
<1>2. CASE Compare
  <2>1. UNCHANGED <<desired, policy>> /\ rc.pc = "compare"
    BY <1>2 DEF Compare
  <2>2. Get' = Get
    BY <2>1 DEF Get
  <2>3. /\ provisioningCount \in Nat
        /\ \/ desired > rc.ready + provisioningCount /\ rc' = [rc EXCEPT !.pc = "scaleUp"]
           \/ desired < rc.ready /\ rc' = [rc EXCEPT !.pc = "drain"]
           \/ rc' = Idle("rc")
    BY <1>2, Zenon DEF Compare, Counted
  <2>4. CASE desired > rc.ready + provisioningCount /\ rc' = [rc EXCEPT !.pc = "scaleUp"]
    <3>1. rc'.pc = "scaleUp" /\ rc'.ready = rc.ready
      BY <1>0, <1>p, <2>4, MovePc
    <3>2. desired = rc.ready + 1 /\ Within(desired)
      BY <1>0, <2>1, <2>3, <2>4 DEF StepInv
    <3> QED BY <2>1, <2>2, <3>1, <3>2 DEF StepInv, Within, Enough
  <2>5. CASE desired < rc.ready /\ rc' = [rc EXCEPT !.pc = "drain"]
    <3>1. rc'.pc = "drain" /\ rc'.ready = rc.ready
      BY <1>0, <1>p, <2>5, MovePc
    <3>2. desired = rc.ready - 1 /\ Enough(desired)
      BY <1>0, <2>1, <2>5 DEF StepInv
    <3> QED BY <2>1, <2>2, <3>1, <3>2 DEF StepInv, Enough
  <2>6. CASE rc' = Idle("rc")
    BY <2>6 DEF StepInv, Idle
  <2> QED BY <2>3, <2>4, <2>5, <2>6
<1>3. CASE ReconcileAll \/ Pick \/ RetireDrained \/ MarkDrained
  <2>1. rc'.pc \in {"idle", "apply", "retire", "retired"}
    <3>1. CASE ReconcileAll
      <4>1. rc.pc = "idle" /\ (rc' = rc \/ rc' = [rc EXCEPT !.pc = "apply", !.ready = readyCount])
        BY <3>1, Zenon DEF ReconcileAll
      <4>2. rc' = [rc EXCEPT !.pc = "apply", !.ready = readyCount] => rc'.pc = "apply"
        BY <1>0, Zenon DEF Goroutine
      <4> QED BY <4>1, <4>2
    <3>2. CASE Pick \/ RetireDrained \/ MarkDrained
      <4>1. rc.pc \in {"drain", "retire", "retired"}
        BY <3>2, Zenon DEF Pick, RetireDrained, MarkDrained
      <4>2. ~(ReconcileAll \/ Apply \/ Compare)
        BY <4>1 DEF ReconcileAll, Apply, Compare
      <4> QED BY <3>2, <4>2, LoopMoves DEF Loop
    <3> QED BY <1>3, <3>1, <3>2
  <2> QED BY <2>1 DEF StepInv
<1>4. ASSUME NEW s \in Scaler, ScaleUp(s) PROVE StepInv'
  <2>1. UNCHANGED <<desired, policy>>
    BY <1>4 DEF ScaleUp, PutPlaceholder, Provision, Track
  <2>2. Get' = Get
    BY <2>1 DEF Get
  <2>3. CASE s # "rc"
    <3>1. rc' = rc
      BY <1>4, <2>3, ScaleUpMoves
    <3> QED BY <2>1, <2>2, <3>1 DEF StepInv, Within, Enough
  <2>4. CASE s = "rc"
    <3>1. At(s) = rc /\ At(s)' = rc'
      BY <2>4 DEF At
    <3>2. CASE PutPlaceholder(s)
      <4>1. rc.pc = "scaleUp" /\ rc' = [rc EXCEPT !.pc = "provision"]
        BY <2>4, <3>1, <3>2 DEF PutPlaceholder, Move
      <4>2. rc'.pc = "provision" /\ rc'.ready = rc.ready
        BY <1>0, <1>p, <4>1, MovePc
      <4> QED BY <2>1, <2>2, <4>1, <4>2 DEF StepInv, Within, Enough
    <3>3. CASE Provision(s) \/ Track(s)
      <4>1. At(s).pc \in {"provision", "track"}
        BY <3>3 DEF Provision, Track
      <4>2. At(s)'.pc \in {"track", "idle", "done"}
        <5>1. CASE Provision(s)
          <6>1. \/ rc' = [rc EXCEPT !.pc = "track", !.wid = next + 1]
                \/ rc' = [rc EXCEPT !.pc = "track", !.wid = NoWorker]
            BY <2>4, <3>1, <5>1, Zenon
            DEF Provision, ProvisionLocal, ProvisionPod, Starts, Fails, CreatePodFails, Move
          <6>2. /\ rc' = [rc EXCEPT !.pc = "track", !.wid = next + 1] => rc'.pc = "track"
                /\ rc' = [rc EXCEPT !.pc = "track", !.wid = NoWorker] => rc'.pc = "track"
            BY <1>0, Zenon DEF Goroutine
          <6> QED BY <3>1, <6>1, <6>2
        <5>2. CASE Track(s)
          BY <2>4, <3>1, <5>2 DEF Track, Move, Idle
        <5> QED BY <3>3, <5>1, <5>2
      <4> QED BY <3>1, <4>2 DEF StepInv
    <3> QED BY <1>4, <3>2, <3>3 DEF ScaleUp
  <2> QED BY <2>3, <2>4
<1>5. CASE Aside \/ \E w \in WorkerID : Wait(w)
  <2>1. UNCHANGED <<rc, desired, policy>>
    <3>1. CASE Aside
      BY <3>1, AsideMoves
    <3>2. CASE \E w \in WorkerID : Wait(w)
      BY <3>2 DEF Wait, Ready, ReadyAgain, GiveUp, RetireFailed, MarkFailed
    <3> QED BY <1>5, <3>1, <3>2
  <2>2. Get' = Get
    BY <2>1 DEF Get
  <2> QED BY <2>1, <2>2 DEF StepInv, Within, Enough
<1> QED BY <1>1, <1>2, <1>3, <1>4, <1>5, StepKinds DEF Loop

-----------------------------------------------------------------------------
(* Counting.  The snapshot shows finitely many workers, so what the loop    *)
(* counts in it and in the table is a number.                               *)
INSTANCE FiniteSetTheorems

LEMMA WorkersFinite ==
  IsFiniteSet(WorkerID) /\ \A S \in SUBSET WorkerID : Cardinality(S) \in Nat
<1>1. IsFiniteSet(WorkerID)
  BY FleetAssumption, FS_Interval DEF WorkerID
<1> QED BY <1>1, FS_Subset, FS_CardinalityType

LEMMA FiniteCounts ==
  ASSUME IsFiniteSet(snap)
  PROVE  Counted
<1> DEFINE R == {v \in WorkerID : tracked[v] = "ready"}
           I == {<<"worker", w>> : w \in R}
           P == {w \in WorkerID : tracked[w] = "provisioning"}
<1>1. IsFiniteSet(R) /\ Cardinality(P) \in Nat
  BY WorkersFinite, FS_Subset
<1>2. IsFiniteSet(I)
  <2> DEFINE f == [w \in R |-> <<"worker", w>>]
  <2> HIDE DEF R
  <2>1. f \in Surjection(R, I)
    BY DEF Surjection
  <2> HIDE DEF f, I
  <2> QED BY <1>1, <2>1, FS_Surjection
<1>3. IsFiniteSet(snap \cup I)
  <2> HIDE DEF I
  <2>1. \A S, T : IsFiniteSet(S) /\ IsFiniteSet(T) => IsFiniteSet(S \cup T)
    BY FS_Union, Zenon
  <2> QED BY <1>2, <2>1
<1>4. readyCount \in Nat
  BY <1>3, FS_CardinalityType DEF readyCount
<1>5. provisioningCount \in Nat
  BY <1>1 DEF provisioningCount
<1> QED BY <1>4, <1>5 DEF Counted

LEMMA FiniteInit == Init => IsFiniteSet(snap)
<1>1. IsFiniteSet(ExternalIDs)
  <2> DEFINE f == [e \in External |-> <<"worker", e>>]
  <2>1. f \in Surjection(External, ExternalIDs)
    BY DEF Surjection, ExternalIDs
  <2> HIDE DEF f
  <2> QED BY <2>1, FleetAssumption, FS_Surjection
<1> QED BY <1>1, FS_Subset DEF Init

LEMMA FiniteNext == IsFiniteSet(snap) /\ [Next]_vars => IsFiniteSet(snap)'
<1> SUFFICES ASSUME IsFiniteSet(snap), [Next]_vars PROVE IsFiniteSet(snap')
  OBVIOUS
<1>1. snap' = snap \/ \E x : snap' = snap \cup {x} \/ snap' = snap \ {x}
  <2>1. CASE Loop
    BY <2>1, Zenon DEF Loop, ReconcileAll, Apply, Compare, Pick, RetireDrained, MarkDrained, env
  <2>2. ASSUME NEW s \in Scaler, ScaleUp(s) PROVE snap' = snap
    BY <2>2 DEF ScaleUp, PutPlaceholder, Provision, ProvisionLocal, ProvisionPod, Track, env
  <2>3. ASSUME NEW w \in WorkerID, Wait(w) PROVE snap' = snap
    BY <2>3 DEF Wait, Ready, ReadyAgain, GiveUp, RetireFailed, MarkFailed, env
  <2>4. ASSUME NEW w \in WorkerID, Die(w) \/ Appear(w) \/ Disappear(w)
        PROVE  snap' = snap \/ snap' = snap \cup {ViewID(w)} \/ snap' = snap \ {ViewID(w)}
    BY <2>4 DEF Die, Appear, Disappear
  <2>5. CASE \E a \in Activators : NeedsActivation(a) \/ Activate(a)
    BY <2>5 DEF NeedsActivation, Activate, env
  <2>6. CASE UpsertPolicy \/ UNCHANGED vars
    BY <2>6 DEF UpsertPolicy, vars, env
  <2> QED BY <2>1, <2>2, <2>3, <2>4, <2>5, <2>6 DEF Next
<1>2. \A S, x : IsFiniteSet(S) => IsFiniteSet(S \cup {x}) /\ IsFiniteSet(S \ {x})
  BY FS_AddElement, FS_RemoveElement, Zenon
<1> QED BY <1>1, <1>2, Zenon

(* Type correctness of the manager's state, for any constants.              *)
THEOREM FleetTyped == Spec => [](TypeOK /\ Counted)
<1>1. IsFiniteSet(snap) => Counted
  BY FiniteCounts
<1> QED BY <1>1, FiniteInit, FiniteNext, TypeInit, TypeNext, PTL DEF Spec

-----------------------------------------------------------------------------
(* The theorems.                                                            *)

(* For any number of handlers, workers and faults: a tracked worker has one *)
(* owner at a time, its readiness wait or the loop's drain (WorkerOwned).   *)
THEOREM OwnersCorrect == Spec => []WorkerOwned
<1>1. OwnInv => WorkerOwned
  BY DEF OwnInv, Owned, WorkerOwned
<1> QED BY <1>1, FleetTyped, OwnInit, OwnNext, PTL DEF Spec

(* A retired worker stays retired but for the callback that a drain         *)
(* overtakes (RetiredStays): OwnInv rules out every other writer.           *)
THEOREM RetirementHolds == Spec => RetiredStays
<1> DEFINE Stays == \A w \in WorkerID :
             tracked[w] = "retired" /\ waiter[w] # "called" => tracked'[w] = "retired"
<1>1. TypeOK /\ OwnInv /\ [Next]_vars => [Stays]_vars
  BY RetiredNext
<1> QED BY <1>1, FleetTyped, OwnInit, OwnNext, PTL DEF Spec, RetiredStays

(* For any number of handlers, workers and faults, no local process that    *)
(* runs is missing from the table or retired there (NoLostProcess).         *)
THEOREM ProcessesKept == Spec => []NoLostProcess
<1>1. Init => LossInv
  BY DEF Init, LossInv, Idle
<1>2. LossInv => NoLostProcess
  BY DEF LossInv, NoLostProcess, Holds
<1> QED BY <1>1, <1>2, FleetTyped, OwnInit, OwnNext, LossNext, PTL DEF Spec

(* For any policies, loads and windows, the loop moves by one worker from   *)
(* the count it decided on and never past the policy's bounds               *)
(* (StepsWithinPolicy).                                                     *)
THEOREM DecisionsCorrect == Spec => []StepsWithinPolicy
<1>1. Init => StepInv
  BY DEF Init, StepInv, Idle
<1>2. TypeOK /\ StepInv => StepsWithinPolicy
  <2> SUFFICES ASSUME TypeOK, StepInv PROVE StepsWithinPolicy
    OBVIOUS
  <2>1. rc.ready \in Nat
    BY Fields DEF TypeOK
  <2> QED BY <2>1 DEF StepInv, StepsWithinPolicy, Within, Enough, NotAbove, NotBelow
<1> QED BY <1>1, <1>2, FleetTyped, StepNext, PTL DEF Spec
=============================================================================
