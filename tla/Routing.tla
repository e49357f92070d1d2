------------------------------- MODULE Routing -------------------------------
(***************************************************************************)
(* How the control state reaches the gateways: every control plane builds  *)
(* a routing snapshot on a timer, publishes it on one Redis channel and    *)
(* stores it in its own holder; every control plane also stores what it    *)
(* receives from the channel (services/routing/publisher.go,               *)
(* subscriber.go, holder.go).  A snapshot is stored only if its epoch is   *)
(* higher than the one held, and epochs count from zero in every process.  *)
(*                                                                         *)
(* The control state is a number that grows with every change.  Storing is *)
(* one step here; RoutingProofs shows that the loop in holder.go does so.   *)
(***************************************************************************)
EXTENDS Faults, Sequences

CONSTANTS Planes,     \* control plane processes
          MaxState,   \* bound on changes of the control state
          MaxEpoch,   \* bound on the snapshots a process builds
          MaxInbox    \* bound on messages on their way to a subscriber

ASSUME RoutingAssumption ==
    /\ MaxState \in Nat /\ MaxEpoch \in Nat /\ MaxInbox \in Nat

VARIABLES state,   \* the control state in Postgres and Redis
          epoch,   \* Publisher.epoch
          tick,    \* the publisher's tick: its step and the snapshot it built
          inbox,   \* messages the subscriber has not handled
          holder   \* the snapshot the gateway reads

vars == <<state, epoch, tick, inbox, holder, faults>>

NoSnapshot == [epoch |-> 0, state |-> 0, by |-> "none"]
IdleTick == [pc |-> "idle", snap |-> NoSnapshot]

Init ==
    /\ state = 0
    /\ epoch = [p \in Planes |-> 0]
    /\ tick = [p \in Planes |-> IdleTick]
    /\ inbox = [p \in Planes |-> <<>>]
    /\ holder = [p \in Planes |-> NoSnapshot]
    /\ faults = 0

\* A worker registers, beats or dies, a provider is added.
Change ==
    /\ state < MaxState
    /\ state' = state + 1
    /\ UNCHANGED <<epoch, tick, inbox, holder, faults>>

\* buildSnapshot: the epoch is used up whether or not the snapshot gets out.
buildSnapshot(p) ==
    /\ tick[p].pc = "idle" /\ epoch[p] < MaxEpoch
    /\ epoch' = [epoch EXCEPT ![p] = @ + 1]
    /\ tick' = [tick EXCEPT ![p] =
         [pc |-> "publish", snap |-> [epoch |-> epoch[p] + 1, state |-> state, by |-> p]]]
    /\ UNCHANGED <<state, inbox, holder, faults>>

\* PUBLISH reaches every subscriber that is connected at the moment; a failed
\* one ends the tick.
Publish(p) ==
    /\ tick[p].pc = "publish"
    /\ \/ /\ \E lost \in SUBSET Planes :
               /\ IF lost = {} THEN UNCHANGED faults ELSE Fault
               /\ \A q \in Planes \ lost : Len(inbox[q]) < MaxInbox
               /\ inbox' = [q \in Planes |->
                    IF q \in lost THEN inbox[q] ELSE Append(inbox[q], tick[p].snap)]
          /\ tick' = [tick EXCEPT ![p].pc = "store"]
       \/ /\ Fault
          /\ tick' = [tick EXCEPT ![p] = IdleTick]
          /\ UNCHANGED inbox
    /\ UNCHANGED <<state, epoch, holder>>

\* Mutant: the snapshot is stored whatever its epoch.
StoreAlways(p, snap) == holder' = [holder EXCEPT ![p] = snap]

\* Mutant: an epoch that is not consecutive is refused.
StoreNext(p, snap) ==
    holder' = [holder EXCEPT ![p] = IF snap.epoch = @.epoch + 1 THEN snap ELSE @]

StoreIfNewer(p, snap) ==
    holder' = [holder EXCEPT ![p] = IF snap.epoch > @.epoch THEN snap ELSE @]

StoreOwn(p) ==
    /\ tick[p].pc = "store"
    /\ StoreIfNewer(p, tick[p].snap)
    /\ tick' = [tick EXCEPT ![p] = IdleTick]
    /\ UNCHANGED <<state, epoch, inbox, faults>>

\* RunSubscriber: a payload that cannot be decoded is skipped, like a lost one.
Receive(p) ==
    /\ inbox[p] # <<>>
    /\ StoreIfNewer(p, Head(inbox[p]))
    /\ inbox' = [inbox EXCEPT ![p] = Tail(@)]
    /\ UNCHANGED <<state, epoch, tick, faults>>

\* A control plane restarts with an empty holder and its epoch at zero.
Restart(p) ==
    /\ Fault
    /\ epoch' = [epoch EXCEPT ![p] = 0]
    /\ tick' = [tick EXCEPT ![p] = IdleTick]
    /\ inbox' = [inbox EXCEPT ![p] = <<>>]
    /\ holder' = [holder EXCEPT ![p] = NoSnapshot]
    /\ UNCHANGED state

Next ==
    \/ Change
    \/ \E p \in Planes :
         buildSnapshot(p) \/ Publish(p) \/ StoreOwn(p) \/ Receive(p) \/ Restart(p)

Spec == Init /\ [][Next]_vars

-----------------------------------------------------------------------------
\* A gateway never goes back to an older control state of the same publisher: a
\* message handled late, the echo of a snapshot it stored long ago, or one of an
\* earlier life of that publisher does not undo a newer one.
NoRollback ==
    [][\A p \in Planes :
         holder'[p] # NoSnapshot /\ holder'[p].by = holder[p].by
           => holder'[p].state >= holder[p].state]_vars

\* A tick that completes has made its own state visible in its plane, or the
\* plane holds a snapshot of another one with an epoch at least as high.  So no
\* epoch of an earlier life is in the way after a restart, and with a single
\* control plane every completed tick counts.
TickVisible ==
    [][\A p \in Planes :
         tick[p].pc = "store" /\ tick'[p].pc = "idle" /\ epoch'[p] # 0 =>
           \/ holder'[p].state >= tick[p].snap.state
           \/ holder'[p].by # p /\ holder'[p].epoch >= tick[p].snap.epoch]_vars
=============================================================================
