---------------------------- MODULE CacheRegistry ----------------------------
(***************************************************************************)
(* The cache registry (services/cacheregistry) of each control plane: an   *)
(* index of which worker holds which block, by namespace and by worker,    *)
(* changed by posted events and by the events that all planes publish to   *)
(* each other and to themselves, and copied into the snapshot that the     *)
(* scheduler's OverlapScorer reads.                                        *)
(*                                                                         *)
(* The index is changed and copied under its lock; between the copy and    *)
(* the store into the holder other goroutines may run.                     *)
(***************************************************************************)
EXTENDS Naturals, Sequences

CONSTANTS Planes, Workers, Blocks,
          Spaces,     \* base model and adapter
          Posts       \* requests to /internal/cache/events

VARIABLES byBlock,    \* per plane: namespace, block and worker
          byWorker,   \* per plane: worker and block
          chan,       \* per plane: events of EventsChannel to be received
          task,       \* per goroutine: its step, its event and its copy
          holder,     \* per plane: SnapshotHolder
          gone        \* history: blocks whose removal nothing under way undoes

vars == <<byBlock, byWorker, chan, task, holder, gone>>

\* The goroutines: one for each post, and each plane's subscriber and ticker.
Sub(p) == <<"subscribe", p>>
Ticker(p) == <<"ticker", p>>
Handlers == {"post"} \X Posts
Goroutines == Handlers \cup ({"subscribe", "ticker"} \X Planes)

\* A removal has no namespace in the code, and a clearing no blocks.
Events == [type : {"stored", "removed", "cleared"}, space : Spaces,
           worker : Workers, blocks : SUBSET Blocks]
NoEvent == [type |-> "none"]
At(pc, p, e, c) == [pc |-> pc, plane |-> p, ev |-> e, copy |-> c]
IdleTask(p) == At("idle", p, NoEvent, {})
HomeOf(g) == IF g[1] = "post" THEN CHOOSE p \in Planes : TRUE ELSE g[2]

Init ==
    /\ byBlock = [p \in Planes |-> {}]
    /\ byWorker = [p \in Planes |-> {}]
    /\ chan = [p \in Planes |-> <<>>]
    /\ task = [g \in Goroutines |-> IdleTask(HomeOf(g))]
    /\ holder = [p \in Planes |-> {}]
    /\ gone = [p \in Planes |-> {}]

-----------------------------------------------------------------------------
\* Index.Store
Store(p, e) ==
    /\ byBlock' = [byBlock EXCEPT ![p] = @ \cup {<<e.space, b, e.worker>> : b \in e.blocks}]
    /\ byWorker' = [byWorker EXCEPT ![p] = @ \cup {<<e.worker, b>> : b \in e.blocks}]

\* Index.Remove: from every namespace.
Remove(p, e) ==
    /\ byBlock' = [byBlock EXCEPT ![p] = {l \in @ : ~(l[2] \in e.blocks /\ l[3] = e.worker)}]
    /\ byWorker' = [byWorker EXCEPT ![p] = @ \ {<<e.worker, b>> : b \in e.blocks}]

\* Index.ClearWorker: what the worker holds by the one map is deleted from both.
ClearWorker(p, e) ==
    LET held == {b \in Blocks : <<e.worker, b>> \in byWorker[p]}
    IN  /\ byBlock' = [byBlock EXCEPT ![p] = {l \in @ : ~(l[2] \in held /\ l[3] = e.worker)}]
        /\ byWorker' = [byWorker EXCEPT ![p] = {h \in @ : h[1] # e.worker}]

\* Apply: an event of any other type would only publish a copy, as a tick does.
Change(p, e) ==
    \/ e.type = "stored" /\ Store(p, e)
    \/ e.type = "removed" /\ Remove(p, e)
    \/ e.type = "cleared" /\ ClearWorker(p, e)

\* Blocks a stored event on its way to a plane would bring back: it waits in the
\* channel, or is in the hands of a post, which publishes it, or of the plane.
Stores(e) == IF e.type = "stored" THEN {<<e.worker, b>> : b \in e.blocks} ELSE {}
Busy(g, p) ==
    /\ task[g].pc \in {"apply", "copy", "store", "publish"}
    /\ g[1] = "post" \/ task[g].plane = p
UnderWay(p) ==
    UNION ({Stores(chan[p][i]) : i \in DOMAIN chan[p]}
             \cup {Stores(task[g].ev) : g \in {h \in Goroutines : Busy(h, p)}})
Drops(e) ==
    CASE e.type = "removed" -> {<<e.worker, b>> : b \in e.blocks}
      [] e.type = "cleared" -> {<<e.worker, b>> : b \in Blocks}
      [] OTHER -> {}

-----------------------------------------------------------------------------
\* A post arrives at a plane.
Post(g) ==
    /\ task[g].pc = "idle"
    /\ \E p \in Planes : \E e \in Events :
         /\ task' = [task EXCEPT ![g] = At("apply", p, e, {})]
         /\ gone' = [q \in Planes |-> gone[q] \ Stores(e)]
    /\ UNCHANGED <<byBlock, byWorker, chan, holder>>

\* Apply: the index is changed,
Apply(g) ==
    /\ task[g].pc = "apply"
    /\ Change(task[g].plane, task[g].ev)
    /\ task' = [task EXCEPT ![g] = At("copy", task[g].plane, task[g].ev, {})]
    /\ gone' = [gone EXCEPT ![task[g].plane] =
                  @ \cup (Drops(task[g].ev) \ UnderWay(task[g].plane))]
    /\ UNCHANGED <<chan, holder>>

\* publishSnapshot: the index is copied,
Copy(g) ==
    /\ task[g].pc = "copy"
    /\ task' = [task EXCEPT ![g] =
         At("store", task[g].plane, task[g].ev, byWorker[task[g].plane])]
    /\ UNCHANGED <<byBlock, byWorker, chan, holder, gone>>

\* and the copy is stored, over a newer one if need be.  Report of a stored
\* event goes on to publish it; any other event ends here.
StoreCopy(g) ==
    /\ task[g].pc = "store"
    /\ holder' = [holder EXCEPT ![task[g].plane] = task[g].copy]
    /\ task' = [task EXCEPT ![g] =
         IF g[1] # "post" THEN IdleTask(task[g].plane)
         ELSE At(IF task[g].ev.type = "stored" THEN "publish" ELSE "done",
                 task[g].plane, task[g].ev, {})]
    /\ UNCHANGED <<byBlock, byWorker, chan, gone>>

\* Report: every plane is sent the event, the own one too; it may be lost.
Publish(g) ==
    /\ task[g].pc = "publish"
    /\ \E lost \in SUBSET Planes :
         chan' = [p \in Planes |-> IF p \in lost THEN chan[p] ELSE Append(chan[p], task[g].ev)]
    /\ task' = [task EXCEPT ![g] = At("done", task[g].plane, task[g].ev, {})]
    /\ UNCHANGED <<byBlock, byWorker, holder, gone>>

\* subscribe: the next event is applied.
Receive(p) ==
    /\ task[Sub(p)].pc = "idle" /\ chan[p] # <<>>
    /\ task' = [task EXCEPT ![Sub(p)] = At("apply", p, Head(chan[p]), {})]
    /\ chan' = [chan EXCEPT ![p] = Tail(@)]
    /\ UNCHANGED <<byBlock, byWorker, holder, gone>>

\* The ticker of Start.
Tick(p) ==
    /\ task[Ticker(p)].pc = "idle"
    /\ task' = [task EXCEPT ![Ticker(p)] = At("copy", p, NoEvent, {})]
    /\ UNCHANGED <<byBlock, byWorker, chan, holder, gone>>

publishSnapshot(g) == Copy(g) \/ StoreCopy(g)

Subscriber(p) == Receive(p) \/ Apply(Sub(p)) \/ publishSnapshot(Sub(p))
Ticking(p) == Tick(p) \/ publishSnapshot(Ticker(p))
Report(g) == Apply(g) \/ publishSnapshot(g) \/ Publish(g)

Next ==
    \/ \E g \in Handlers : Post(g) \/ Report(g)
    \/ \E p \in Planes : Subscriber(p) \/ Ticking(p)

Spec == Init /\ [][Next]_vars

-----------------------------------------------------------------------------
\* The two maps of an index always tell the same: a worker holds a block by the
\* one if and only if some namespace has it by the other, so that clearing by
\* one map forgets nothing in the other.
IndexesAgree ==
    \A p \in Planes :
        byWorker[p] = {<<l[3], l[2]>> : l \in byBlock[p]}

\* A block whose removal was applied stays out of the index, unless a report of
\* it was still on its way at that moment or comes later.
RemovedStaysGone == \A p \in Planes : gone[p] \cap byWorker[p] = {}
=============================================================================
