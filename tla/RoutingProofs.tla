--------------------------- MODULE RoutingProofs ---------------------------
(***************************************************************************)
(* For any number of writers and any versions, StoreIfNewer is an atomic   *)
(* store of the newer item, and never moves back (Holder).  Routing stores *)
(* in that one step: the second part proves what the planes that share     *)
(* snapshots this way can rely on, for any number of planes, with messages *)
(* lost and publishers restarted.                                          *)
(***************************************************************************)
EXTENDS Routing, Holder, TLAPS

\* Together the two invariants are inductive: what a writer loaded is only used
\* by a swap that compares it again.
IInv == HolderAssumption /\ HolderTypeOK /\ StoredOrNewer

\* The invariants hold in the initial state.
LEMMA InitIInv == HolderAssumption /\ HolderInit => IInv
  BY DEF HolderAssumption, HolderInit, IInv, HolderTypeOK, StoredOrNewer, ItemOrNil

\* A writer's step changes its own call only, and the pointer only by a swap.
LEMMA EnterIInv ==
  ASSUME IInv, NEW w \in Writers, Enter(w) PROVE IInv'
  <1>1. PICK i \in Items : call' = [call EXCEPT ![w] = [@ EXCEPT !.pc = "load", !.item = i]]
    BY Zenon DEF Enter
  <1>2. HolderTypeOK'
    BY <1>1, Zenon DEF Enter, IInv, HolderTypeOK, ItemOrNil
  <1>3. StoredOrNewer'
    BY <1>1 DEF Enter, IInv, HolderTypeOK, StoredOrNewer, NotNewer
  <1> QED BY <1>2, <1>3 DEF IInv

LEMMA LoadIInv ==
  ASSUME IInv, NEW w \in Writers, Load(w) PROVE IInv'
  <1>1. HolderTypeOK'
    BY Zenon DEF Load, IInv, HolderTypeOK, ItemOrNil
  <1>2. StoredOrNewer'
    BY DEF HolderAssumption, Load, IInv, HolderTypeOK, StoredOrNewer, NotNewer, ItemOrNil
  <1> QED BY <1>1, <1>2 DEF IInv

\* A successful swap stores the writer's item over the one it loaded, which is
\* older; the calls that have returned stay satisfied.
LEMMA CompareAndSwapIInv ==
  ASSUME IInv, NEW w \in Writers, CompareAndSwap(w) PROVE IInv'
  <1>1. HolderTypeOK'
    BY DEF CompareAndSwap, IInv, HolderTypeOK, ItemOrNil
  <1>2. CASE ptr = call[w].cur
    BY <1>2
    DEF HolderAssumption, CompareAndSwap, IInv, HolderTypeOK, StoredOrNewer, NotNewer, ItemOrNil
  <1>3. CASE ptr # call[w].cur
    BY <1>3, <1>1 DEF CompareAndSwap, IInv, HolderTypeOK, StoredOrNewer, NotNewer
  <1> QED BY <1>2, <1>3

LEMMA ReturnIInv ==
  ASSUME IInv, NEW w \in Writers, Return(w) PROVE IInv'
  BY DEF Return, IInv, HolderTypeOK, StoredOrNewer, NotNewer, ItemOrNil

LEMMA NextIInv == IInv /\ [HolderNext]_holderVars => IInv'
  <1> SUFFICES ASSUME IInv, [HolderNext]_holderVars PROVE IInv'
    OBVIOUS
  <1>1. ASSUME NEW w \in Writers, Writer(w) PROVE IInv'
    BY <1>1, EnterIInv, LoadIInv, CompareAndSwapIInv, ReturnIInv DEF Writer
  <1>2. CASE UNCHANGED holderVars
    BY <1>2 DEF IInv, HolderTypeOK, StoredOrNewer, NotNewer, holderVars
  <1> QED BY <1>1, <1>2 DEF HolderNext

\* A returned call has left the holder as new as its item, for any number of
\* concurrent writers (holder.go and policy.go, StoreIfNewer).
THEOREM StoredOrNewerAlways == HolderAssumption /\ HolderSpec => [](HolderTypeOK /\ StoredOrNewer)
  <1>1. HolderAssumption /\ HolderSpec => []IInv
    BY InitIInv, NextIInv, PTL DEF HolderSpec
  <1> QED BY <1>1, PTL DEF IInv

\* Every step that changes the pointer is a successful swap to a newer item.
LEMMA StepMonotone ==
  ASSUME IInv, [HolderNext]_holderVars
  PROVE  ptr' # ptr => ptr' # NoItem /\ (ptr = NoItem \/ Version[ptr'] > Version[ptr])
  <1>1. ASSUME NEW w \in Writers, Writer(w), ptr' # ptr
        PROVE  ptr' # NoItem /\ (ptr = NoItem \/ Version[ptr'] > Version[ptr])
    <2>1. CompareAndSwap(w)
      BY <1>1, Zenon DEF Writer, Enter, Load, Return
    <2> QED
      BY <1>1, <2>1, SMTT(20)
      DEF HolderAssumption, CompareAndSwap, IInv, HolderTypeOK, StoredOrNewer, NotNewer, ItemOrNil
  <1> QED BY <1>1 DEF HolderNext, holderVars

\* What the gateway reads only gets newer, whatever the interleaving.
THEOREM HolderMonotone == HolderAssumption /\ HolderSpec => Monotone
  <1>1. HolderAssumption /\ HolderSpec => []IInv
    BY InitIInv, NextIInv, PTL DEF HolderSpec
  <1>2. IInv /\ [HolderNext]_holderVars => [ptr' # ptr => ptr' # NoItem /\ (ptr = NoItem \/ Version[ptr'] > Version[ptr])]_holderVars
    BY StepMonotone
  <1> QED BY <1>1, <1>2, PTL DEF HolderSpec, Monotone

\* The lock-free loop implements the register that stores the newer item in one
\* step: a swap is the step, every other step changes nothing.
THEOREM HolderRefines == HolderAssumption /\ HolderSpec => AtomicStore
  <1>1. HolderInit => Newest!Init
    BY DEF HolderInit, Newest!Init
  <1>2. IInv /\ [HolderNext]_holderVars => [Newest!Next]_ptr
    <2> SUFFICES ASSUME IInv, [HolderNext]_holderVars, ptr' # ptr PROVE Newest!Next
      BY DEF Newest!Next
    <2>1. PICK w \in Writers : CompareAndSwap(w)
      BY Zenon DEF HolderNext, holderVars, Writer, Enter, Load, Return
    <2>2. ptr' = call[w].item /\ ptr = call[w].cur /\ call[w].item \in Items
      BY <2>1 DEF CompareAndSwap, IInv, HolderTypeOK
    <2>3. Newest!NewerThan(call[w].item, ptr)
      BY <2>1, <2>2
      DEF HolderAssumption, CompareAndSwap, IInv, HolderTypeOK, StoredOrNewer, NotNewer, Newest!NewerThan, ItemOrNil
    <2> QED BY <2>2, <2>3 DEF Newest!Next, Newest!Offer
  <1>3. HolderAssumption /\ HolderSpec => []IInv
    BY InitIInv, NextIInv, PTL DEF HolderSpec
  <1> QED BY <1>1, <1>2, <1>3, PTL DEF HolderSpec, AtomicStore, Newest!Spec

-----------------------------------------------------------------------------
(***************************************************************************)
(* The snapshots: what a gateway reads does not go back, although epochs   *)
(* count from zero in every life of every publisher.                       *)
(***************************************************************************)
Makers == Planes \cup {"none"}
Snapshots == [epoch : Nat, state : Nat, by : Makers]
FeedTicks == [pc : {"idle", "publish", "store"}, snap : Snapshots]

FeedTypes ==
    /\ state \in Nat /\ epoch \in [Planes -> Nat] /\ tick \in [Planes -> FeedTicks]
    /\ inbox \in [Planes -> Seq(Snapshots)] /\ holder \in [Planes -> Snapshots]

\* The snapshots that are or may yet be read in a plane with holder h and inbox
\* box.
Seen(h, box) == {h} \cup {box[i] : i \in 1..Len(box)}

\* Messages of one publisher arrive in the order of its states.  A snapshot of
\* another publisher is only replaced by one that came later; its own snapshots,
\* which reach a plane twice, are told apart by the epoch of this life.
Ordered(p, h, box) ==
    /\ \A i, j \in 1..Len(box) : i < j /\ box[i].by = box[j].by => box[i].state <= box[j].state
    /\ \A i \in 1..Len(box) : box[i].by = h.by /\ h.by # p => h.state <= box[i].state
    /\ \A x, y \in Seen(h, box) :
         x.by = p /\ y.by = p /\ x.epoch <= y.epoch => x.state <= y.state

\* The tick t under way, of epoch e in control state s, is the newest of its
\* plane.
Latest(p, s, e, t, h, box) ==
    /\ \A x \in Seen(h, box) : x.state <= s /\ (x.by = p => x.epoch <= e)
    /\ t.pc # "idle" => /\ t.snap.by = p /\ t.snap.epoch = e /\ t.snap.state <= s
                        /\ \A x \in Seen(h, box) : x.by = p =>
                             /\ x.state <= t.snap.state
                             /\ x.epoch = e => x.state = t.snap.state

\* What q has built and not published is newer than all that others have of q.
Unpublished(q, t, h, box) ==
    t.pc = "publish" => \A x \in Seen(h, box) : x.by = q => x.state <= t.snap.state

FeedInv ==
    /\ FeedTypes
    /\ \A p \in Planes : /\ Ordered(p, holder[p], inbox[p])
                         /\ Latest(p, state, epoch[p], tick[p], holder[p], inbox[p])
    /\ \A p, q \in Planes : Unpublished(q, tick[q], holder[p], inbox[p])

LEMMA SeenTyped ==
  ASSUME NEW h \in Snapshots, NEW box \in Seq(Snapshots) PROVE Seen(h, box) \subseteq Snapshots
  <1>1. \A i \in 1..Len(box) : box[i] \in Snapshots
    OBVIOUS
  <1> QED BY <1>1 DEF Seen

\* The message x joins box and makes it new: the newest of its publisher, and in
\* the plane of its publisher the one that the tick built.
Joins(p, s, e, t, h, box, x, new) ==
    /\ s \in Nat /\ e \in Nat /\ t \in FeedTicks /\ h \in Snapshots /\ box \in Seq(Snapshots)
    /\ Ordered(p, h, box) /\ Latest(p, s, e, t, h, box)
    /\ x \in Snapshots /\ new = Append(box, x)
    /\ x.state <= s /\ \A y \in Seen(h, box) : y.by = x.by => y.state <= x.state
    /\ x.by = p => t.pc # "idle" /\ x = t.snap

LEMMA Arrives ==
  ASSUME NEW p, NEW s, NEW e, NEW t, NEW h, NEW box, NEW x, NEW new,
         Joins(p, s, e, t, h, box, x, new)
  PROVE  /\ new \in Seq(Snapshots) /\ Seen(h, new) = Seen(h, box) \cup {x}
         /\ Ordered(p, h, new) /\ Latest(p, s, e, t, h, new)
  <1> USE DEF Joins
  <1>1. /\ new \in Seq(Snapshots) /\ Len(new) = Len(box) + 1 /\ new[Len(box) + 1] = x
        /\ \A i \in 1..Len(box) : new[i] = box[i]
    OBVIOUS
  <1>2. Seen(h, new) = Seen(h, box) \cup {x}
    <2>1. Len(box) \in Nat /\ 1..Len(new) = 1..Len(box) \cup {Len(box) + 1}
      BY <1>1
    <2> QED BY <1>1, <2>1 DEF Seen
  <1>3. \A y \in Seen(h, new) : y \in Snapshots
    BY <1>2, SeenTyped
  <1>4. Latest(p, s, e, t, h, new)
    BY <1>2, <1>3 DEF Latest, FeedTicks, Snapshots
  <1>5. ASSUME NEW y \in Seen(h, new), NEW z \in Seen(h, new), y.by = p, z.by = p, y.epoch <= z.epoch
        PROVE  y.state <= z.state
    BY <1>2, <1>3, <1>4, <1>5 DEF Ordered, Latest, Snapshots
  <1>6. ASSUME NEW i \in 1..Len(new), NEW j \in 1..Len(new), i < j, new[i].by = new[j].by
        PROVE  new[i].state <= new[j].state
    <2>1. i \in 1..Len(box) /\ (j \in 1..Len(box) \/ new[j] = x)
      BY <1>1, <1>6
    <2>2. new[i] = box[i] /\ box[i] \in Seen(h, box) /\ (j \in 1..Len(box) => new[j] = box[j])
      BY <1>1, <2>1 DEF Seen
    <2>3. CASE j \in 1..Len(box)
      BY <1>6, <2>1, <2>2, <2>3 DEF Ordered
    <2> QED BY <1>6, <2>1, <2>2, <2>3
  <1>7. ASSUME NEW i \in 1..Len(new), new[i].by = h.by, h.by # p PROVE h.state <= new[i].state
    BY <1>1, <1>7 DEF Ordered, Seen
  <1> QED BY <1>1, <1>2, <1>4, <1>5, <1>6, <1>7 DEF Ordered

\* The first message of an inbox is taken, and stored or dropped.
Takes(p, s, e, t, h, box, g) ==
    /\ s \in Nat /\ e \in Nat /\ t \in FeedTicks /\ h \in Snapshots /\ box \in Seq(Snapshots)
    /\ Ordered(p, h, box) /\ Latest(p, s, e, t, h, box)
    /\ box # <<>> /\ g \in {h, Head(box)}

LEMMA Taken ==
  ASSUME NEW p, NEW s, NEW e, NEW t, NEW h, NEW box, NEW g, Takes(p, s, e, t, h, box, g)
  PROVE  /\ Tail(box) \in Seq(Snapshots) /\ Seen(g, Tail(box)) \subseteq Seen(h, box)
         /\ Ordered(p, g, Tail(box)) /\ Latest(p, s, e, t, g, Tail(box))
  <1> USE DEF Takes
  <1> DEFINE new == Tail(box)
  <1>1. /\ new \in Seq(Snapshots) /\ Len(box) \in Nat /\ Len(box) > 0 /\ Len(new) = Len(box) - 1
        /\ \A i \in 1..Len(new) : new[i] = box[i + 1] /\ i + 1 \in 1..Len(box)
        /\ Head(box) = box[1] /\ 1 \in 1..Len(box)
    OBVIOUS
  <1> HIDE DEF new
  <1>2. Seen(g, new) \subseteq Seen(h, box)
    <2>1. g \in Seen(h, box)
      BY <1>1 DEF Seen
    <2>2. ASSUME NEW i \in 1..Len(new) PROVE new[i] \in Seen(h, box)
      BY <1>1, <2>2 DEF Seen
    <2> QED BY <2>1, <2>2, Zenon DEF Seen
  <1>3. Latest(p, s, e, t, g, new)
    BY <1>2, Zenon DEF Latest
  <1>4. ASSUME NEW i \in 1..Len(new), NEW j \in 1..Len(new), i < j, new[i].by = new[j].by
        PROVE  new[i].state <= new[j].state
    <2>1. /\ i + 1 \in 1..Len(box) /\ j + 1 \in 1..Len(box) /\ i + 1 < j + 1
          /\ new[i] = box[i + 1] /\ new[j] = box[j + 1]
      BY <1>1, <1>4
    <2> QED BY <1>4, <2>1, Zenon DEF Ordered
  <1>5. ASSUME NEW i \in 1..Len(new), new[i].by = g.by, g.by # p PROVE g.state <= new[i].state
    <2>1. /\ i + 1 \in 1..Len(box) /\ 1 < i + 1 /\ new[i] = box[i + 1]
      BY <1>1, <1>5
    <2>2. CASE g = h
      BY <1>5, <2>1, <2>2, Zenon DEF Ordered
    <2>3. CASE g = box[1]
      BY <1>1, <1>5, <2>1, <2>3, Zenon DEF Ordered
    <2> QED BY <1>1, <2>2, <2>3
  <1> QED BY <1>1, <1>2, <1>3, <1>4, <1>5 DEF new, Ordered

\* A publisher stores what it built, or keeps what it has, and is idle again.
Stores(p, s, e, t, h, box, g, u) ==
    /\ s \in Nat /\ e \in Nat /\ t \in FeedTicks /\ h \in Snapshots /\ box \in Seq(Snapshots)
    /\ Ordered(p, h, box) /\ Latest(p, s, e, t, h, box)
    /\ t.pc # "idle" /\ g \in {h, t.snap} /\ u.pc = "idle"

LEMMA StoredOwn ==
  ASSUME NEW p, NEW s, NEW e, NEW t, NEW h, NEW box, NEW g, NEW u,
         Stores(p, s, e, t, h, box, g, u)
  PROVE  /\ Seen(g, box) \subseteq Seen(h, box) \cup {t.snap}
         /\ Ordered(p, g, box) /\ Latest(p, s, e, u, g, box)
  <1> USE DEF Stores
  <1>1. Seen(g, box) \subseteq Seen(h, box) \cup {t.snap}
    BY DEF Seen
  <1>2. \A x \in Seen(h, box) \cup {t.snap} : x \in Snapshots
    BY SeenTyped DEF FeedTicks
  <1>3. t.snap.by = p /\ t.snap.epoch = e /\ t.snap.state <= s
    BY DEF Latest
  <1>4. Latest(p, s, e, u, g, box)
    BY <1>1, <1>2, <1>3 DEF Latest, Snapshots
  <1>5. ASSUME NEW x \in Seen(g, box), NEW y \in Seen(g, box), x.by = p, y.by = p, x.epoch <= y.epoch
        PROVE  x.state <= y.state
    BY <1>1, <1>2, <1>3, <1>5 DEF Latest, Ordered, Snapshots
  <1>6. ASSUME NEW i \in 1..Len(box), box[i].by = g.by, g.by # p PROVE g.state <= box[i].state
    BY <1>3, <1>6 DEF Ordered
  <1> QED BY <1>1, <1>4, <1>5, <1>6 DEF Ordered

\* A plane that has read nothing yet.
LEMMA Fresh ==
  /\ NoSnapshot \in Snapshots /\ IdleTick \in FeedTicks /\ IdleTick.pc = "idle"
  /\ <<>> \in Seq(Snapshots)
  /\ \A p : Ordered(p, NoSnapshot, <<>>)
  /\ \A p : \A s, e \in Nat : Latest(p, s, e, IdleTick, NoSnapshot, <<>>)
  /\ \A q : \A t \in FeedTicks : Unpublished(q, t, NoSnapshot, <<>>)
  <1>1. NoSnapshot \in Snapshots /\ NoSnapshot.state = 0 /\ NoSnapshot.epoch = 0
    BY DEF NoSnapshot, Snapshots, Makers
  <1>2. IdleTick \in FeedTicks /\ IdleTick.pc = "idle"
    BY <1>1 DEF IdleTick, FeedTicks
  <1>3. Seen(NoSnapshot, <<>>) = {NoSnapshot} /\ 1..Len(<<>>) = {}
    BY DEF Seen
  <1>4. \A p : Ordered(p, NoSnapshot, <<>>)
    BY <1>1, <1>3 DEF Ordered
  <1>5. \A p : \A s, e \in Nat : Latest(p, s, e, IdleTick, NoSnapshot, <<>>)
    BY <1>1, <1>2, <1>3 DEF Latest
  <1>6. \A q : \A t \in FeedTicks : Unpublished(q, t, NoSnapshot, <<>>)
    BY <1>1, <1>3 DEF Unpublished, FeedTicks, Snapshots
  <1> QED BY <1>1, <1>2, <1>4, <1>5, <1>6

LEMMA FeedInit == Init => FeedInv
  <1> SUFFICES ASSUME Init PROVE FeedInv
    OBVIOUS
  <1>1. FeedTypes
    BY Fresh DEF Init, FeedTypes
  <1> QED BY <1>1, Fresh DEF Init, FeedInv

\* The state moves on, and a tick that has begun is the newest of its plane.
LEMMA FeedBuilds ==
  ASSUME FeedInv, Change \/ \E p \in Planes : buildSnapshot(p) PROVE FeedInv'
  <1>0. /\ FeedTypes
        /\ \A q \in Planes : \A x \in Seen(holder[q], inbox[q]) : x.state \in Nat /\ x.epoch \in Nat
    <2>1. \A q \in Planes : holder[q] \in Snapshots /\ inbox[q] \in Seq(Snapshots)
      BY DEF FeedInv, FeedTypes
    <2>2. \A q \in Planes : Seen(holder[q], inbox[q]) \subseteq Snapshots
      BY <2>1, SeenTyped, Zenon
    <2> QED BY <2>2 DEF FeedInv, Snapshots
  <1>1. CASE Change
    <2>1. state' = state + 1 /\ UNCHANGED <<epoch, tick, inbox, holder>>
      BY <1>1 DEF Change
    <2>2. FeedTypes'
      BY <1>0, <2>1 DEF FeedTypes
    <2>3. ASSUME NEW q \in Planes
          PROVE  Latest(q, state', epoch[q], tick[q], holder[q], inbox[q])
      <3>1. Latest(q, state, epoch[q], tick[q], holder[q], inbox[q]) /\ tick[q].snap.state \in Nat
        BY <1>0 DEF FeedInv, FeedTypes, FeedTicks, Snapshots
      <3> QED BY <1>0, <2>1, <3>1 DEF Latest, FeedTypes
    <2> QED BY <2>1, <2>2, <2>3 DEF FeedInv
  <1>2. ASSUME NEW p \in Planes, buildSnapshot(p) PROVE FeedInv'
    <2> DEFINE t == [pc |-> "publish",
                     snap |-> [epoch |-> epoch[p] + 1, state |-> state, by |-> p]]
    <2>1. /\ epoch' = [epoch EXCEPT ![p] = epoch[p] + 1] /\ tick' = [tick EXCEPT ![p] = t]
          /\ UNCHANGED <<state, inbox, holder>>
      BY <1>2 DEF buildSnapshot
    <2>2. /\ t \in FeedTicks /\ t.snap.epoch = epoch[p] + 1 /\ t.snap.state = state /\ t.snap.by = p
      BY <1>0 DEF FeedTypes, FeedTicks, Snapshots, Makers
    <2> HIDE DEF t
    <2>3. /\ FeedTypes' /\ tick'[p] = t /\ epoch'[p] = epoch[p] + 1
          /\ \A q \in Planes \ {p} : tick'[q] = tick[q] /\ epoch'[q] = epoch[q]
      BY <1>0, <2>1, <2>2 DEF FeedTypes
    <2>4. Latest(p, state, epoch[p] + 1, t, holder[p], inbox[p])
      <3>1. Latest(p, state, epoch[p], tick[p], holder[p], inbox[p]) /\ epoch[p] \in Nat /\ state \in Nat
        BY <1>0 DEF FeedInv, FeedTypes
      <3> QED BY <1>0, <2>2, <3>1 DEF Latest
    <2>5. \A q \in Planes : Unpublished(p, t, holder[q], inbox[q])
      BY <2>2 DEF FeedInv, Latest, Unpublished
    <2> QED BY <2>1, <2>3, <2>4, <2>5 DEF FeedInv
  <1> QED BY <1>1, <1>2

\* A plane's snapshot reaches the others in the order it was built, or not at all.
LEMMA FeedPublishes ==
  ASSUME FeedInv, NEW p \in Planes, Publish(p) PROVE FeedInv'
  <1> DEFINE x == tick[p].snap
             t == [tick[p] EXCEPT !.pc = "store"]
  <1>0. /\ FeedTypes /\ tick[p] \in FeedTicks /\ x \in Snapshots /\ state \in Nat
        /\ tick[p].pc = "publish" /\ x.by = p /\ x.state <= state
        /\ UNCHANGED <<state, epoch, holder>>
    BY DEF FeedInv, FeedTypes, FeedTicks, Latest, Publish
  <1>1. t \in FeedTicks /\ t.pc = "store" /\ t.snap = x
    BY <1>0 DEF FeedTicks
  <1>2. \/ /\ tick' = [tick EXCEPT ![p] = t]
           /\ \E lost \in SUBSET Planes : inbox' = [q \in Planes |->
                IF q \in lost THEN inbox[q] ELSE Append(inbox[q], x)]
        \/ tick' = [tick EXCEPT ![p] = IdleTick] /\ inbox' = inbox
    BY Zenon DEF Publish
  <1> HIDE DEF t
  <1>3. /\ tick' \in [Planes -> FeedTicks] /\ \A q \in Planes \ {p} : tick'[q] = tick[q]
        /\ tick'[p].pc = "idle" \/ (tick'[p].pc = "store" /\ tick'[p].snap = x)
    <2>1. IdleTick \in FeedTicks /\ IdleTick.pc = "idle" /\ tick \in [Planes -> FeedTicks]
      BY <1>0, Fresh DEF FeedTypes
    <2>2. \E y \in {t, IdleTick} : tick' = [tick EXCEPT ![p] = y]
      BY <1>2
    <2> QED BY <1>1, <2>1, <2>2
  <1>4. ASSUME NEW q \in Planes
        PROVE  /\ holder[q] \in Snapshots /\ inbox[q] \in Seq(Snapshots)
               /\ epoch[q] \in Nat /\ tick[q] \in FeedTicks /\ Ordered(q, holder[q], inbox[q])
               /\ Latest(q, state, epoch[q], tick[q], holder[q], inbox[q])
               /\ \A y \in Seen(holder[q], inbox[q]) : y.by = p => y.state <= x.state
               /\ \A r \in Planes : Unpublished(r, tick[r], holder[q], inbox[q])
    BY <1>0 DEF FeedInv, FeedTypes, Unpublished
  <1>5. ASSUME NEW q \in Planes
        PROVE  /\ inbox'[q] \in Seq(Snapshots) /\ Ordered(q, holder[q], inbox'[q])
               /\ Latest(q, state, epoch[q], tick[q], holder[q], inbox'[q])
               /\ Seen(holder[q], inbox'[q]) \subseteq Seen(holder[q], inbox[q]) \cup {x}
    <2>1. inbox'[q] = inbox[q] \/ inbox'[q] = Append(inbox[q], x)
      BY <1>2
    <2>2. q = p => tick[q].pc # "idle" /\ x = tick[q].snap
      BY <1>0
    <2>3. CASE inbox'[q] = inbox[q]
      BY <1>4, <2>3
    <2>4. CASE inbox'[q] = Append(inbox[q], x)
      <3>1. \A y \in Seen(holder[q], inbox[q]) : y.by = x.by => y.state <= x.state
        BY <1>0, <1>4
      <3>2. Joins(q, state, epoch[q], tick[q], holder[q], inbox[q], x, inbox'[q])
        BY <1>0, <1>4, <2>2, <2>4, <3>1 DEF Joins
      <3> HIDE DEF x
      <3> QED BY <3>2, Arrives
    <2> QED BY <2>1, <2>3, <2>4
  <1>6. inbox' \in [Planes -> Seq(Snapshots)]
    <2>1. inbox' = [q \in Planes |-> inbox'[q]]
      BY <1>0, <1>2 DEF FeedTypes
    <2> QED BY <1>5, <2>1
  <1>7. FeedTypes'
    BY <1>0, <1>3, <1>6 DEF FeedTypes
  <1>8. ASSUME NEW q \in Planes
        PROVE  Latest(q, state, epoch[q], tick'[q], holder[q], inbox'[q])
    <2>1. CASE q # p
      BY <1>3, <1>5, <2>1
    <2>2. CASE q = p
      BY <1>0, <1>3, <1>5, <2>2 DEF Latest
    <2> QED BY <2>1, <2>2
  <1>9. ASSUME NEW q \in Planes, NEW r \in Planes
        PROVE  Unpublished(r, tick'[r], holder[q], inbox'[q])
    <2>1. CASE r = p
      BY <1>3, <2>1 DEF Unpublished
    <2>2. CASE r # p
      <3>1. tick'[r] = tick[r] /\ Unpublished(r, tick[r], holder[q], inbox[q])
        BY <1>3, <1>4, <2>2
      <3>2. Seen(holder[q], inbox'[q]) \subseteq Seen(holder[q], inbox[q]) \cup {x} /\ x.by # r
        BY <1>0, <1>5, <2>2, Zenon
      <3> QED BY <3>1, <3>2, Zenon DEF Unpublished
    <2> QED BY <2>1, <2>2
  <1> QED BY <1>0, <1>5, <1>7, <1>8, <1>9 DEF FeedInv

\* What a plane stores it had built itself or received; a restart forgets it all.
LEMMA FeedStores ==
  ASSUME FeedInv, NEW p \in Planes, StoreOwn(p) \/ Receive(p) \/ Restart(p)
  PROVE  FeedInv'
  <1>0. /\ FeedTypes /\ state \in Nat /\ epoch[p] \in Nat /\ tick[p] \in FeedTicks
        /\ holder[p] \in Snapshots /\ inbox[p] \in Seq(Snapshots)
        /\ Ordered(p, holder[p], inbox[p])
        /\ Latest(p, state, epoch[p], tick[p], holder[p], inbox[p])
        /\ \A r \in Planes : Unpublished(r, tick[r], holder[p], inbox[p])
    BY DEF FeedInv, FeedTypes
  <1>1. ASSUME NEW e \in Nat, NEW t \in FeedTicks, NEW h \in Snapshots, NEW box \in Seq(Snapshots),
               epoch' = [epoch EXCEPT ![p] = e], tick' = [tick EXCEPT ![p] = t],
               holder' = [holder EXCEPT ![p] = h], inbox' = [inbox EXCEPT ![p] = box], state' = state,
               Ordered(p, h, box), Latest(p, state, e, t, h, box),
               t.pc = "idle" \/ t = tick[p],
               \A r \in Planes : t.pc # "idle" \/ r # p => Unpublished(r, tick[r], h, box)
        PROVE  FeedInv'
    <2>1. /\ FeedTypes' /\ epoch'[p] = e /\ tick'[p] = t /\ holder'[p] = h /\ inbox'[p] = box
          /\ \A q \in Planes \ {p} : /\ epoch'[q] = epoch[q] /\ tick'[q] = tick[q]
                                     /\ holder'[q] = holder[q] /\ inbox'[q] = inbox[q]
      BY <1>0, <1>1 DEF FeedTypes
    <2>2. ASSUME NEW q \in Planes
          PROVE  /\ Ordered(q, holder'[q], inbox'[q])
                 /\ Latest(q, state', epoch'[q], tick'[q], holder'[q], inbox'[q])
      BY <1>1, <2>1, ZenonT(30) DEF FeedInv
    <2>3. ASSUME NEW q \in Planes, NEW r \in Planes
          PROVE  Unpublished(r, tick'[r], holder'[q], inbox'[q])
      <3>1. CASE r = p /\ t.pc = "idle"
        BY <2>1, <3>1 DEF Unpublished
      <3>2. CASE r # p \/ t = tick[p]
        <4>1. tick'[r] = tick[r] /\ Unpublished(r, tick[r], holder[q], inbox[q])
          BY <2>1, <3>2 DEF FeedInv
        <4>2. CASE q # p
          BY <2>1, <4>1, <4>2
        <4>3. CASE q = p /\ (t.pc # "idle" \/ r # p)
          BY <1>1, <2>1, <4>1, <4>3
        <4> QED BY <3>1, <4>2, <4>3
      <3> QED BY <1>1, <3>1, <3>2
    <2> QED BY <2>1, <2>2, <2>3 DEF FeedInv
  <1>2. CASE StoreOwn(p)
    <2> DEFINE t == tick[p]
               h == IF t.snap.epoch > holder[p].epoch THEN t.snap ELSE holder[p]
    <2>1. /\ t.pc = "store" /\ tick' = [tick EXCEPT ![p] = IdleTick]
          /\ holder' = [holder EXCEPT ![p] = h] /\ UNCHANGED <<state, epoch, inbox>>
      BY <1>2 DEF StoreOwn, StoreIfNewer
    <2>2. h \in {holder[p], t.snap} /\ h \in Snapshots
      BY <1>0 DEF FeedTicks
    <2> HIDE DEF h
    <2>3. /\ Seen(h, inbox[p]) \subseteq Seen(holder[p], inbox[p]) \cup {t.snap}
          /\ Ordered(p, h, inbox[p])
          /\ Latest(p, state, epoch[p], IdleTick, h, inbox[p])
      <3>1. Stores(p, state, epoch[p], t, holder[p], inbox[p], h, IdleTick)
        BY <1>0, <2>1, <2>2, Fresh DEF Stores
      <3> HIDE DEF t
      <3> QED BY <3>1, StoredOwn, Zenon
    <2>4. \A r \in Planes : r # p => Unpublished(r, tick[r], h, inbox[p])
      BY <1>0, <2>1, <2>3 DEF Unpublished, Latest
    <2>5. epoch' = [epoch EXCEPT ![p] = epoch[p]] /\ inbox' = [inbox EXCEPT ![p] = inbox[p]]
      BY <1>0, <2>1 DEF FeedTypes
    <2> QED BY <1>0, <1>1, <2>1, <2>2, <2>3, <2>4, <2>5, Fresh, Zenon
  <1>3. CASE Receive(p)
    <2> DEFINE box == inbox[p]
               h == IF Head(box).epoch > holder[p].epoch THEN Head(box) ELSE holder[p]
    <2>1. /\ box # <<>> /\ inbox' = [inbox EXCEPT ![p] = Tail(box)]
          /\ holder' = [holder EXCEPT ![p] = h] /\ UNCHANGED <<state, epoch, tick>>
      BY <1>3 DEF Receive, StoreIfNewer
    <2>2. h \in {holder[p], Head(box)} /\ h \in Snapshots
      BY <1>0, <2>1
    <2> HIDE DEF h
    <2>3. /\ Tail(box) \in Seq(Snapshots) /\ Seen(h, Tail(box)) \subseteq Seen(holder[p], box)
          /\ Ordered(p, h, Tail(box)) /\ Latest(p, state, epoch[p], tick[p], h, Tail(box))
      <3>1. Takes(p, state, epoch[p], tick[p], holder[p], box, h)
        BY <1>0, <2>1, <2>2 DEF Takes
      <3> HIDE DEF box
      <3> QED BY <3>1, Taken, Zenon
    <2>4. \A r \in Planes : Unpublished(r, tick[r], h, Tail(box))
      BY <1>0, <2>3 DEF Unpublished
    <2>5. epoch' = [epoch EXCEPT ![p] = epoch[p]] /\ tick' = [tick EXCEPT ![p] = tick[p]]
      BY <1>0, <2>1 DEF FeedTypes
    <2> QED BY <1>0, <1>1, <2>1, <2>2, <2>3, <2>4, <2>5, Zenon
  <1>4. CASE Restart(p)
    <2>1. /\ epoch' = [epoch EXCEPT ![p] = 0] /\ tick' = [tick EXCEPT ![p] = IdleTick]
          /\ inbox' = [inbox EXCEPT ![p] = <<>>] /\ holder' = [holder EXCEPT ![p] = NoSnapshot]
          /\ state' = state
      BY <1>4 DEF Restart
    <2>2. \A r \in Planes : Unpublished(r, tick[r], NoSnapshot, <<>>)
      BY <1>0, Fresh DEF FeedTypes
    <2>3. 0 \in Nat /\ Latest(p, state, 0, IdleTick, NoSnapshot, <<>>)
      BY <1>0, Fresh
    <2> QED BY <1>1, <2>1, <2>2, <2>3, Fresh, Zenon
  <1> QED BY <1>2, <1>3, <1>4

LEMMA FeedNext == FeedInv /\ [Next]_vars => FeedInv'
  <1>1. FeedInv /\ UNCHANGED vars => FeedInv'
    BY DEF FeedInv, FeedTypes, vars
  <1> QED BY <1>1, FeedBuilds, FeedPublishes, FeedStores, Zenon DEF Next

\* A step that changes what a plane reads stores its own snapshot, or the first
\* of its inbox, with a higher epoch; or the plane restarts.
LEMMA HolderChanges ==
  ASSUME FeedInv, [Next]_vars, NEW p \in Planes, holder'[p] # holder[p]
  PROVE  \/ holder'[p] = NoSnapshot
         \/ /\ holder'[p].epoch > holder[p].epoch
            /\ \/ tick[p].pc = "store" /\ holder'[p] = tick[p].snap
               \/ inbox[p] # <<>> /\ holder'[p] = Head(inbox[p])
  <1>0. holder \in [Planes -> Snapshots]
    BY DEF FeedInv, FeedTypes
  <1>1. PICK q \in Planes : StoreOwn(q) \/ Receive(q) \/ Restart(q)
    BY DEF Next, vars, Change, buildSnapshot, Publish
  <1>2. CASE StoreOwn(q)
    BY <1>0, <1>2 DEF StoreOwn, StoreIfNewer
  <1>3. CASE Receive(q)
    BY <1>0, <1>3 DEF Receive, StoreIfNewer
  <1>4. CASE Restart(q)
    BY <1>0, <1>4 DEF Restart
  <1> QED BY <1>1, <1>2, <1>3, <1>4

\* A gateway never goes back to an older control state of the same publisher,
\* whatever is lost, delayed or restarted (publisher.go, subscriber.go and
\* StoreIfNewer of holder.go).
THEOREM SnapshotsAdvance == Spec => NoRollback
  <1>1. FeedInv /\ [Next]_vars =>
          [\A p \in Planes :
             holder'[p] # NoSnapshot /\ holder'[p].by = holder[p].by
               => holder'[p].state >= holder[p].state]_vars
    <2> SUFFICES ASSUME FeedInv, [Next]_vars, NEW p \in Planes,
                        holder'[p] # NoSnapshot, holder'[p].by = holder[p].by
                 PROVE  holder'[p].state >= holder[p].state
      OBVIOUS
    <2>0. /\ holder[p] \in Snapshots /\ inbox[p] \in Seq(Snapshots) /\ tick[p] \in FeedTicks
          /\ Ordered(p, holder[p], inbox[p])
          /\ Latest(p, state, epoch[p], tick[p], holder[p], inbox[p])
          /\ holder[p] \in Seen(holder[p], inbox[p])
      BY DEF FeedInv, FeedTypes, Seen
    <2>1. holder[p].state \in Nat /\ holder[p].epoch \in Nat
      BY <2>0 DEF Snapshots
    <2>2. CASE holder'[p] = holder[p]
      BY <2>1, <2>2
    <2>3. CASE /\ holder'[p].epoch > holder[p].epoch
               /\ tick[p].pc = "store" /\ holder'[p] = tick[p].snap
      BY <2>0, <2>3 DEF Latest, FeedTicks, Snapshots
    <2>4. CASE /\ holder'[p].epoch > holder[p].epoch
               /\ inbox[p] # <<>> /\ holder'[p] = Head(inbox[p])
      <3>1. /\ 1 \in 1..Len(inbox[p]) /\ holder'[p] = inbox[p][1]
            /\ holder'[p] \in Snapshots /\ holder'[p] \in Seen(holder[p], inbox[p])
        BY <2>0, <2>4 DEF Seen
      <3>2. holder'[p].state \in Nat /\ holder'[p].epoch \in Nat
        BY <3>1 DEF Snapshots
      <3>3. CASE holder[p].by = p
        BY <2>0, <2>1, <2>4, <3>1, <3>2, <3>3 DEF Ordered
      <3>4. CASE holder[p].by # p
        BY <2>0, <2>1, <3>1, <3>2, <3>4 DEF Ordered
      <3> QED BY <3>3, <3>4
    <2> QED BY <2>2, <2>3, <2>4, HolderChanges
  <1> QED BY <1>1, FeedInit, FeedNext, PTL DEF Spec, NoRollback

\* A tick that completes is visible in its own plane unless another publisher's
\* epoch is at least as high: no epoch of an earlier life is in the way
\* (publisher.go, tick; holder.go, StoreIfNewer).
THEOREM TicksVisible == Spec => TickVisible
  <1>1. FeedInv /\ [Next]_vars =>
          [\A p \in Planes :
             tick[p].pc = "store" /\ tick'[p].pc = "idle" /\ epoch'[p] # 0 =>
               \/ holder'[p].state >= tick[p].snap.state
               \/ holder'[p].by # p /\ holder'[p].epoch >= tick[p].snap.epoch]_vars
    <2> SUFFICES ASSUME FeedInv, [Next]_vars, NEW p \in Planes,
                        tick[p].pc = "store", tick'[p].pc = "idle", epoch'[p] # 0
                 PROVE  \/ holder'[p].state >= tick[p].snap.state
                        \/ holder'[p].by # p /\ holder'[p].epoch >= tick[p].snap.epoch
      OBVIOUS
    <2>0. /\ FeedTypes /\ holder[p] \in Snapshots /\ tick[p] \in FeedTicks
          /\ Latest(p, state, epoch[p], tick[p], holder[p], inbox[p])
          /\ holder[p] \in Seen(holder[p], inbox[p])
      BY DEF FeedInv, FeedTypes, Seen
    <2>1. StoreOwn(p)
      <3>1. tick'[p] # tick[p]
        OBVIOUS
      <3>2. ~Change /\ \A q \in Planes : ~Receive(q)
        BY <3>1 DEF Change, Receive
      <3>3. ASSUME NEW q \in Planes, q # p
            PROVE  ~(buildSnapshot(q) \/ Publish(q) \/ StoreOwn(q) \/ Restart(q))
        BY <2>0, <3>1, <3>3
        DEF FeedTypes, buildSnapshot, Publish, StoreOwn, Restart
      <3>4. ~(buildSnapshot(p) \/ Publish(p) \/ Restart(p))
        BY <2>0 DEF FeedTypes, buildSnapshot, Publish, Restart
      <3> QED BY <3>1, <3>2, <3>3, <3>4 DEF Next, vars
    <2>2. holder'[p] = IF tick[p].snap.epoch > holder[p].epoch THEN tick[p].snap ELSE holder[p]
      BY <2>0, <2>1 DEF StoreOwn, StoreIfNewer, FeedTypes
    <2>3. /\ tick[p].snap \in Snapshots /\ tick[p].snap.epoch = epoch[p]
          /\ holder[p].by = p => holder[p].epoch <= epoch[p]
          /\ holder[p].by = p /\ holder[p].epoch = epoch[p] => holder[p].state = tick[p].snap.state
      BY <2>0 DEF Latest, FeedTicks
    <2>4. /\ tick[p].snap.epoch \in Nat /\ tick[p].snap.state \in Nat
          /\ holder[p].epoch \in Nat /\ holder[p].state \in Nat
      BY <2>0, <2>3 DEF Snapshots
    <2>5. CASE tick[p].snap.epoch > holder[p].epoch
      BY <2>2, <2>4, <2>5
    <2>6. CASE ~(tick[p].snap.epoch > holder[p].epoch)
      <3>1. holder'[p] = holder[p] /\ holder[p].epoch >= tick[p].snap.epoch
        BY <2>2, <2>4, <2>6
      <3>2. CASE holder[p].by = p
        <4>1. holder[p].state = tick[p].snap.state
          BY <2>3, <2>4, <3>1, <3>2
        <4> QED BY <2>4, <3>1, <4>1
      <3> QED BY <3>1, <3>2
    <2> QED BY <2>5, <2>6
  <1> QED BY <1>1, FeedInit, FeedNext, PTL DEF Spec, TickVisible
=============================================================================
