-------------------------------- MODULE Holder --------------------------------
(***************************************************************************)
(* StoreIfNewer of routing.SnapshotHolder and of routing.PolicyHolder: a   *)
(* loop of an atomic load and a compare-and-swap, run concurrently by the  *)
(* publisher (or planner) and the subscriber of a control plane.           *)
(*                                                                         *)
(* An item is one snapshot or policy object, so that the compare-and-swap  *)
(* compares pointers; several items may have the same version, as those of *)
(* different control planes do.                                            *)
(***************************************************************************)
EXTENDS Naturals

CONSTANTS Items,       \* the objects offered
          Version,     \* Epoch or Version of each
          Writers,     \* goroutines that call StoreIfNewer
          NoItem       \* the nil pointer

\* Versions are counted, and nil is no object.
HolderAssumption ==
    /\ Version \in [Items -> Nat]
    /\ NoItem \notin Items

VARIABLES ptr,   \* the atomic pointer
          call   \* each writer's call: pc, the item offered, the item loaded

holderVars == <<ptr, call>>

ItemOrNil == Items \cup {NoItem}

HolderInit ==
    /\ ptr = NoItem
    /\ call = [w \in Writers |-> [pc |-> "idle", item |-> NoItem, cur |-> NoItem]]

\* The caller checks for nil and enters the loop.
Enter(w) ==
    /\ call[w].pc = "idle"
    /\ \E i \in Items : call' = [call EXCEPT ![w] = [@ EXCEPT !.pc = "load", !.item = i]]
    /\ UNCHANGED ptr

\* The loaded item is as new: the call returns false.
NotNewer(i, cur) == cur # NoItem /\ Version[i] <= Version[cur]

Load(w) ==
    /\ call[w].pc = "load"
    /\ call' = [call EXCEPT ![w] = [@ EXCEPT
         !.pc = IF NotNewer(call[w].item, ptr) THEN "done" ELSE "cas", !.cur = ptr]]
    /\ UNCHANGED ptr

\* CompareAndSwap; when it fails the loop loads again.
CompareAndSwap(w) ==
    /\ call[w].pc = "cas"
    /\ ptr' = IF ptr = call[w].cur THEN call[w].item ELSE ptr
    /\ call' = [call EXCEPT ![w] = [@ EXCEPT
         !.pc = IF ptr = call[w].cur THEN "done" ELSE "load"]]

\* The caller goes on.
Return(w) ==
    /\ call[w].pc = "done"
    /\ call' = [call EXCEPT ![w] = [pc |-> "idle", item |-> NoItem, cur |-> NoItem]]
    /\ UNCHANGED ptr

Writer(w) == Enter(w) \/ Load(w) \/ CompareAndSwap(w) \/ Return(w)

HolderNext == \E w \in Writers : Writer(w)

HolderSpec == HolderInit /\ [][HolderNext]_holderVars

-----------------------------------------------------------------------------
\* Every variable has its type.
HolderTypeOK ==
    /\ ptr \in ItemOrNil
    /\ call \in [Writers -> [pc : {"idle", "load", "cas", "done"},
                             item : ItemOrNil, cur : ItemOrNil]]
    /\ \A w \in Writers : call[w].pc # "idle" => call[w].item \in Items

\* A call that returns has left the holder at least as new as its item, also
\* when another writer won the race; and a swap that can still succeed would
\* store something newer.  With it the loop needs no lock.
StoredOrNewer ==
    \A w \in Writers :
      /\ call[w].pc = "done" => ptr # NoItem /\ Version[ptr] >= Version[call[w].item]
      /\ call[w].pc = "cas" => ~NotNewer(call[w].item, call[w].cur)

\* The gateway never goes back: what StoreIfNewer holds only gets newer.
Monotone ==
    [][ptr' # ptr => ptr' # NoItem /\ (ptr = NoItem \/ Version[ptr'] > Version[ptr])]_holderVars

\* The loop implements an atomic store of the newer item.
Newest == INSTANCE NewestRegister WITH held <- ptr
AtomicStore == Newest!Spec
=============================================================================
