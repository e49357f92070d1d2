------------------------------ MODULE Inflight ------------------------------
(***************************************************************************)
(* InflightTracker (services/routing/inflight.go) for one worker id, at    *)
(* the grain of its atomic operations.  The sync.Map entry of the worker   *)
(* is created by whichever goroutine stores its counter first; a goroutine *)
(* that loses that race drops the counter it allocated.  Counting up and   *)
(* down are load / compare-and-swap loops, and counting down clamps at     *)
(* zero with a plain store.                                                *)
(*                                                                         *)
(* A goroutine calls TryTrack and, when it got a slot, later calls the     *)
(* release function once (defer done() in the handlers; sync.Once makes    *)
(* further calls do nothing).                                              *)
(***************************************************************************)
EXTENDS Integers, FiniteSets

CONSTANTS
  Procs,   \* goroutines; also names the counter each may allocate
  Limit,   \* admission limit
  None     \* no counter

(* NewHandler replaces a limit below one by four. *)
ASSUME InflightAssumption ==
  /\ IsFiniteSet(Procs)
  /\ Limit \in Nat \ {0}
  /\ None \notin Procs

VARIABLES
  entry,    \* the counter stored in the map for the worker, or None
  val,      \* the value of each goroutine's counter, stored or not
  at,       \* where each goroutine is
  counter,  \* the counter it works on
  seen      \* the value it loaded last

trackerVars == <<entry, val, at, counter, seen>>

Locations == {"idle", "create", "load", "cas", "held", "decLoad",
              "decWrite"}

TrackerTypeOK ==
  /\ entry \in Procs \cup {None}
  /\ val \in [Procs -> 0..Limit]
  /\ at \in [Procs -> Locations]
  /\ counter \in [Procs -> Procs \cup {None}]
  /\ seen \in [Procs -> 0..Limit]

TrackerInit ==
  /\ entry = None
  /\ val = [p \in Procs |-> 0]
  /\ at = [p \in Procs |-> "idle"]
  /\ counter = [p \in Procs |-> None]
  /\ seen = [p \in Procs |-> 0]

Goto(p, l) == at' = [at EXCEPT ![p] = l]

(* The goroutine is done with TryTrack or with the release function. *)
Leave(p) ==
  /\ Goto(p, "idle")
  /\ counter' = [counter EXCEPT ![p] = None]
  /\ seen' = [seen EXCEPT ![p] = 0]

(* TryTrack begins with counter(): m.Load finds the entry, or it does not. *)
LookUp(p) ==
  /\ at[p] = "idle"
  /\ IF entry = None
       THEN Goto(p, "create") /\ UNCHANGED counter
       ELSE Goto(p, "load") /\ counter' = [counter EXCEPT ![p] = entry]
  /\ UNCHANGED <<entry, val, seen>>

(* m.LoadOrStore with a new counter: the first one stored is everyone's. *)
LoadOrStore(p) ==
  /\ at[p] = "create"
  /\ entry' = IF entry = None THEN p ELSE entry
  /\ counter' = [counter EXCEPT ![p] = entry']
  /\ Goto(p, "load")
  /\ UNCHANGED <<val, seen>>

(* c.Load in TryTrack; at the limit there is no slot. *)
IncLoad(p) ==
  /\ at[p] = "load"
  /\ IF val[counter[p]] >= Limit
       THEN Leave(p)
       ELSE /\ seen' = [seen EXCEPT ![p] = val[counter[p]]]
            /\ Goto(p, "cas")
            /\ UNCHANGED counter
  /\ UNCHANGED <<entry, val>>

(* Mutant: a plain store instead of the compare-and-swap. *)
StoreIncremented(p) ==
  /\ at[p] = "cas"
  /\ val' = [val EXCEPT ![counter[p]] = seen[p] + 1]
  /\ Goto(p, "held")
  /\ UNCHANGED <<entry, counter, seen>>

(* c.CompareAndSwap(cur, cur+1): take the slot or load again. *)
IncWrite(p) ==
  /\ at[p] = "cas"
  /\ IF val[counter[p]] = seen[p]
       THEN /\ val' = [val EXCEPT ![counter[p]] = seen[p] + 1]
            /\ Goto(p, "held")
       ELSE Goto(p, "load") /\ UNCHANGED val
  /\ UNCHANGED <<entry, counter, seen>>

(* The release function: Dec looks the counter up again. *)
Done(p) ==
  /\ at[p] = "held"
  /\ counter' = [counter EXCEPT ![p] = entry]
  /\ Goto(p, "decLoad")
  /\ UNCHANGED <<entry, val, seen>>

DecLoad(p) ==
  /\ at[p] = "decLoad"
  /\ seen' = [seen EXCEPT ![p] = val[counter[p]]]
  /\ Goto(p, "decWrite")
  /\ UNCHANGED <<entry, val, counter>>

(* c.Store(0) when the loaded value was not positive, else                 *)
(* c.CompareAndSwap(cur, cur-1) or load again.                             *)
DecWrite(p) ==
  /\ at[p] = "decWrite"
  /\ IF seen[p] <= 0 \/ val[counter[p]] = seen[p]
       THEN /\ val' = [val EXCEPT ![counter[p]] =
                         IF seen[p] <= 0 THEN 0 ELSE seen[p] - 1]
            /\ Leave(p)
       ELSE Goto(p, "decLoad") /\ UNCHANGED <<val, counter, seen>>
  /\ UNCHANGED entry

Step(p) ==
  \/ LookUp(p) \/ LoadOrStore(p) \/ IncLoad(p) \/ IncWrite(p)
  \/ Done(p) \/ DecLoad(p) \/ DecWrite(p)

TrackerNext == \E p \in Procs : Step(p)

TrackerSpec == TrackerInit /\ [][TrackerNext]_trackerVars
-----------------------------------------------------------------------------
(* Properties *)

(* The goroutines between taking a slot and giving it back. *)
Holding == {p \in Procs : at[p] \in {"held", "decLoad", "decWrite"}}

(* The value Get reads: no entry counts as zero. *)
Get == IF entry = None THEN 0 ELSE val[entry]

(* The tracker is linearizable: seen through Get it behaves as a counter   *)
(* that is checked and changed in one step, although it is created, read   *)
(* and written in separate ones.  TryTrack takes effect at its successful  *)
(* compare-and-swap and Dec at its own, and Dec's clamp, a plain store     *)
(* that would wipe out a concurrent TryTrack, never changes the value.     *)
Abstract == INSTANCE SlotCounter WITH count <- Get, holders <- Holding

Linearizable == Abstract!Spec

(* No update is lost: the stored counter is the number of goroutines that  *)
(* hold a slot, counters that lost the creation race stay at zero, and     *)
(* every goroutine works on the stored one.                                *)
NoLostUpdate ==
  /\ Get = Cardinality(Holding)
  /\ Cardinality(Holding) <= Limit
  /\ \A p \in Procs : at[p] \notin {"idle", "create"} => counter[p] = entry
  /\ \A p \in Procs : p # entry => val[p] = 0

(* What makes NoLostUpdate inductive: a goroutine about to count up has     *)
(* seen a free slot, and one about to count down has seen its own.          *)
LoadedInv ==
  \A p \in Procs :
    /\ at[p] \notin {"idle", "create"} => entry # None
    /\ at[p] = "cas" => seen[p] < Limit
    /\ at[p] = "decWrite" => seen[p] > 0
=============================================================================
