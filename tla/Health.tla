------------------------------- MODULE Health -------------------------------
(***************************************************************************)
(* From a worker process to the routing snapshot: the worker registers and *)
(* writes heartbeats that expire (cmd/forge-worker, worker/heartbeat.go),  *)
(* the registry keeps its row (services/registry), the health service      *)
(* follows the heartbeats by keyspace events and by periodic scans         *)
(* (services/health), and the publisher joins rows and heartbeats          *)
(* (services/routing/publisher.go).                                        *)
(*                                                                         *)
(* A heartbeat is abstracted to its ready flag.  Everything that goes wrong *)
(* on the way (a lost call or event, a late beat, an early expiry, a crash *)
(* of the control plane) takes one of MaxFaults.                           *)
(***************************************************************************)
EXTENDS Faults, Sequences

CONSTANTS Workers,
          MaxAttempts,  \* registration attempts before the worker exits
          MaxEvents,    \* keyspace events that wait for the listener
          MaxStarts,    \* bound on starts of worker processes
          MaxFlips      \* bound on changes of a model runtime's readiness

ASSUME HealthAssumption ==
    /\ MaxAttempts \in Nat \ {0} /\ MaxEvents \in Nat \ {0}
    /\ MaxStarts \in Nat /\ MaxFlips \in Nat

VARIABLES
  runtime,   \* workers whose model runtime answers
  proc,      \* the worker process: "off", "registering", "up" or "stopping"
  attempts,  \* its failed registrations
  ready,     \* HeartbeatWriter.ready
  beat,      \* the SET on its way to Redis
  row,       \* workers with a row in Postgres
  key,       \* the heartbeat keys in Redis
  events,    \* keyspace events on their way to the listener
  listener,  \* listenKeyevents
  scan,      \* reconcileOnce
  live,      \* Snapshot.workers of the health service
  tick,      \* the publisher: the rows it has listed, if it has
  holder,    \* what the gateway reads: the view of each worker
  starts, flips

redis == <<key, events>>
worker == <<proc, attempts, ready, beat, starts>>
control == <<listener, scan, live, tick, holder>>
vars == <<runtime, row, faults, flips, redis, worker, control>>

None == "none"
Flag(b) == IF b THEN "ready" ELSE "notReady"

IdleListener == [pc |-> "idle", of |-> CHOOSE w \in Workers : TRUE, got |-> None]
IdleScan == [pc |-> "idle", todo |-> {}, found |-> [w \in Workers |-> None]]
IdleTick == [pc |-> "idle", rows |-> {}]
NoView == [w \in Workers |-> None]

Init ==
    /\ runtime \in SUBSET Workers
    /\ proc = [w \in Workers |-> "off"]
    /\ attempts = [w \in Workers |-> 0]
    /\ ready = [w \in Workers |-> FALSE]
    /\ beat = [w \in Workers |-> None]
    /\ row = {}
    /\ key = NoView
    /\ events = <<>>
    /\ listener = IdleListener /\ scan = IdleScan
    /\ live = NoView
    /\ tick = IdleTick /\ holder = NoView
    /\ faults = 0 /\ starts = 0 /\ flips = 0

-----------------------------------------------------------------------------
\* The worker process.

\* Nothing of the process's memory outlives it.
Ends(w) ==
    /\ proc' = [proc EXCEPT ![w] = "off"]
    /\ attempts' = [attempts EXCEPT ![w] = 0]
    /\ ready' = [ready EXCEPT ![w] = FALSE]

\* main: the runtime is probed once before the registration.
Start(w) ==
    /\ proc[w] = "off" /\ starts < MaxStarts
    /\ starts' = starts + 1
    /\ proc' = [proc EXCEPT ![w] = "registering"]
    /\ UNCHANGED attempts
    /\ ready' = [ready EXCEPT ![w] = w \in runtime]
    /\ UNCHANGED <<runtime, beat, row, faults, flips, redis, control>>

\* Register: one transaction writes the row and its models.  A call that fails,
\* at worst after the commit, is repeated; the last failure ends the process.
Upsert(w) == row' = row \cup {w}

\* What the registry has done when the worker sees its call fail: it may have
\* refused or failed, or committed with the answer lost.
Served(w) == Upsert(w) \/ UNCHANGED row

Register(w) ==
    /\ proc[w] = "registering"
    /\ \/ /\ Upsert(w)
          /\ proc' = [proc EXCEPT ![w] = "up"]
          /\ attempts' = [attempts EXCEPT ![w] = 0]
          /\ UNCHANGED <<ready, faults>>
       \/ /\ Fault
          /\ Served(w)
          /\ \/ attempts[w] + 1 = MaxAttempts /\ Ends(w)
             \/ /\ attempts[w] + 1 < MaxAttempts
                /\ attempts' = [attempts EXCEPT ![w] = @ + 1]
                /\ UNCHANGED <<proc, ready>>
    /\ UNCHANGED <<runtime, beat, starts, flips, redis, control>>

\* Mutant: a worker that was not ready at first never becomes ready.
RefreshReadyDown(w) ==
    /\ proc[w] = "up"
    /\ ready' = [ready EXCEPT ![w] = @ /\ w \in runtime]
    /\ UNCHANGED <<runtime, proc, attempts, beat, starts, row, faults, flips, redis, control>>

\* refreshReady: the runtime is probed again.
RefreshReady(w) ==
    /\ proc[w] = "up"
    /\ ready' = [ready EXCEPT ![w] = w \in runtime]
    /\ UNCHANGED <<runtime, proc, attempts, beat, starts, row, faults, flips, redis, control>>

\* BeatOnce: the payload is taken and the SET sent.
BeatOnce(w) ==
    /\ proc[w] = "up" /\ beat[w] = None
    /\ beat' = [beat EXCEPT ![w] = Flag(ready[w])]
    /\ UNCHANGED <<runtime, proc, attempts, ready, starts, row, faults, flips, redis, control>>

\* SIGTERM: the heartbeat loop ends, and main deletes the key.
Stop(w) ==
    /\ proc[w] = "up"
    /\ proc' = [proc EXCEPT ![w] = "stopping"]
    /\ UNCHANGED <<runtime, attempts, ready, beat, starts, row, faults, flips, redis, control>>

\* The process is killed, at any point.
Crash(w) ==
    /\ proc[w] # "off"
    /\ Ends(w)
    /\ UNCHANGED <<runtime, beat, starts, row, faults, flips, redis, control>>

\* The model runtime behind the worker comes and goes.
Flip(w) ==
    /\ flips < MaxFlips
    /\ flips' = flips + 1
    /\ runtime' = IF w \in runtime THEN runtime \ {w} ELSE runtime \cup {w}
    /\ UNCHANGED <<row, faults, redis, worker, control>>

-----------------------------------------------------------------------------
\* Redis.  An event is delivered unless the listener is not connected, or has
\* too many waiting.

Notify(kind, w) ==
    \/ /\ Len(events) < MaxEvents
       /\ events' = Append(events, [kind |-> kind, of |-> w])
       /\ UNCHANGED faults
    \/ UNCHANGED events /\ Fault
    \/ /\ Len(events) = MaxEvents
       /\ UNCHANGED <<events, faults>>

\* The SET arrives, also after the process has ended.
BeatArrives(w) ==
    /\ beat[w] # None
    /\ key' = [key EXCEPT ![w] = beat[w]]
    /\ beat' = [beat EXCEPT ![w] = None]
    /\ Notify("set", w)
    /\ UNCHANGED <<runtime, proc, attempts, ready, starts, row, flips, control>>

\* The SET of a process that runs fails; one that has ended just loses it.
BeatLost(w) ==
    /\ beat[w] # None
    /\ IF proc[w] = "up" THEN Fault ELSE UNCHANGED faults
    /\ beat' = [beat EXCEPT ![w] = None]
    /\ UNCHANGED <<runtime, proc, attempts, ready, starts, row, flips, redis, control>>

\* hb.Delete at shutdown, after which the process ends; the DEL may fail.
Delete(w) ==
    /\ proc[w] = "stopping"
    /\ Ends(w)
    /\ \/ /\ key[w] # None
          /\ key' = [key EXCEPT ![w] = None]
          /\ Notify("del", w)
       \/ /\ key[w] = None
          /\ UNCHANGED <<key, events, faults>>
       \/ Fault /\ UNCHANGED redis
    /\ UNCHANGED <<runtime, beat, starts, row, flips, control>>

\* The key expires; while the worker beats, only if its beats are held up.
Expire(w) ==
    /\ key[w] # None
    /\ proc[w] # "up"
    /\ key' = [key EXCEPT ![w] = None]
    /\ Notify("expired", w)
    /\ UNCHANGED <<runtime, row, flips, worker, control>>

ExpireEarly(w) ==
    /\ key[w] # None
    /\ proc[w] = "up"
    /\ Fault
    /\ key' = [key EXCEPT ![w] = None]
    /\ events' = IF Len(events) < MaxEvents
                 THEN Append(events, [kind |-> "expired", of |-> w]) ELSE events
    /\ UNCHANGED <<runtime, row, flips, worker, control>>

-----------------------------------------------------------------------------
\* The health service: its two goroutines write the same map.

\* Mutant: the scan adds what it found and removes nothing.
ReplaceMerges(found) ==
    live' = [w \in Workers |-> IF found[w] # None THEN found[w] ELSE live[w]]

Replace(found) == live' = found
Put(w, hb) == live' = [live EXCEPT ![w] = hb]
Remove(w) == live' = [live EXCEPT ![w] = None]

\* listenKeyevents: an expired or deleted key removes the worker; after a SET
\* the key is read again.
TakeEvent ==
    /\ listener.pc = "idle" /\ events # <<>>
    /\ events' = Tail(events)
    /\ \/ /\ Head(events).kind \in {"expired", "del"}
          /\ Remove(Head(events).of)
          /\ UNCHANGED listener
       \/ /\ Head(events).kind = "set"
          /\ listener' = [listener EXCEPT !.pc = "get", !.of = Head(events).of]
          /\ UNCHANGED live
    /\ UNCHANGED <<runtime, row, faults, flips, key, worker, scan, tick, holder>>

\* applySet: GET, and then the update of the map; an error gives up.
ApplySetGet ==
    /\ listener.pc = "get"
    /\ \/ /\ listener' = [listener EXCEPT !.pc = "put", !.got = key[listener.of]]
          /\ UNCHANGED faults
       \/ Fault /\ listener' = IdleListener
    /\ UNCHANGED <<runtime, row, flips, redis, worker, scan, live, tick, holder>>

ApplySetPut ==
    /\ listener.pc = "put"
    /\ IF listener.got = None THEN Remove(listener.of)
                              ELSE Put(listener.of, listener.got)
    /\ listener' = IdleListener
    /\ UNCHANGED <<runtime, row, faults, flips, redis, worker, scan, tick, holder>>

\* reconcileOnce: SCAN lists the keys, each is read by a GET of its own, and the
\* map is replaced; an error gives up without replacing it.
Scan ==
    /\ scan.pc = "idle"
    /\ scan' = [IdleScan EXCEPT !.pc = "read", !.todo = {w \in Workers : key[w] # None}]
    /\ UNCHANGED <<runtime, row, faults, flips, redis, worker, listener, live, tick, holder>>

ScanGet ==
    /\ scan.pc = "read"
    /\ \E w \in scan.todo :
         scan' = [scan EXCEPT !.todo = @ \ {w}, !.found[w] = key[w]]
    /\ UNCHANGED <<runtime, row, faults, flips, redis, worker, listener, live, tick, holder>>

ScanReplace ==
    /\ scan.pc = "read" /\ scan.todo = {}
    /\ Replace(scan.found)
    /\ scan' = IdleScan
    /\ UNCHANGED <<runtime, row, faults, flips, redis, worker, listener, tick, holder>>

ScanFails ==
    /\ scan.pc = "read"
    /\ Fault
    /\ scan' = IdleScan
    /\ UNCHANGED <<runtime, row, flips, redis, worker, listener, live, tick, holder>>

reconcileOnce == Scan \/ ScanGet \/ ScanReplace \/ ScanFails

-----------------------------------------------------------------------------
\* The publisher, in the process of the health service.

\* buildSnapshot lists the rows.
List ==
    /\ tick.pc = "idle"
    /\ tick' = [pc |-> "listed", rows |-> row]
    /\ UNCHANGED <<runtime, row, faults, flips, redis, worker, listener, scan, live, holder>>

\* A registered worker is healthy if it has a heartbeat, ready if that says so.
View(rows) == [w \in Workers |-> IF w \in rows THEN live[w] ELSE None]

\* The snapshot is built, published and stored; when the query or the PUBLISH
\* fails it is not stored either.
Publish ==
    /\ tick.pc = "listed"
    /\ tick' = IdleTick
    /\ \/ holder' = View(tick.rows) /\ UNCHANGED faults
       \/ Fault /\ UNCHANGED holder
    /\ UNCHANGED <<runtime, row, flips, redis, worker, listener, scan, live>>

\* The control plane restarts: it subscribes again, and Start scans before the
\* loops run.
Restart ==
    /\ Fault
    /\ events' = <<>>
    /\ listener' = IdleListener /\ scan' = IdleScan /\ tick' = IdleTick
    /\ live' = NoView /\ holder' = NoView
    /\ UNCHANGED <<runtime, row, flips, key, worker>>

Listen == TakeEvent \/ ApplySetGet \/ ApplySetPut
Tick == List \/ Publish

Next ==
    \/ \E w \in Workers :
         \/ Start(w) \/ Register(w) \/ RefreshReady(w) \/ BeatOnce(w)
         \/ Stop(w) \/ Crash(w) \/ Flip(w)
         \/ BeatArrives(w) \/ BeatLost(w) \/ Delete(w) \/ Expire(w) \/ ExpireEarly(w)
    \/ Listen \/ reconcileOnce \/ Tick \/ Restart

Spec == Init /\ [][Next]_vars

\* Tickers fire, goroutines run, calls end and keys expire.  Nothing makes a
\* process start, stop or crash, or a runtime change.
Fairness ==
    /\ \A w \in Workers :
         /\ WF_vars(Register(w)) /\ WF_vars(RefreshReady(w)) /\ WF_vars(BeatOnce(w))
         /\ WF_vars(BeatArrives(w) \/ BeatLost(w)) /\ WF_vars(Delete(w)) /\ WF_vars(Expire(w))
    /\ WF_vars(Listen) /\ WF_vars(reconcileOnce) /\ WF_vars(Tick)

LiveSpec == Spec /\ Fairness

-----------------------------------------------------------------------------
\* Properties.

\* Dead nodes leave the live set: a worker whose process has ended for good is
\* in the end neither live nor routed to, whatever events were lost, and even if
\* a late beat or a scan begun before the expiry put it back.
DeadLeave ==
    \A w \in Workers :
      <>[](proc[w] = "off") => <>[](live[w] = None /\ holder[w] = None)

\* A worker that stays up on a runtime that answers is in the end routed to, and
\* one whose runtime does not answer is not, whatever was lost or late before
\* (worker/heartbeat.go, deriver.go and publisher.go together).
RoutedFollowsReady ==
    \A w \in Workers :
      /\ <>[](proc[w] = "up" /\ w \in runtime) => <>[](holder[w] = "ready")
      /\ <>[](proc[w] = "up" /\ w \notin runtime) => <>[](holder[w] # "ready")
=============================================================================
