----------------------------- MODULE Providers -----------------------------
(***************************************************************************)
(* Virtual workers: how an OpenAI-compatible provider becomes a worker a   *)
(* request can reach.  Two writers fill the tables row by row: the command *)
(* forge-catalog provider-upsert (cmd/forge-catalog/main.go) and the fleet *)
(* lifecycle when a pod is ready (services/fleet/lifecycle.go, register).  *)
(* The registry (services/provider/registry.go) reads the tables back with *)
(* two queries, the publisher copies its workers into the routing          *)
(* snapshot, and the gateway (services/gateway/provider_dial.go) looks the *)
(* chosen worker up again when it dials.                                   *)
(***************************************************************************)
EXTENDS Faults, FiniteSets

CONSTANTS
    Provs,         \* provider IDs forge-catalog writes
    Pods,          \* provider IDs register writes, one per pod
    Bases,         \* base models
    PodAdapters    \* adapters of the fleet's model identities, "" for none

VARIABLES
    providers,     \* provider ID -> "none", "enabled" or "disabled"
    maps,          \* rows of provider_model_map
    assigned,      \* catalog assignments of provider workers
    writer,        \* provider ID -> progress of the writer of its rows
    reload,        \* progress of Registry.Reload
    workers,       \* Registry.workers
    byID,          \* Registry.byID
    snapshot,      \* the provider workers of the published snapshot
    lost,          \* workers a dial found no backend for
    off            \* history: the providers that were ever disabled

providerVars == <<providers, maps, assigned, writer, reload, workers, byID, snapshot, lost, off, faults>>
tables == <<providers, maps, assigned, writer, off>>
registry == <<reload, workers, byID>>

All == Provs \cup Pods

\* The empty string: no adapter, or no model yet.
Unset == ""

\* fmt.Sprintf("provider:%s:%s", id, base), with "#adapter" if there is one.
WorkerId(p, b, a) == [prov |-> p, base |-> b, adapter |-> a]

Idle == [at |-> "idle", provs |-> {}, maps |-> {}]

ProvidersInit ==
    /\ providers = [p \in All |-> "none"]
    /\ maps = {} /\ assigned = {}
    /\ writer = [p \in All |-> [at |-> "new", base |-> Unset, adapter |-> Unset]]
    /\ reload = Idle /\ workers = {} /\ byID = {}
    /\ snapshot = {} /\ lost = {} /\ off = {} /\ faults = 0

-----------------------------------------------------------------------------
(* The writers. *)

\* The first statement: the provider's row, enabled.  A pod's identity may
\* have an adapter; the command's models never do.
SaveProvider(p) ==
    /\ writer[p].at = "new"
    /\ providers' = [providers EXCEPT ![p] = "enabled"]
    /\ \E b \in Bases, a \in IF p \in Pods THEN PodAdapters ELSE {Unset} :
           writer' = [writer EXCEPT ![p] = [at |-> "map", base |-> b, adapter |-> a]]
    /\ UNCHANGED <<maps, assigned, off, registry, snapshot, lost, faults>>

SaveMap(p) ==
    /\ writer[p].at = "map"
    /\ maps' = maps \cup {WorkerId(p, writer[p].base, writer[p].adapter)}
    /\ writer' = [writer EXCEPT ![p].at = "assign"]
    /\ UNCHANGED <<providers, assigned, off, registry, snapshot, lost, faults>>

\* The command goes on to its next model, if it was given one.
Further(p) ==
    {[writer[p] EXCEPT !.at = "done"]}
      \cup {[at |-> "map", base |-> b, adapter |-> Unset] :
              b \in IF p \in Provs THEN Bases \ {writer[p].base} ELSE {}}

\* The worker a name is assigned to is built from the provider and the base
\* model; the name (base#adapter) keeps the adapter.
AssignProvider(p) ==
    /\ writer[p].at = "assign"
    /\ assigned' = assigned \cup {[base |-> writer[p].base, adapter |-> writer[p].adapter,
                                   worker |-> WorkerId(p, writer[p].base, Unset)]}
    /\ \E next \in Further(p) : writer' = [writer EXCEPT ![p] = next]
    /\ UNCHANGED <<providers, maps, off, registry, snapshot, lost, faults>>

\* Defect: a statement that fails does not stop the command.
WriteFailsOn(p) ==
    /\ writer[p].at \in {"map", "assign"}
    /\ Fault
    /\ writer' = [writer EXCEPT ![p].at = IF @ = "map" THEN "assign" ELSE "done"]
    /\ UNCHANGED <<providers, maps, assigned, off, registry, snapshot, lost>>

\* A statement fails or the process dies: the command exits, register returns
\* the error; either may be run again from its first statement.
WriteFails(p) ==
    /\ writer[p].at \in {"map", "assign"}
    /\ Fault
    /\ writer' = [writer EXCEPT ![p].at = "new"]
    /\ UNCHANGED <<providers, maps, assigned, off, registry, snapshot, lost>>

\* An operator disables a provider.
Disable(p) ==
    /\ providers[p] = "enabled"
    /\ Fault
    /\ providers' = [providers EXCEPT ![p] = "disabled"]
    /\ off' = off \cup {p}
    /\ UNCHANGED <<maps, assigned, writer, registry, snapshot, lost>>

-----------------------------------------------------------------------------
(* The registry. *)

ReadProviders ==
    /\ reload.at = "idle"
    /\ reload' = [at |-> "maps", provs |-> {p \in All : providers[p] = "enabled"}, maps |-> {}]
    /\ UNCHANGED <<tables, workers, byID, snapshot, lost, faults>>

ReadMaps ==
    /\ reload.at = "maps"
    /\ reload' = [reload EXCEPT !.at = "swap", !.maps = maps]
    /\ UNCHANGED <<tables, workers, byID, snapshot, lost, faults>>

\* Defect: after a failed query the registry is left empty.
ReadFailsClears ==
    /\ reload.at = "maps"
    /\ Fault
    /\ reload' = Idle /\ workers' = {} /\ byID' = {}
    /\ UNCHANGED <<tables, snapshot, lost>>

\* A query fails: Reload returns and the registry keeps what it has.
ReadFails ==
    /\ reload.at = "maps"
    /\ Fault
    /\ reload' = Idle
    /\ UNCHANGED <<tables, workers, byID, snapshot, lost>>

\* Defect: the worker's ID leaves out the model.
BuiltBare == {WorkerId(m.prov, Unset, m.adapter) : m \in {n \in reload.maps : n.prov \in reload.provs}}

\* One virtual worker per mapping of an enabled provider.
Built == {WorkerId(m.prov, m.base, m.adapter) : m \in {n \in reload.maps : n.prov \in reload.provs}}

\* Both maps are replaced under the lock.
Swap ==
    /\ reload.at = "swap"
    /\ workers' = Built /\ byID' = reload.provs
    /\ reload' = Idle
    /\ UNCHANGED <<tables, snapshot, lost, faults>>

-----------------------------------------------------------------------------
(* Routing. *)

\* buildSnapshot appends SnapshotViews.
Publish ==
    /\ snapshot' = workers
    /\ UNCHANGED <<tables, registry, lost, faults>>

\* Backend by worker, else by endpoint ("provider://" and the provider ID).
HasBackend(w) == w \in workers \/ w.prov \in byID

\* A request that chose w from the snapshot dials it.
Dial(w) ==
    /\ w \in snapshot
    /\ lost' = IF HasBackend(w) THEN lost \ {w} ELSE lost \cup {w}
    /\ UNCHANGED <<tables, registry, snapshot, faults>>

ProvidersNext ==
    \/ \E p \in All : SaveProvider(p) \/ SaveMap(p) \/ AssignProvider(p) \/ WriteFails(p) \/ Disable(p)
    \/ ReadProviders \/ ReadMaps \/ ReadFails \/ Swap \/ Publish
    \/ \E w \in snapshot : Dial(w)

ProvidersSpec == ProvidersInit /\ [][ProvidersNext]_providerVars

\* The reload and publish tickers run on, and the store answers in the end
\* (faults are bounded).
ProvidersLiveSpec ==
    /\ ProvidersSpec
    /\ WF_providerVars(ReadProviders) /\ WF_providerVars(ReadMaps)
    /\ WF_providerVars(Swap) /\ WF_providerVars(Publish)

-----------------------------------------------------------------------------
\* README.md: "Named models map to assignments": wherever the writers were
\* interrupted, a worker a name is assigned to is one the registry builds
\* from a row of provider_model_map (main.go, upsertProvider; lifecycle.go,
\* register).
AssignmentsResolve == \A x \in assigned : x.worker \in maps

\* A worker chosen from a snapshot is dialled, however stale the snapshot,
\* as long as its provider was never disabled (provider_dial.go, the fallback
\* to the endpoint; registry.go, Reload on failure).
DialsUnlessDisabled == \A w \in lost : w.prov \in off

\* An assigned model of a provider that stays enabled comes to be, and stays,
\* among the workers requests are routed to, once operators change nothing more
\* (registry.go, Reload with its two queries; publisher.go).
ProviderIsRouted ==
    \A p \in All : \A b \in Bases :
        LET w == WorkerId(p, b, Unset) IN
        <>[]((\E x \in assigned : x.worker = w) /\ providers[p] = "enabled"
                => w \in snapshot)
=============================================================================
