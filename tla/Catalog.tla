------------------------------- MODULE Catalog -------------------------------
(***************************************************************************)
(* The model catalog (services/catalog): tables of models and of the       *)
(* workers assigned to them, filled once from the registered workers,      *)
(* extended by forge-catalog assign and by the fleet's lifecycle, and read *)
(* by Rebuild into the snapshot that the gateway resolves names with.      *)
(*                                                                         *)
(* A statement on the database is a step.  A model is its name; its id is  *)
(* a number drawn when a row for it is prepared.  The tables' unique index *)
(* on the name and the foreign key of the assignments are the migrations'. *)
(***************************************************************************)
EXTENDS Faults, FiniteSets

CONSTANTS Names,      \* names of models
          Workers,    \* workers, which register while the system runs
          Serves,     \* Serves[w]: the models of a worker, by name
          Rebuilds,   \* goroutines that run Rebuild for one holder
          Seeders,    \* runs of forge-catalog seed
          Assigners,  \* runs of ensureCatalogAssignment or forge-catalog assign
          Together,   \* which of these run in the same behaviour
          Wants,      \* Wants[a]: the name and the worker of such a run
          MaxIds      \* bound on ids drawn

\* A worker's models and an assignment are of the names there are, and no task
\* both seeds and assigns.
ASSUME CatalogAssumption ==
    /\ Serves \in [Workers -> SUBSET Names]
    /\ Wants \in [Assigners -> Names \X Workers]
    /\ (Rebuilds \cup Seeders) \cap Assigners = {}

VARIABLES servable,   \* servable_models: worker and model
          models,     \* catalog_models: the id of each name, 0 for no row
          assigns,    \* catalog_model_assignments: model id and worker
          ids,        \* ids drawn so far
          task,       \* each goroutine's or command's progress
          holder      \* SnapshotHolder: ByName and WorkersByModel

vars == <<servable, models, assigns, ids, task, holder, faults>>

Seeding == Rebuilds \cup Seeders
Tasks == Seeding \cup Assigners
NoModels == [n \in Names |-> 0]

\* rows: what a seed has still to do, seeded: what it has done.  row: the row in
\* hand, id: the model id in hand.  since: what the catalog resolved when a
\* Rebuild began.
IdleTask == [pc |-> "idle", rows |-> {}, seeded |-> {}, row |-> <<>>, id |-> 0,
             models |-> NoModels, assigns |-> {}, since |-> {}]

Init ==
    /\ servable = {}
    /\ models = NoModels
    /\ assigns = {}
    /\ ids = 0
    /\ \E on \in Together :
         task = [t \in Tasks |-> IF t \in on THEN IdleTask ELSE [IdleTask EXCEPT !.pc = "off"]]
    /\ holder = [models |-> NoModels, assigns |-> {}]
    /\ faults = 0

Resolves(m, as) == {p \in Names \X Workers : m[p[1]] # 0 /\ <<m[p[1]], p[2]>> \in as}

Set(t, f) == task' = [task EXCEPT ![t] = f]
DbSame == UNCHANGED <<servable, models, assigns, ids, holder>>

\* A worker registers its models.
Register(w) ==
    /\ servable' = servable \cup {<<w, n>> : n \in Serves[w]}
    /\ servable' # servable
    /\ UNCHANGED <<models, assigns, ids, task, holder, faults>>

-----------------------------------------------------------------------------
\* Mutant: the id of an existing row is replaced.
UpsertModelReplaces(n) ==
    /\ ids < MaxIds
    /\ ids' = ids + 1
    /\ models' = [models EXCEPT ![n] = ids + 1]

\* UpsertModel: a row with a new id, unless the name has one, which stays.
UpsertModel(n) ==
    /\ ids < MaxIds
    /\ ids' = ids + 1
    /\ models' = [models EXCEPT ![n] = IF @ = 0 THEN ids + 1 ELSE @]

\* The foreign key of an assignment.
Exists(id) == \E n \in Names : models[n] = id

\* UpsertAssignment: one that is there already is left alone.
UpsertAssignment(id, w) ==
    /\ Exists(id)
    /\ assigns' = assigns \cup {<<id, w>>}

\* After a seed a Rebuild goes on to the lists; the command ends.
AfterSeed(t) == IF t \in Rebuilds THEN "models" ELSE "done"
SeedFailed(t) == Set(t, [task[t] EXCEPT !.pc = IF t \in Rebuilds THEN "models" ELSE "failed",
                                        !.rows = {}, !.seeded = {}])

\* Rebuild begins, by the ticker or by a message; or forge-catalog seed does.
Begin(t) ==
    /\ task[t].pc = "idle"
    /\ Set(t, [IdleTask EXCEPT !.pc = "count", !.since = Resolves(models, assigns)])
    /\ DbSame /\ UNCHANGED faults

\* SeedFromWorkers, first: any model at all ends the seed.
Count(t) ==
    /\ task[t].pc = "count"
    /\ \/ /\ Set(t, [task[t] EXCEPT !.pc = IF models = NoModels THEN "rows" ELSE AfterSeed(t)])
          /\ UNCHANGED faults
       \/ Fault /\ SeedFailed(t)
    /\ DbSame

Rows(t) ==
    /\ task[t].pc = "rows"
    /\ \/ Set(t, [task[t] EXCEPT !.pc = "next", !.rows = servable]) /\ UNCHANGED faults
       \/ Fault /\ SeedFailed(t)
    /\ DbSame

\* Mutant: the row's own id is used, not the one stored under the name.
SeedModelOwnId(t) ==
    /\ task[t].pc = "next" /\ task[t].rows # {}
    /\ \E r \in task[t].rows :
         /\ UpsertModel(r[2])
         /\ Set(t, [task[t] EXCEPT !.pc = "assign", !.row = r, !.id = ids + 1])
    /\ UNCHANGED <<servable, assigns, holder, faults>>

\* For each row: the model,
SeedModel(t) ==
    /\ task[t].pc = "next" /\ task[t].rows # {}
    /\ \E r \in task[t].rows :
         \/ /\ UpsertModel(r[2])
            /\ Set(t, [task[t] EXCEPT !.pc = "stored", !.row = r])
            /\ UNCHANGED faults
         \/ /\ Fault /\ SeedFailed(t)
            /\ UNCHANGED <<models, ids>>
    /\ UNCHANGED <<servable, assigns, holder>>

\* the id stored under its name,
SeedStored(t) ==
    /\ task[t].pc = "stored"
    /\ \/ /\ Set(t, [task[t] EXCEPT !.pc = "assign", !.id = models[task[t].row[2]]])
          /\ UNCHANGED faults
       \/ Fault /\ SeedFailed(t)
    /\ DbSame

\* and the assignment.
SeedAssign(t) ==
    /\ task[t].pc = "assign"
    /\ \/ /\ UpsertAssignment(task[t].id, task[t].row[1])
          /\ Set(t, [task[t] EXCEPT !.pc = "next", !.rows = @ \ {task[t].row},
                                    !.seeded = @ \cup {task[t].row}])
          /\ UNCHANGED faults
       \/ /\ IF Exists(task[t].id) THEN Fault ELSE UNCHANGED faults
          /\ SeedFailed(t)
          /\ UNCHANGED assigns
    /\ UNCHANGED <<servable, models, ids, holder>>

SeedEnds(t) ==
    /\ task[t].pc = "next" /\ task[t].rows = {}
    /\ Set(t, [task[t] EXCEPT !.pc = AfterSeed(t)])
    /\ DbSame /\ UNCHANGED faults

\* Rebuild, then: both lists, and the holder; an error leaves the holder.
ListModels(r) ==
    /\ task[r].pc = "models" /\ r \in Rebuilds
    /\ \/ Set(r, [task[r] EXCEPT !.pc = "assigns", !.models = models]) /\ UNCHANGED faults
       \/ Fault /\ Set(r, IdleTask)
    /\ DbSame

\* Mutant: an error of the second list is only logged.
ListAssignmentsLogged(r) ==
    /\ task[r].pc = "assigns"
    /\ \/ Set(r, [task[r] EXCEPT !.pc = "store", !.assigns = assigns]) /\ UNCHANGED faults
       \/ Fault /\ Set(r, [task[r] EXCEPT !.pc = "store"])
    /\ DbSame

ListAssignments(r) ==
    /\ task[r].pc = "assigns"
    /\ \/ Set(r, [task[r] EXCEPT !.pc = "store", !.assigns = assigns]) /\ UNCHANGED faults
       \/ Fault /\ Set(r, IdleTask)
    /\ DbSame

Store(r) ==
    /\ task[r].pc = "store"
    /\ holder' = [models |-> task[r].models, assigns |-> task[r].assigns]
    /\ Set(r, IdleTask)
    /\ UNCHANGED <<servable, models, assigns, ids, faults>>

-----------------------------------------------------------------------------
\* ensureCatalogAssignment, and assign of forge-catalog: look the name up,
Look(a) ==
    /\ task[a].pc = "idle"
    /\ LET id == models[Wants[a][1]]
       IN  \/ /\ Set(a, [IdleTask EXCEPT !.pc = IF id = 0 THEN "create" ELSE "assign", !.id = id])
              /\ UNCHANGED faults
           \/ Fault /\ Set(a, [IdleTask EXCEPT !.pc = "failed"])
    /\ DbSame

\* create it, and go on with the id that was drawn for it here,
Create(a) ==
    /\ task[a].pc = "create" /\ a \in Assigners
    /\ \/ /\ UpsertModel(Wants[a][1])
          /\ Set(a, [task[a] EXCEPT !.pc = "assign", !.id = ids + 1])
          /\ UNCHANGED faults
       \/ /\ Fault /\ Set(a, [task[a] EXCEPT !.pc = "failed"])
          /\ UNCHANGED <<models, ids>>
    /\ UNCHANGED <<servable, assigns, holder>>

\* Mutant: no foreign key, so that any id is accepted.
AssignAny(a) ==
    /\ task[a].pc = "assign" /\ a \in Assigners
    /\ assigns' = assigns \cup {<<task[a].id, Wants[a][2]>>}
    /\ Set(a, [task[a] EXCEPT !.pc = "done"])
    /\ UNCHANGED <<servable, models, ids, holder, faults>>

\* and assign: an id that was not stored is refused.
Assign(a) ==
    /\ task[a].pc = "assign" /\ a \in Assigners
    /\ \/ /\ UpsertAssignment(task[a].id, Wants[a][2])
          /\ Set(a, [task[a] EXCEPT !.pc = "done"])
          /\ UNCHANGED faults
       \/ /\ IF Exists(task[a].id) THEN Fault ELSE UNCHANGED faults
          /\ Set(a, [task[a] EXCEPT !.pc = "failed"])
          /\ UNCHANGED assigns
    /\ UNCHANGED <<servable, models, ids, holder>>

-----------------------------------------------------------------------------
SeedFromWorkers(t) ==
    Count(t) \/ Rows(t) \/ SeedModel(t) \/ SeedStored(t) \/ (t \in Seeding /\ SeedAssign(t)) \/ SeedEnds(t)

Rebuild(r) == Begin(r) \/ SeedFromWorkers(r) \/ ListModels(r) \/ ListAssignments(r) \/ Store(r)

\* The commands seed and assign of forge-catalog; the latter takes the steps of
\* ensureCatalogAssignment.
seed(t) == Begin(t) \/ SeedFromWorkers(t)
assign(a) == Look(a) \/ Create(a) \/ Assign(a)

Next ==
    \/ \E w \in Workers : Register(w)
    \/ \E r \in Rebuilds : Rebuild(r)
    \/ \E t \in Seeders : seed(t)
    \/ \E a \in Assigners : assign(a)

Spec == Init /\ [][Next]_vars

\* The ticker and the subscription keep running; a command need not be run.
LiveSpec == Spec /\ \A r \in Rebuilds : WF_vars(Rebuild(r))

-----------------------------------------------------------------------------
\* Seeds of several control planes and of the command line, at the same time and
\* next to assignments, do not make each other fail: the foreign key holds for
\* every assignment a seed is about to make, whoever stored the model.
SeedsDoNotCollide ==
    \A t \in Seeding : task[t].pc = "assign" => Exists(task[t].id)

\* A seed that went through has assigned every row it read, whoever created the
\* models: its rows resolve.
SeededResolves ==
    \A t \in Seeding : \A r \in task[t].seeded : <<r[2], r[1]>> \in Resolves(models, assigns)

\* A Rebuild never takes a name or a worker away that the catalog had when the
\* Rebuild began, whatever fails meanwhile: requests for it stay routable.
StoreKeepsKnown ==
    [][\A r \in Rebuilds : Store(r) =>
          task[r].since \subseteq Resolves(holder'.models, holder'.assigns)]_vars

\* An assignment that was reported as done is what the gateway resolves, for
\* good, although rebuilds overtake each other and statements fail.
AssignedIsRouted ==
    \A a \in Assigners : task[a].pc = "done" ~>
        [](<<Wants[a][1], Wants[a][2]>> \in Resolves(holder.models, holder.assigns))

\* The comment in Start: the periodic rebuild is there because a worker may
\* register after the seed; so what a worker serves gets into the catalog.
LateWorkersSeeded ==
    \A w \in Workers : \A n \in Names :
        <<w, n>> \in servable ~> <<n, w>> \in Resolves(models, assigns)
=============================================================================
