--------------------------- MODULE CatalogProofs ---------------------------
(***************************************************************************)
(* Proofs about the catalog's tables, for any names, workers, rebuilds,    *)
(* seeds and assignments, and any number of failed statements; and about   *)
(* the provider workers that the same catalog's names are assigned to      *)
(* (Providers), for any providers, pods and models.                        *)
(***************************************************************************)
EXTENDS Catalog, Providers, TLAPS

Rowset == Workers \X Names
Pcs == {"off", "idle", "count", "rows", "next", "stored", "assign", "models", "assigns",
        "store", "create", "done", "failed"}
Task == [pc : Pcs, rows : SUBSET Rowset, seeded : SUBSET Rowset, row : Rowset \cup {<<>>},
         id : Nat, models : [Names -> Nat], assigns : SUBSET (Nat \X Workers),
         since : SUBSET (Names \X Workers)]

(* Type correctness.                                                        *)
TypeOK ==
  /\ servable \subseteq Rowset
  /\ models \in [Names -> Nat]
  /\ assigns \subseteq Nat \X Workers
  /\ ids \in Nat
  /\ task \in [Tasks -> Task]

(* With the models m and the assignments a, the name n has an id and w is   *)
(* assigned to it.                                                          *)
Assigned(m, a, n, w) == m[n] # 0 /\ <<m[n], w>> \in a

(* A row a seed is at or has done: the model has its id for good, so what   *)
(* was looked up stays true.                                                *)
SeedOK(f, m, a) ==
  /\ f.pc \in {"stored", "assign"} => f.row \in Rowset /\ m[f.row[2]] # 0
  /\ f.pc = "assign" => f.id = m[f.row[2]]
  /\ \A r \in f.seeded : Assigned(m, a, r[2], r[1])

(* SeedsDoNotCollide and SeededResolves strengthened.                       *)
SeedsInv == \A t \in Seeding : SeedOK(task[t], models, assigns)

(* What the catalog resolved when a Rebuild began is in its two lists, once *)
(* they are read.                                                           *)
SinceOK(f, m, a) ==
  /\ \A p \in f.since : Assigned(m, a, p[1], p[2])
  /\ f.pc \in {"assigns", "store"} => \A p \in f.since : f.models[p[1]] = m[p[1]]
  /\ f.pc = "store" => \A p \in f.since : <<m[p[1]], p[2]>> \in f.assigns

(* StoreKeepsKnown, as an invariant.                                        *)
KeepInv == \A t \in Seeding : SinceOK(task[t], models, assigns)

-----------------------------------------------------------------------------
(* The tables only grow.                                                    *)
Grown(m, a, m2, a2) ==
  /\ a \subseteq a2
  /\ \A n \in Names : m[n] # 0 => m2[n] = m[n]

Grows ==
  /\ servable' \subseteq Rowset /\ models' \in [Names -> Nat] /\ ids' \in Nat
  /\ assigns' \subseteq Nat \X Workers
  /\ Grown(models, assigns, models', assigns')

LEMMA UpsertGrows ==
  ASSUME TypeOK, NEW n \in Names, UpsertModel(n)
  PROVE  /\ models' \in [Names -> Nat] /\ ids' \in Nat /\ ids + 1 \in Nat
         /\ \A m \in Names : models[m] # 0 => models'[m] = models[m]
         /\ models'[n] # 0
BY DEF TypeOK, UpsertModel

LEMMA AssignmentGrows ==
  ASSUME TypeOK, NEW id \in Nat, NEW w \in Workers, UpsertAssignment(id, w)
  PROVE  assigns' \subseteq Nat \X Workers /\ assigns \subseteq assigns' /\ <<id, w>> \in assigns'
BY DEF TypeOK, UpsertAssignment

LEMMA IdleIsTask == IdleTask \in Task
<1>1. NoModels \in [Names -> Nat]
  BY DEF NoModels
<1> QED BY <1>1 DEF IdleTask, Task, Pcs

LEMMA TaskFields ==
  ASSUME NEW f \in Task
  PROVE  /\ f.pc \in Pcs /\ f.rows \subseteq Rowset /\ f.seeded \subseteq Rowset
         /\ f.row \in Rowset \cup {<<>>} /\ f.id \in Nat /\ f.models \in [Names -> Nat]
         /\ f.assigns \subseteq Nat \X Workers /\ f.since \subseteq Names \X Workers
BY DEF Task

LEMMA AssignedStays ==
  ASSUME NEW m, NEW a, NEW m2, NEW a2, Grown(m, a, m2, a2),
         NEW n \in Names, NEW w, Assigned(m, a, n, w)
  PROVE  Assigned(m2, a2, n, w)
BY DEF Grown, Assigned

LEMMA SeedStays ==
  ASSUME NEW m, NEW a, NEW m2, NEW a2, Grown(m, a, m2, a2),
         NEW f \in Task, SeedOK(f, m, a)
  PROVE  SeedOK(f, m2, a2)
<1>1. \A n \in Names : m[n] # 0 => m2[n] # 0 /\ m2[n] = m[n]
  BY DEF Grown
<1>2. f.pc \in {"stored", "assign"} => f.row \in Rowset /\ f.row[2] \in Names
  BY DEF SeedOK, Rowset
<1>3. \A r \in f.seeded : r[2] \in Names
  BY TaskFields DEF Rowset
<1>4. \A r \in f.seeded : Assigned(m2, a2, r[2], r[1])
  BY <1>3, AssignedStays DEF SeedOK
<1> QED BY <1>1, <1>2, <1>4 DEF SeedOK

LEMMA SinceStays ==
  ASSUME NEW m, NEW a, NEW m2, NEW a2, Grown(m, a, m2, a2),
         NEW f \in Task, SinceOK(f, m, a)
  PROVE  SinceOK(f, m2, a2)
<1>1. \A p \in f.since : p[1] \in Names
  BY TaskFields
<1>2. \A p \in f.since : Assigned(m2, a2, p[1], p[2])
  BY <1>1, AssignedStays DEF SinceOK
<1>3. \A p \in f.since : m2[p[1]] = m[p[1]]
  <2> SUFFICES ASSUME NEW p \in f.since PROVE m2[p[1]] = m[p[1]]
    OBVIOUS
  <2>1. m[p[1]] # 0
    BY Zenon DEF SinceOK, Assigned
  <2> QED BY <1>1, <2>1, Zenon DEF Grown
<1> QED BY <1>2, <1>3 DEF SinceOK

(* A step of t: the tables grow and t's progress is as it should be.        *)
Moves(t) ==
  /\ Grows
  /\ \E f \in Task :
       /\ task' = [task EXCEPT ![t] = f]
       /\ t \in Seeding => SeedOK(f, models', assigns') /\ SinceOK(f, models', assigns')

LEMMA MovesKeep ==
  ASSUME TypeOK, SeedsInv, KeepInv, NEW t \in Tasks, Moves(t)
  PROVE  TypeOK' /\ SeedsInv' /\ KeepInv'
<1>1. PICK f \in Task :
        /\ task' = [task EXCEPT ![t] = f]
        /\ t \in Seeding => SeedOK(f, models', assigns') /\ SinceOK(f, models', assigns')
  BY Zenon DEF Moves
<1>2. /\ Grows /\ task \in [Tasks -> Task] /\ task' \in [Tasks -> Task]
      /\ task'[t] = f /\ \A u \in Tasks \ {t} : task'[u] = task[u]
  BY <1>1 DEF Moves, TypeOK
<1>3. TypeOK'
  BY <1>2 DEF TypeOK, Grows
<1>4. ASSUME NEW u \in Seeding
      PROVE  SeedOK(task'[u], models', assigns') /\ SinceOK(task'[u], models', assigns')
  <2>1. u \in Tasks
    BY DEF Tasks
  <2>2. CASE u = t
    BY <1>1, <1>2, <2>2
  <2>3. CASE u # t
    <3>1. task'[u] = task[u] /\ task[u] \in Task
      BY <1>2, <2>1, <2>3
    <3>2. SeedOK(task[u], models, assigns) /\ SinceOK(task[u], models, assigns)
      BY DEF SeedsInv, KeepInv
    <3>3. Grown(models, assigns, models', assigns')
      BY <1>2 DEF Grows
    <3> QED BY <3>1, <3>2, <3>3, SeedStays, SinceStays
  <2> QED BY <2>2, <2>3
<1> QED BY <1>3, <1>4 DEF SeedsInv, KeepInv

LEMMA DbSameGrows ==
  ASSUME TypeOK, DbSame
  PROVE  Grows
BY DEF TypeOK, DbSame, Grows, Grown

(* Only the step changes, to one that asks for nothing more.                *)
LEMMA PcMoves ==
  ASSUME TypeOK, SeedsInv, KeepInv, NEW t \in Tasks, NEW pc \in Pcs \ {"stored", "assign", "assigns", "store"},
         Grows, Set(t, [task[t] EXCEPT !.pc = pc])
  PROVE  Moves(t)
<1> DEFINE g == task[t]
           f == [g EXCEPT !.pc = pc]
<1>1. g \in Task /\ (t \in Seeding => SeedOK(g, models, assigns) /\ SinceOK(g, models, assigns))
  BY DEF TypeOK, SeedsInv, KeepInv
<1>2. task' = [task EXCEPT ![t] = f]
  BY DEF Set
<1> HIDE DEF g
<1>3. f \in Task /\ f.pc = pc /\ f.seeded = g.seeded /\ f.since = g.since
  BY <1>1, Zenon DEF Task
<1> HIDE DEF f
<1>4. t \in Seeding => SeedOK(f, models, assigns) /\ SinceOK(f, models, assigns)
  BY <1>1, <1>3 DEF SeedOK, SinceOK
<1>5. Grown(models, assigns, models', assigns')
  BY DEF Grows
<1>6. t \in Seeding => SeedOK(f, models', assigns') /\ SinceOK(f, models', assigns')
  BY <1>3, <1>4, <1>5, SeedStays, SinceStays
<1> QED BY <1>2, <1>3, <1>6, Zenon DEF Moves

LEMMA SetMoves ==
  ASSUME NEW t, NEW f \in Task, Set(t, f), Grows,
         t \in Seeding => SeedOK(f, models', assigns') /\ SinceOK(f, models', assigns')
  PROVE  Moves(t)
BY Zenon DEF Set, Moves

(* The task before a step.                                                  *)
LEMMA TaskBefore ==
  ASSUME TypeOK, SeedsInv, KeepInv, NEW t \in Seeding
  PROVE  /\ t \in Tasks /\ t \notin Assigners /\ task[t] \in Task
         /\ SeedOK(task[t], models, assigns) /\ SinceOK(task[t], models, assigns)
BY CatalogAssumption DEF TypeOK, SeedsInv, KeepInv, Tasks, Seeding

LEMMA FailedMoves ==
  ASSUME TypeOK, SeedsInv, KeepInv, NEW t \in Seeding, Grows, SeedFailed(t)
  PROVE  Moves(t)
<1> DEFINE g == task[t]
           pc == IF t \in Rebuilds THEN "models" ELSE "failed"
           f == [g EXCEPT !.pc = pc, !.rows = {}, !.seeded = {}]
<1>1. /\ g \in Task /\ SinceOK(g, models, assigns)
      /\ pc \in Pcs \ {"stored", "assign", "assigns", "store"}
  BY TaskBefore DEF Pcs
<1>2. Set(t, f)
  BY DEF SeedFailed
<1> HIDE DEF g, pc
<1>3. f \in Task /\ f.pc = pc /\ f.seeded = {} /\ f.since = g.since
  BY <1>1, Zenon DEF Task
<1> HIDE DEF f
<1>4. SeedOK(f, models', assigns')
  BY <1>1, <1>3 DEF SeedOK
<1>5. SinceOK(f, models, assigns)
  BY <1>1, <1>3 DEF SinceOK
<1>6. SinceOK(f, models', assigns')
  BY <1>3, <1>5, SinceStays DEF Grows
<1> QED BY <1>2, <1>3, <1>4, <1>6, SetMoves

LEMMA BeginMoves ==
  ASSUME TypeOK, SeedsInv, KeepInv, NEW t \in Seeding, Begin(t)
  PROVE  Moves(t)
<1> DEFINE s == Resolves(models, assigns)
           f == [IdleTask EXCEPT !.pc = "count", !.since = s]
<1>1. Grows /\ Set(t, f)
  BY DbSameGrows DEF Begin
<1>2. s \subseteq Names \X Workers /\ \A p \in s : Assigned(models, assigns, p[1], p[2])
  BY DEF Resolves, Assigned
<1>3. models' = models /\ assigns' = assigns
  BY DEF Begin, DbSame
<1> HIDE DEF s
<1>4. f \in Task /\ f.pc = "count" /\ f.seeded = {} /\ f.since = s
  <2>1. IdleTask \in Task /\ "count" \in Pcs /\ s \in SUBSET (Names \X Workers)
    BY <1>2, IdleIsTask DEF Pcs
  <2>2. IdleTask.seeded = {}
    BY DEF IdleTask
  <2> QED BY <2>1, <2>2, Zenon DEF Task
<1> HIDE DEF f
<1>5. SeedOK(f, models', assigns') /\ SinceOK(f, models', assigns')
  BY <1>2, <1>3, <1>4 DEF SeedOK, SinceOK
<1> QED BY <1>1, <1>4, <1>5, SetMoves

LEMMA CountMoves ==
  ASSUME TypeOK, SeedsInv, KeepInv, NEW t \in Seeding, Count(t)
  PROVE  Moves(t)
<1> DEFINE pc == IF models = NoModels THEN "rows" ELSE AfterSeed(t)
<1>1. Grows /\ t \in Tasks
  BY DbSameGrows, TaskBefore DEF Count
<1>2. pc \in Pcs \ {"stored", "assign", "assigns", "store"}
  BY DEF AfterSeed, Pcs
<1>3. Set(t, [task[t] EXCEPT !.pc = pc]) \/ SeedFailed(t)
  BY Zenon DEF Count
<1> HIDE DEF pc
<1>4. CASE Set(t, [task[t] EXCEPT !.pc = pc])
  BY <1>1, <1>2, <1>4, PcMoves, Zenon
<1>5. CASE SeedFailed(t)
  BY <1>1, <1>5, FailedMoves
<1> QED BY <1>3, <1>4, <1>5

LEMMA RowsMoves ==
  ASSUME TypeOK, SeedsInv, KeepInv, NEW t \in Seeding, Rows(t)
  PROVE  Moves(t)
<1> DEFINE g == task[t]
           f == [g EXCEPT !.pc = "next", !.rows = servable]
<1>1. Grows
  BY DbSameGrows DEF Rows
<1>2. Set(t, f) \/ SeedFailed(t)
  BY DEF Rows
<1>3. CASE SeedFailed(t)
  BY <1>1, <1>3, FailedMoves
<1>4. CASE Set(t, f)
  <2>1. /\ g \in Task /\ SeedOK(g, models, assigns) /\ SinceOK(g, models, assigns)
        /\ servable \in SUBSET Rowset /\ "next" \in Pcs
    BY TaskBefore DEF TypeOK, Pcs
  <2> HIDE DEF g
  <2>2. f \in Task /\ f.pc = "next" /\ f.seeded = g.seeded /\ f.since = g.since
    BY <2>1, Zenon DEF Task
  <2> HIDE DEF f
  <2>3. SeedOK(f, models, assigns) /\ SinceOK(f, models, assigns)
    BY <2>1, <2>2 DEF SeedOK, SinceOK
  <2>4. SeedOK(f, models', assigns') /\ SinceOK(f, models', assigns')
    BY <1>1, <2>2, <2>3, SeedStays, SinceStays DEF Grows
  <2> QED BY <1>1, <1>4, <2>2, <2>4, SetMoves
<1> QED BY <1>2, <1>3, <1>4

LEMMA SeedModelMoves ==
  ASSUME TypeOK, SeedsInv, KeepInv, NEW t \in Seeding, SeedModel(t)
  PROVE  Moves(t)
<1> DEFINE g == task[t]
<1>0. g \in Task /\ SeedOK(g, models, assigns) /\ SinceOK(g, models, assigns)
  BY TaskBefore
<1>1. PICK r \in g.rows :
        \/ UpsertModel(r[2]) /\ Set(t, [g EXCEPT !.pc = "stored", !.row = r])
        \/ SeedFailed(t) /\ UNCHANGED <<models, ids>>
  BY Zenon DEF SeedModel
<1>2. r \in Rowset /\ r[2] \in Names /\ UNCHANGED <<servable, assigns>>
  BY <1>0, TaskFields DEF Rowset, SeedModel
<1>3. CASE UpsertModel(r[2]) /\ Set(t, [g EXCEPT !.pc = "stored", !.row = r])
  <2> DEFINE f == [g EXCEPT !.pc = "stored", !.row = r]
  <2>1. Grows /\ models'[r[2]] # 0
    BY <1>2, <1>3, UpsertGrows DEF Grows, Grown, TypeOK
  <2>2. Set(t, f)
    BY <1>3
  <2> HIDE DEF g
  <2>3. /\ f \in Task /\ f.pc = "stored" /\ f.row = r /\ f.seeded = g.seeded
        /\ f.since = g.since
    <3>1. "stored" \in Pcs /\ r \in Rowset \cup {<<>>}
      BY <1>2 DEF Pcs
    <3> QED BY <1>0, <3>1, Zenon DEF Task
  <2> HIDE DEF f
  <2>4. SeedOK(g, models', assigns')
    BY <1>0, <2>1, SeedStays DEF Grows
  <2>5. SeedOK(f, models', assigns')
    BY <1>2, <2>1, <2>3, <2>4 DEF SeedOK
  <2>6. SinceOK(f, models, assigns)
    BY <1>0, <2>3 DEF SinceOK
  <2>7. SinceOK(f, models', assigns')
    BY <2>1, <2>3, <2>6, SinceStays DEF Grows
  <2> QED BY <2>1, <2>2, <2>3, <2>5, <2>7, SetMoves
<1>4. CASE SeedFailed(t) /\ UNCHANGED <<models, ids>>
  <2>1. Grows
    BY <1>2, <1>4 DEF Grows, Grown, TypeOK
  <2> QED BY <1>4, <2>1, FailedMoves
<1> QED BY <1>1, <1>3, <1>4

LEMMA SeedStoredMoves ==
  ASSUME TypeOK, SeedsInv, KeepInv, NEW t \in Seeding, SeedStored(t)
  PROVE  Moves(t)
<1> DEFINE g == task[t]
           f == [g EXCEPT !.pc = "assign", !.id = models[g.row[2]]]
<1>0. /\ g \in Task /\ SeedOK(g, models, assigns) /\ SinceOK(g, models, assigns)
      /\ g.pc = "stored"
  BY TaskBefore DEF SeedStored
<1>1. Grows /\ models' = models /\ assigns' = assigns
  BY DbSameGrows DEF SeedStored, DbSame
<1>2. Set(t, f) \/ SeedFailed(t)
  BY DEF SeedStored
<1>3. CASE SeedFailed(t)
  BY <1>1, <1>3, FailedMoves
<1>4. CASE Set(t, f)
  <2> HIDE DEF g
  <2>1. g.row \in Rowset /\ models[g.row[2]] # 0 /\ models[g.row[2]] \in Nat
    BY <1>0 DEF SeedOK, TypeOK, Rowset
  <2>2. /\ f \in Task /\ f.pc = "assign" /\ f.id = models[g.row[2]] /\ f.row = g.row
        /\ f.seeded = g.seeded /\ f.since = g.since
    <3>1. "assign" \in Pcs
      BY DEF Pcs
    <3> QED BY <1>0, <2>1, <3>1, Zenon DEF Task
  <2> HIDE DEF f
  <2>3. SeedOK(f, models, assigns) /\ SinceOK(f, models, assigns)
    BY <1>0, <2>1, <2>2 DEF SeedOK, SinceOK
  <2> QED BY <1>1, <1>4, <2>2, <2>3, SetMoves
<1> QED BY <1>2, <1>3, <1>4

LEMMA SeedAssignMoves ==
  ASSUME TypeOK, SeedsInv, KeepInv, NEW t \in Seeding, SeedAssign(t)
  PROVE  Moves(t)
<1> DEFINE g == task[t]
           f == [g EXCEPT !.pc = "next", !.rows = g.rows \ {g.row},
                          !.seeded = g.seeded \cup {g.row}]
<1>0. /\ g \in Task /\ SeedOK(g, models, assigns) /\ SinceOK(g, models, assigns)
      /\ g.pc = "assign" /\ UNCHANGED <<servable, models, ids>>
  BY TaskBefore DEF SeedAssign
<1>1. \/ UpsertAssignment(g.id, g.row[1]) /\ Set(t, f)
      \/ SeedFailed(t) /\ UNCHANGED assigns
  BY Zenon DEF SeedAssign
<1>2. CASE SeedFailed(t) /\ UNCHANGED assigns
  <2>1. Grows
    BY <1>0, <1>2 DEF Grows, Grown, TypeOK
  <2> QED BY <1>2, <2>1, FailedMoves
<1>3. CASE UpsertAssignment(g.id, g.row[1]) /\ Set(t, f)
  <2> HIDE DEF g
  <2>1. /\ g.row \in Rowset /\ g.row[1] \in Workers /\ g.row[2] \in Names
        /\ g.id = models[g.row[2]] /\ models[g.row[2]] # 0 /\ g.id \in Nat
    BY <1>0, TaskFields DEF SeedOK, Rowset
  <2>2. /\ assigns' \subseteq Nat \X Workers /\ assigns \subseteq assigns'
        /\ <<g.id, g.row[1]>> \in assigns'
    BY <1>3, <2>1, AssignmentGrows
  <2>3. Grows
    BY <1>0, <2>2 DEF Grows, Grown, TypeOK
  <2>4. /\ f \in Task /\ f.pc = "next" /\ f.seeded = g.seeded \cup {g.row}
        /\ f.since = g.since
    <3>1. /\ "next" \in Pcs /\ g.rows \ {g.row} \in SUBSET Rowset
          /\ g.seeded \cup {g.row} \in SUBSET Rowset
      BY <1>0, <2>1, TaskFields DEF Pcs
    <3> QED BY <1>0, <3>1, Zenon DEF Task
  <2> HIDE DEF f
  <2>5. Assigned(models', assigns', g.row[2], g.row[1])
    BY <1>0, <2>1, <2>2 DEF Assigned
  <2>6. SeedOK(g, models', assigns')
    BY <1>0, <2>3, SeedStays DEF Grows
  <2>7. SeedOK(f, models', assigns')
    BY <2>4, <2>5, <2>6 DEF SeedOK
  <2>8. SinceOK(f, models, assigns)
    BY <1>0, <2>4 DEF SinceOK
  <2>9. SinceOK(f, models', assigns')
    BY <2>3, <2>4, <2>8, SinceStays DEF Grows
  <2> QED BY <1>3, <2>3, <2>4, <2>7, <2>9, SetMoves
<1> QED BY <1>1, <1>2, <1>3

LEMMA SeedEndsMoves ==
  ASSUME TypeOK, SeedsInv, KeepInv, NEW t \in Seeding, SeedEnds(t)
  PROVE  Moves(t)
<1>1. Grows /\ t \in Tasks
  BY DbSameGrows, TaskBefore DEF SeedEnds
<1>2. AfterSeed(t) \in Pcs \ {"stored", "assign", "assigns", "store"}
  BY DEF AfterSeed, Pcs
<1>3. Set(t, [task[t] EXCEPT !.pc = AfterSeed(t)])
  BY DEF SeedEnds
<1> QED BY <1>1, <1>2, <1>3, PcMoves, Zenon

LEMMA IdleMoves ==
  ASSUME NEW t, Grows, Set(t, IdleTask)
  PROVE  Moves(t)
<1>1. IdleTask.pc = "idle" /\ IdleTask.seeded = {} /\ IdleTask.since = {}
  BY DEF IdleTask
<1>2. SeedOK(IdleTask, models', assigns') /\ SinceOK(IdleTask, models', assigns')
  BY <1>1 DEF SeedOK, SinceOK
<1> QED BY <1>2, IdleIsTask, SetMoves

LEMMA ListModelsMoves ==
  ASSUME TypeOK, SeedsInv, KeepInv, NEW t \in Seeding, ListModels(t)
  PROVE  Moves(t)
<1> DEFINE g == task[t]
           f == [g EXCEPT !.pc = "assigns", !.models = models]
<1>0. g \in Task /\ SeedOK(g, models, assigns) /\ SinceOK(g, models, assigns)
  BY TaskBefore
<1>1. Grows /\ models' = models /\ assigns' = assigns
  BY DbSameGrows DEF ListModels, DbSame
<1>2. Set(t, f) \/ Set(t, IdleTask)
  BY DEF ListModels
<1>3. CASE Set(t, f)
  <2> HIDE DEF g
  <2>1. /\ f \in Task /\ f.pc = "assigns" /\ f.models = models
        /\ f.seeded = g.seeded /\ f.since = g.since
    <3>1. "assigns" \in Pcs /\ models \in [Names -> Nat]
      BY DEF Pcs, TypeOK
    <3> QED BY <1>0, <3>1, Zenon DEF Task
  <2> HIDE DEF f
  <2>2. SeedOK(f, models, assigns) /\ SinceOK(f, models, assigns)
    BY <1>0, <2>1 DEF SeedOK, SinceOK
  <2> QED BY <1>1, <1>3, <2>1, <2>2, SetMoves
<1> QED BY <1>1, <1>2, <1>3, IdleMoves

LEMMA ListAssignmentsMoves ==
  ASSUME TypeOK, SeedsInv, KeepInv, NEW t \in Seeding, ListAssignments(t)
  PROVE  Moves(t)
<1> DEFINE g == task[t]
           f == [g EXCEPT !.pc = "store", !.assigns = assigns]
<1>0. /\ g \in Task /\ SeedOK(g, models, assigns) /\ SinceOK(g, models, assigns)
      /\ g.pc = "assigns"
  BY TaskBefore DEF ListAssignments
<1>1. Grows /\ models' = models /\ assigns' = assigns
  BY DbSameGrows DEF ListAssignments, DbSame
<1>2. Set(t, f) \/ Set(t, IdleTask)
  BY DEF ListAssignments
<1>3. CASE Set(t, f)
  <2> HIDE DEF g
  <2>1. /\ f \in Task /\ f.pc = "store" /\ f.models = g.models /\ f.assigns = assigns
        /\ f.seeded = g.seeded /\ f.since = g.since
    <3>1. "store" \in Pcs /\ assigns \in SUBSET (Nat \X Workers)
      BY DEF Pcs, TypeOK
    <3> QED BY <1>0, <3>1, Zenon DEF Task
  <2> HIDE DEF f
  <2>2. SeedOK(f, models, assigns)
    BY <1>0, <2>1 DEF SeedOK
  <2>3. SinceOK(f, models, assigns)
    BY <1>0, <2>1 DEF SinceOK, Assigned
  <2> QED BY <1>1, <1>3, <2>1, <2>2, <2>3, SetMoves
<1> QED BY <1>1, <1>2, <1>3, IdleMoves

LEMMA StoreMoves ==
  ASSUME TypeOK, NEW t, Store(t)
  PROVE  Moves(t)
<1>1. Grows
  BY DEF Store, TypeOK, Grows, Grown
<1> QED BY <1>1, IdleMoves DEF Store

(* The assigners: the tables grow, their progress keeps its type.           *)
LEMMA AssignerSets ==
  ASSUME TypeOK, NEW t \in Assigners, NEW f \in Task, Set(t, f), Grows
  PROVE  Moves(t)
<1>1. t \notin Seeding
  BY CatalogAssumption DEF Seeding
<1> QED BY <1>1, SetMoves

LEMMA AssignerTask ==
  ASSUME TypeOK, NEW t \in Assigners
  PROVE  /\ task[t] \in Task /\ task[t].id \in Nat
         /\ Wants[t][1] \in Names /\ Wants[t][2] \in Workers
<1>1. task[t] \in Task
  BY DEF TypeOK, Tasks
<1>2. task[t].id \in Nat
  BY <1>1, TaskFields
<1>3. Wants[t][1] \in Names /\ Wants[t][2] \in Workers
  BY CatalogAssumption
<1> QED BY <1>1, <1>2, <1>3

LEMMA TaskAt ==
  ASSUME NEW g \in Task, NEW pc \in {"create", "assign", "done", "failed"}, NEW id \in Nat
  PROVE  [g EXCEPT !.pc = pc] \in Task /\ [g EXCEPT !.pc = pc, !.id = id] \in Task
<1>1. pc \in Pcs
  BY DEF Pcs
<1> QED BY <1>1, Zenon DEF Task

LEMMA AssignerMoves ==
  ASSUME TypeOK, NEW t \in Assigners, assign(t)
  PROVE  Moves(t)
<1>0. /\ task[t] \in Task /\ task[t].id \in Nat
      /\ Wants[t][1] \in Names /\ Wants[t][2] \in Workers
  BY AssignerTask
<1>n. 0 \in Nat
  OBVIOUS
<1>1. CASE Look(t)
  <2> DEFINE id == models[Wants[t][1]]
             pc == IF id = 0 THEN "create" ELSE "assign"
  <2>1. Grows
    BY <1>1, DbSameGrows DEF Look
  <2>2. \/ Set(t, [IdleTask EXCEPT !.pc = pc, !.id = id])
        \/ Set(t, [IdleTask EXCEPT !.pc = "failed"])
    BY <1>1, Zenon DEF Look
  <2>3. id \in Nat /\ pc \in {"create", "assign", "done", "failed"}
    BY <1>0 DEF TypeOK
  <2> HIDE DEF id, pc
  <2>4. [IdleTask EXCEPT !.pc = pc, !.id = id] \in Task /\ [IdleTask EXCEPT !.pc = "failed"] \in Task
    BY <1>n, <2>3, IdleIsTask, TaskAt, Zenon
  <2> QED BY <2>1, <2>2, <2>4, AssignerSets, Zenon
<1>2. CASE Create(t)
  <2>1. \/ UpsertModel(Wants[t][1]) /\ Set(t, [task[t] EXCEPT !.pc = "assign", !.id = ids + 1])
        \/ UNCHANGED <<models, ids>> /\ Set(t, [task[t] EXCEPT !.pc = "failed"])
    BY <1>2, Zenon DEF Create
  <2>2. UNCHANGED <<servable, assigns>>
    BY <1>2 DEF Create
  <2>3. Grows
    BY <1>0, <2>1, <2>2, UpsertGrows DEF Grows, Grown, TypeOK
  <2>4. ids + 1 \in Nat
    BY DEF TypeOK
  <2>5. /\ [task[t] EXCEPT !.pc = "assign", !.id = ids + 1] \in Task
        /\ [task[t] EXCEPT !.pc = "failed"] \in Task
    BY <1>0, <2>4, TaskAt, Zenon
  <2> QED BY <2>1, <2>3, <2>5, AssignerSets, Zenon
<1>3. CASE Assign(t)
  <2>1. \/ /\ UpsertAssignment(task[t].id, Wants[t][2])
           /\ Set(t, [task[t] EXCEPT !.pc = "done"])
        \/ UNCHANGED assigns /\ Set(t, [task[t] EXCEPT !.pc = "failed"])
    BY <1>3, Zenon DEF Assign
  <2>2. UNCHANGED <<servable, models, ids>>
    BY <1>3 DEF Assign
  <2>3. Grows
    <3>1. assigns' \subseteq Nat \X Workers /\ assigns \subseteq assigns'
      <4>1. CASE UpsertAssignment(task[t].id, Wants[t][2])
        BY <1>0, <4>1, AssignmentGrows, Zenon
      <4>2. CASE UNCHANGED assigns
        BY <4>2 DEF TypeOK
      <4> QED BY <2>1, <4>1, <4>2
    <3> QED BY <2>2, <3>1 DEF Grows, Grown, TypeOK
  <2>4. [task[t] EXCEPT !.pc = "done"] \in Task /\ [task[t] EXCEPT !.pc = "failed"] \in Task
    BY <1>0, TaskAt, Zenon
  <2> QED BY <2>1, <2>3, <2>4, AssignerSets, Zenon
<1> QED BY <1>1, <1>2, <1>3 DEF assign
-----------------------------------------------------------------------------
LEMMA TablesInit == Init => TypeOK /\ SeedsInv /\ KeepInv
<1> SUFFICES ASSUME Init PROVE TypeOK /\ SeedsInv /\ KeepInv
  OBVIOUS
<1>1. /\ servable = {} /\ models = NoModels /\ assigns = {} /\ ids = 0
      /\ models \in [Names -> Nat]
  BY DEF Init, NoModels
<1>2. PICK on \in Together :
        task = [t \in Tasks |-> IF t \in on THEN IdleTask ELSE [IdleTask EXCEPT !.pc = "off"]]
  BY DEF Init
<1> DEFINE o == [IdleTask EXCEPT !.pc = "off"]
<1>3. o \in Task /\ o.pc = "off" /\ o.seeded = {} /\ o.since = {}
  <2>1. "off" \in Pcs
    BY DEF Pcs
  <2>2. IdleTask.seeded = {} /\ IdleTask.since = {}
    BY DEF IdleTask
  <2> QED BY <2>1, <2>2, IdleIsTask, Zenon DEF Task
<1>4. IdleTask.pc = "idle" /\ IdleTask.seeded = {} /\ IdleTask.since = {}
  BY DEF IdleTask
<1> HIDE DEF o
<1>5. task = [t \in Tasks |-> IF t \in on THEN IdleTask ELSE o]
  BY <1>2 DEF o
<1>6. task \in [Tasks -> Task]
  BY <1>3, <1>5, IdleIsTask
<1>7. /\ SeedOK(o, models, assigns) /\ SinceOK(o, models, assigns)
      /\ SeedOK(IdleTask, models, assigns) /\ SinceOK(IdleTask, models, assigns)
  BY <1>3, <1>4 DEF SeedOK, SinceOK
<1>8. \A t \in Seeding : task[t] = IdleTask \/ task[t] = o
  BY <1>5 DEF Tasks
<1>9. TypeOK
  BY <1>1, <1>6 DEF TypeOK
<1> QED BY <1>7, <1>8, <1>9 DEF SeedsInv, KeepInv

LEMMA TablesNext ==
  TypeOK /\ SeedsInv /\ KeepInv /\ [Next]_vars => TypeOK' /\ SeedsInv' /\ KeepInv'
<1> SUFFICES ASSUME TypeOK, SeedsInv, KeepInv, [Next]_vars
             PROVE  TypeOK' /\ SeedsInv' /\ KeepInv'
  OBVIOUS
<1>1. ASSUME NEW w \in Workers, Register(w) PROVE TypeOK' /\ SeedsInv' /\ KeepInv'
  <2>1. \A n \in Serves[w] : n \in Names
    BY CatalogAssumption
  <2>2. servable' \subseteq Rowset
    BY <1>1, <2>1 DEF Register, TypeOK, Rowset
  <2> QED BY <1>1, <2>2 DEF Register, TypeOK, SeedsInv, KeepInv
<1>2. ASSUME NEW t \in Seeding, Begin(t) \/ SeedFromWorkers(t) PROVE Moves(t)
  BY <1>2, BeginMoves, CountMoves, RowsMoves, SeedModelMoves, SeedStoredMoves,
     SeedAssignMoves, SeedEndsMoves DEF SeedFromWorkers
<1>3. ASSUME NEW t \in Rebuilds, Rebuild(t) PROVE Moves(t)
  <2>1. t \in Seeding
    BY DEF Seeding
  <2> QED BY <1>2, <1>3, <2>1, ListModelsMoves, ListAssignmentsMoves, StoreMoves DEF Rebuild
<1>4. ASSUME NEW t \in Seeders, seed(t) PROVE Moves(t)
  BY <1>2, <1>4 DEF seed, Seeding
<1>5. ASSUME NEW t \in Assigners, assign(t) PROVE Moves(t)
  BY <1>5, AssignerMoves
<1>6. \A t \in Rebuilds \cup Seeders \cup Assigners : t \in Tasks
  BY DEF Tasks, Seeding
<1>7. CASE UNCHANGED vars
  BY <1>7 DEF vars, TypeOK, SeedsInv, KeepInv
<1> QED BY <1>1, <1>3, <1>4, <1>5, <1>6, <1>7, MovesKeep DEF Next

LEMMA TablesKept == Spec => [](TypeOK /\ SeedsInv /\ KeepInv)
BY TablesInit, TablesNext, PTL DEF Spec

(* Seeds next to each other and next to assignments never meet an id that   *)
(* is not stored: whatever a seed is about to assign exists                 *)
(* (SeedFromWorkers, which reads the id back under the name).               *)
THEOREM SeedsCorrect == Spec => []SeedsDoNotCollide
<1>1. TypeOK /\ SeedsInv => SeedsDoNotCollide
  <2> SUFFICES ASSUME TypeOK, SeedsInv, NEW t \in Seeding, task[t].pc = "assign"
               PROVE  Exists(task[t].id)
    BY DEF SeedsDoNotCollide
  <2>1. SeedOK(task[t], models, assigns)
    BY DEF SeedsInv
  <2>2. task[t].row[2] \in Names /\ task[t].id = models[task[t].row[2]]
    BY <2>1 DEF SeedOK, Rowset
  <2> QED BY <2>2 DEF Exists
<1> QED BY <1>1, TablesKept, PTL

(* Every row a seed has gone through resolves, for good, whoever created    *)
(* the model first (SeedFromWorkers).                                       *)
THEOREM SeededCorrect == Spec => []SeededResolves
<1>1. TypeOK /\ SeedsInv => SeededResolves
  <2> SUFFICES ASSUME TypeOK, SeedsInv, NEW t \in Seeding, NEW r \in task[t].seeded
               PROVE  <<r[2], r[1]>> \in Resolves(models, assigns)
    BY Zenon DEF SeededResolves
  <2>1. Assigned(models, assigns, r[2], r[1])
    BY DEF SeedsInv, SeedOK
  <2>2. task[t] \in Task
    BY DEF TypeOK, Tasks
  <2>3. r[2] \in Names /\ r[1] \in Workers
    BY <2>2, TaskFields DEF Rowset
  <2> QED BY <2>1, <2>3 DEF Assigned, Resolves
<1> QED BY <1>1, TablesKept, PTL

(* The snapshot a Rebuild stores resolves everything the catalog resolved   *)
(* when the Rebuild began, although the two lists are read one after the    *)
(* other and the tables change between them (Rebuild).                      *)
THEOREM RebuildKeeps == Spec => StoreKeepsKnown
<1> DEFINE Keeps(r) == Store(r) => task[r].since \subseteq Resolves(holder'.models, holder'.assigns)
<1>1. TypeOK /\ KeepInv /\ [Next]_vars => [\A r \in Rebuilds : Keeps(r)]_vars
  <2> SUFFICES ASSUME TypeOK, KeepInv, NEW r \in Rebuilds, Store(r), NEW p \in task[r].since
               PROVE  p \in Resolves(holder'.models, holder'.assigns)
    OBVIOUS
  <2>1. SinceOK(task[r], models, assigns) /\ task[r] \in Task /\ task[r].pc = "store"
    BY DEF KeepInv, TypeOK, Tasks, Seeding, Store
  <2>2. /\ p \in Names \X Workers /\ models[p[1]] # 0
        /\ task[r].models[p[1]] = models[p[1]]
        /\ <<models[p[1]], p[2]>> \in task[r].assigns
    BY <2>1, TaskFields DEF SinceOK, Assigned
  <2>3. holder'.models = task[r].models /\ holder'.assigns = task[r].assigns
    BY DEF Store
  <2> QED BY <2>2, <2>3 DEF Resolves
<1> QED BY <1>1, TablesKept, PTL DEF Spec, StoreKeepsKnown
-----------------------------------------------------------------------------
(* Provider workers: Providers, with its own tables and registry.           *)

(* No pod's identity has an adapter.                                        *)
PlainPods == PodAdapters \subseteq {Unset}

(* AssignmentsResolve strengthened: a writer assigns what it has mapped.    *)
Progress == [at : {"new", "map", "assign", "done"}, base : Bases \cup {Unset},
             adapter : PodAdapters \cup {Unset}]

WriterOK(x, p, m) ==
  /\ x \in Progress
  /\ x.at \in {"map", "assign"} => x.adapter = Unset
  /\ x.at = "assign" => WorkerId(p, x.base, x.adapter) \in m

WriterInv ==
  /\ PlainPods
  /\ DOMAIN writer = All
  /\ \A p \in All : WriterOK(writer[p], p, maps)
  /\ AssignmentsResolve

(* A provider that was enabled is disabled by an operator only.             *)
KnownOn(p) == p \in All /\ (providers[p] = "enabled" \/ p \in off)

(* DialsUnlessDisabled strengthened: what the registry knew it still knows, *)
(* or the provider was disabled.                                            *)
RegistryInv ==
  /\ DOMAIN providers = All
  /\ reload = [at |-> reload.at, provs |-> reload.provs, maps |-> reload.maps]
  /\ \A p \in byID \cup reload.provs : KnownOn(p)
  /\ reload.at \in {"maps", "swap"} => byID \subseteq reload.provs \cup off
  /\ \A w \in workers \cup snapshot : w.prov \in byID \cup off
  /\ DialsUnlessDisabled

LEMMA WriterInit == PlainPods /\ ProvidersInit => WriterInv
BY DEF ProvidersInit, WriterInv, WriterOK, Progress, AssignmentsResolve

LEMMA RegistryInit == ProvidersInit => RegistryInv
BY DEF ProvidersInit, RegistryInv, DialsUnlessDisabled, Idle

(* A writer's step changes its own progress, and the rows only grow.        *)
LEMMA WriterMoves ==
  ASSUME WriterInv, NEW p \in All, NEW x, writer' = [writer EXCEPT ![p] = x],
         WriterOK(x, p, maps'), maps \subseteq maps', AssignmentsResolve'
  PROVE  WriterInv'
<1>1. /\ DOMAIN writer' = All /\ writer'[p] = x
      /\ \A q \in All \ {p} : writer'[q] = writer[q]
  BY DEF WriterInv
<1>2. \A q \in All : WriterOK(writer'[q], q, maps')
  BY <1>1 DEF WriterInv, WriterOK
<1> QED BY <1>1, <1>2 DEF WriterInv

LEMMA WriterNext == WriterInv /\ [ProvidersNext]_providerVars => WriterInv'
<1> SUFFICES ASSUME WriterInv, [ProvidersNext]_providerVars PROVE WriterInv'
  OBVIOUS
<1> USE DEF tables, registry
<1>1. ASSUME NEW p \in All, SaveProvider(p) PROVE WriterInv'
  <2>1. PICK b \in Bases, a \in IF p \in Pods THEN PodAdapters ELSE {Unset} :
          writer' = [writer EXCEPT ![p] = [at |-> "map", base |-> b, adapter |-> a]]
    BY <1>1, Zenon DEF SaveProvider
  <2>2. a = Unset
    BY <2>1 DEF WriterInv, PlainPods
  <2> DEFINE x == [at |-> "map", base |-> b, adapter |-> a]
  <2>3. x \in Progress /\ x.at = "map" /\ x.adapter = Unset
    BY <2>1, <2>2 DEF Progress
  <2>4. UNCHANGED <<maps, assigned>> /\ writer' = [writer EXCEPT ![p] = x]
    BY <1>1, <2>1, Zenon DEF SaveProvider
  <2> HIDE DEF x
  <2>5. WriterOK(x, p, maps')
    BY <2>3 DEF WriterOK
  <2>6. AssignmentsResolve'
    BY <2>4 DEF WriterInv, AssignmentsResolve
  <2> QED BY <2>4, <2>5, <2>6, WriterMoves, Zenon
<1>0. ASSUME NEW p \in All
      PROVE  /\ writer[p] \in Progress
             /\ writer[p].at \in {"map", "assign"} => writer[p].adapter = Unset
             /\ \A at \in {"new", "map", "assign", "done"} :
                  /\ [writer[p] EXCEPT !.at = at] \in Progress
                  /\ [writer[p] EXCEPT !.at = at].at = at
                  /\ [writer[p] EXCEPT !.at = at].base = writer[p].base
                  /\ [writer[p] EXCEPT !.at = at].adapter = writer[p].adapter
  <2>1. /\ writer[p] \in Progress
        /\ writer[p].at \in {"map", "assign"} => writer[p].adapter = Unset
    BY DEF WriterInv, WriterOK
  <2> QED BY <2>1, Zenon DEF Progress
<1>2. ASSUME NEW p \in All, SaveMap(p) PROVE WriterInv'
  <2> DEFINE g == writer[p]
             x == [g EXCEPT !.at = "assign"]
             m == WorkerId(p, g.base, g.adapter)
  <2>1. /\ maps' = maps \cup {m} /\ writer' = [writer EXCEPT ![p] = x]
        /\ assigned' = assigned /\ g.at = "map"
    BY <1>2 DEF SaveMap
  <2>2. /\ x \in Progress /\ x.at = "assign" /\ x.base = g.base /\ x.adapter = g.adapter
        /\ g.adapter = Unset
    BY <1>0, <2>1, Zenon
  <2> HIDE DEF x
  <2>3. WriterOK(x, p, maps')
    BY <2>1, <2>2 DEF WriterOK
  <2>4. AssignmentsResolve'
    BY <2>1 DEF WriterInv, AssignmentsResolve
  <2> QED BY <2>1, <2>3, <2>4, WriterMoves, Zenon
<1>3. ASSUME NEW p \in All, AssignProvider(p) PROVE WriterInv'
  <2> DEFINE g == writer[p]
             m == WorkerId(p, g.base, Unset)
  <2>1. /\ g.at = "assign" /\ maps' = maps
        /\ assigned' = assigned \cup {[base |-> g.base, adapter |-> g.adapter, worker |-> m]}
    BY <1>3 DEF AssignProvider
  <2>2. m \in maps
    BY <1>0, <2>1 DEF WriterInv, WriterOK
  <2>3. AssignmentsResolve'
    BY <2>1, <2>2 DEF WriterInv, AssignmentsResolve
  <2>4. PICK x \in Further(p) : writer' = [writer EXCEPT ![p] = x]
    BY <1>3, Zenon DEF AssignProvider
  <2>5. WriterOK(x, p, maps)
    <3>1. CASE x = [writer[p] EXCEPT !.at = "done"]
      <4>1. x \in Progress /\ x.at = "done"
        BY <1>0, <3>1, Zenon
      <4> QED BY <4>1 DEF WriterOK
    <3>2. CASE \E b \in Bases : x = [at |-> "map", base |-> b, adapter |-> Unset]
      BY <3>2 DEF WriterOK, Progress
    <3> QED BY <2>4, <3>1, <3>2 DEF Further
  <2> QED BY <2>1, <2>3, <2>4, <2>5, WriterMoves, Zenon
<1>4. ASSUME NEW p \in All, WriteFails(p) PROVE WriterInv'
  <2> DEFINE x == [writer[p] EXCEPT !.at = "new"]
  <2>1. writer' = [writer EXCEPT ![p] = x] /\ UNCHANGED <<maps, assigned>>
    BY <1>4 DEF WriteFails
  <2>2. x \in Progress /\ x.at = "new"
    BY <1>0, Zenon
  <2> HIDE DEF x
  <2>3. WriterOK(x, p, maps')
    BY <2>2 DEF WriterOK
  <2>4. AssignmentsResolve'
    BY <2>1 DEF WriterInv, AssignmentsResolve
  <2> QED BY <2>1, <2>3, <2>4, WriterMoves, Zenon
<1>5. CASE UNCHANGED <<maps, assigned, writer>>
  BY <1>5 DEF WriterInv, AssignmentsResolve
<1>6. ASSUME NEW p \in All, Disable(p) PROVE WriterInv'
  BY <1>5, <1>6 DEF Disable
<1>7. CASE \/ ReadProviders \/ ReadMaps \/ ReadFails \/ Swap
           \/ Publish \/ (\E w \in snapshot : Dial(w)) \/ UNCHANGED providerVars
  BY <1>5, <1>7 DEF ReadProviders, ReadMaps, ReadFails, Swap,
                    Publish, Dial, providerVars
<1> QED BY <1>1, <1>2, <1>3, <1>4, <1>6, <1>7 DEF ProvidersNext

(* Wherever the writers were interrupted, a provider worker that a name is  *)
(* assigned to is one the registry builds from a row of provider_model_map, *)
(* as long as no pod's identity has an adapter (upsertProvider, register).  *)
THEOREM AssignmentsCorrect == PlainPods /\ ProvidersSpec => []AssignmentsResolve
<1>1. WriterInv => AssignmentsResolve
  BY DEF WriterInv
<1> QED BY <1>1, WriterInit, WriterNext, PTL DEF ProvidersSpec

(* RegistryInv is kept when the tables lose no provider that was on.        *)
LEMMA RegistryKept ==
  ASSUME RegistryInv, UNCHANGED <<reload, workers, byID, snapshot, lost>>,
         DOMAIN providers' = All, off \subseteq off',
         \A p \in All : KnownOn(p) => providers'[p] = "enabled" \/ p \in off'
  PROVE  RegistryInv'
<1>1. \A p \in All : KnownOn(p) => KnownOn(p)'
  BY DEF KnownOn
<1>2. \A p \in byID \cup reload.provs : KnownOn(p)'
  BY <1>1 DEF RegistryInv, KnownOn
<1>3. \A p \in (byID \cup reload.provs)' : KnownOn(p)'
  BY <1>2
<1> QED BY <1>3 DEF RegistryInv, DialsUnlessDisabled

LEMMA RegistryNext == RegistryInv /\ [ProvidersNext]_providerVars => RegistryInv'
<1> SUFFICES ASSUME RegistryInv, [ProvidersNext]_providerVars PROVE RegistryInv'
  OBVIOUS
<1> USE DEF tables, registry
<1>0. DOMAIN providers = All
  BY DEF RegistryInv
<1>1. CASE UNCHANGED <<providers, off, reload, workers, byID, snapshot, lost>>
  BY <1>0, <1>1, RegistryKept DEF KnownOn
<1>2. ASSUME NEW p \in All, SaveProvider(p) \/ Disable(p)
      PROVE  RegistryInv'
  <2>1. /\ UNCHANGED <<reload, workers, byID, snapshot, lost>>
        /\ DOMAIN providers' = All /\ off \subseteq off'
        /\ \A q \in All : KnownOn(q) => providers'[q] = "enabled" \/ q \in off'
    BY <1>0, <1>2 DEF SaveProvider, Disable, KnownOn
  <2> QED BY <2>1, RegistryKept
<1>3. ASSUME NEW p \in All,
             SaveMap(p) \/ AssignProvider(p) \/ WriteFails(p)
      PROVE  RegistryInv'
  BY <1>1, <1>3 DEF SaveMap, AssignProvider, WriteFails
<1>4. CASE ReadProviders
  <2>1. /\ reload'.at = "maps" /\ reload'.provs = {p \in All : providers[p] = "enabled"}
        /\ (reload = [at |-> reload.at, provs |-> reload.provs, maps |-> reload.maps])'
        /\ UNCHANGED <<providers, off, workers, byID, snapshot, lost>>
    BY <1>4 DEF ReadProviders
  <2>2. \A p \in byID : p \in reload'.provs \/ p \in off
    BY <2>1 DEF RegistryInv, KnownOn
  <2>3. \A p \in byID \cup reload'.provs : p \in All /\ (providers[p] = "enabled" \/ p \in off)
    BY <2>1 DEF RegistryInv, KnownOn
  <2> QED BY <2>1, <2>2, <2>3 DEF RegistryInv, KnownOn, DialsUnlessDisabled
<1>5. CASE ReadMaps
  <2>1. reload.at = "maps" /\ reload' = [reload EXCEPT !.at = "swap", !.maps = maps]
        /\ UNCHANGED <<providers, off, workers, byID, snapshot, lost>>
    BY <1>5 DEF ReadMaps
  <2>2. reload' = [at |-> "swap", provs |-> reload.provs, maps |-> maps]
    <3>1. PICK a, q, m : reload = [at |-> a, provs |-> q, maps |-> m]
      BY Zenon DEF RegistryInv
    <3>2. reload.provs = q
      BY <3>1
    <3> QED BY <2>1, <3>1, <3>2, Zenon
  <2>3. byID \subseteq reload.provs \cup off
    BY <2>1 DEF RegistryInv
  <2>4. /\ reload'.at = "swap" /\ reload'.provs = reload.provs
        /\ (reload = [at |-> reload.at, provs |-> reload.provs, maps |-> reload.maps])'
    BY <2>2
  <2> QED BY <2>1, <2>3, <2>4 DEF RegistryInv, KnownOn, DialsUnlessDisabled
<1>6. CASE ReadFails
  <2>1. /\ reload' = [at |-> "idle", provs |-> {}, maps |-> {}]
        /\ UNCHANGED <<providers, off, workers, byID, snapshot, lost>>
    BY <1>6 DEF ReadFails, Idle
  <2> QED BY <2>1 DEF RegistryInv, KnownOn, DialsUnlessDisabled
<1>7. CASE Swap
  <2>1. /\ reload.at = "swap" /\ byID' = reload.provs /\ workers' = Built
        /\ reload' = [at |-> "idle", provs |-> {}, maps |-> {}]
        /\ UNCHANGED <<providers, off, snapshot, lost>>
    BY <1>7 DEF Swap, Idle
  <2>2. byID \subseteq reload.provs \cup off
    BY <2>1 DEF RegistryInv
  <2>3. \A w \in workers' : w.prov \in reload.provs
    BY <2>1 DEF Built, WorkerId
  <2>4. \A w \in snapshot : w.prov \in reload.provs \cup off
    BY <2>2 DEF RegistryInv
  <2> QED BY <2>1, <2>3, <2>4 DEF RegistryInv, KnownOn, DialsUnlessDisabled
<1>8. CASE Publish
  BY <1>8 DEF Publish, RegistryInv, KnownOn, DialsUnlessDisabled
<1>9. ASSUME NEW w \in snapshot, Dial(w) PROVE RegistryInv'
  <2>1. /\ UNCHANGED <<providers, off, reload, workers, byID, snapshot>>
        /\ lost' = IF HasBackend(w) THEN lost \ {w} ELSE lost \cup {w}
    BY <1>9 DEF Dial
  <2>2. ~HasBackend(w) => w.prov \in off
    BY DEF HasBackend, RegistryInv
  <2>3. \A v \in lost' : v.prov \in off
    BY <2>1, <2>2 DEF RegistryInv, DialsUnlessDisabled
  <2> QED BY <2>1, <2>3 DEF RegistryInv, KnownOn, DialsUnlessDisabled
<1>10. CASE UNCHANGED providerVars
  BY <1>1, <1>10 DEF providerVars
<1> QED BY <1>2, <1>3, <1>4, <1>5, <1>6, <1>7, <1>8, <1>9, <1>10 DEF ProvidersNext

(* A worker chosen from a snapshot, however old, is dialled as long as its  *)
(* provider was never disabled: the endpoint finds the backend that the     *)
(* worker's ID no longer does, and a failed Reload loses nothing            *)
(* (provider_dial.go; Reload).                                              *)
THEOREM DialsCorrect == ProvidersSpec => []DialsUnlessDisabled
<1>1. RegistryInv => DialsUnlessDisabled
  BY DEF RegistryInv
<1> QED BY <1>1, RegistryInit, RegistryNext, PTL DEF ProvidersSpec
=============================================================================
