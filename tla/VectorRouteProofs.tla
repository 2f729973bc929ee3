-------------------------- MODULE VectorRouteProofs --------------------------
(***************************************************************************)
(* Proofs about VectorRoute, for any memories, plans, callers and crashes: *)
(* no cutover loses a memory, nothing forgotten is left in a collection, a *)
(* validated plan holds what it reports, a plan that was rolled back is    *)
(* over, and route, rows and collection are of one model.                  *)
(***************************************************************************)
EXTENDS VectorRoute, TLAPS

\* The control points at which a caller believes it holds the lease.
Leasing == SyncPcs \cup ForgetPcs \cup ReembedPcs \cup RollbackPcs
Holds(w) == lease.live /\ lease.owner = w

\* The steps of a plan that has a checkpoint, and of one of its items.
Running == ReembedPcs \ {"load"}
Staging == {"original", "shadow", "stage", "save_item"}

Fresh(c, m, rev, vec) == pts[c][m] # Nobody /\ pts[c][m].rev = rev /\ pts[c][m].vec = vec
Staged(c, m, rev, vec) == staged[c][m] # Nobody /\ staged[c][m].rev = rev /\ staged[c][m].vec = vec
VectorOf(p, input) == [model |-> Target[p], input |-> input]

\* Another event of the memory w synchronises is pending.
OtherEvent(w) == \E e \in events : e[1] = my[w].m /\ e[2] # my[w].rev

AllDone(ck) == \A m \in ck.sources \cap Active : ck.done[m] # 0

-----------------------------------------------------------------------------
(* What holds always.                                                      *)

CallOK(w) ==
  /\ pc[w] \in {"commit", "apply"} \cup SyncPcs \cup ForgetPcs \cup Staging => my[w].m \in Memories
  /\ pc[w] \in {"commit", "search", "sync_write", "sync_done"} \cup RepairPcs => my[w].route \in Route
  /\ pc[w] \in ReembedPcs \cup RollbackPcs => my[w].p \in Plans
  /\ pc[w] \in ReembedPcs => my[w].input \in Inputs
  /\ pc[w] \in RollbackPcs => "rollback" \in Operations
  /\ pc[w] \in SyncPcs => my[w].rev <= mem[my[w].m].rev
  /\ pc[w] \in {"sync_delete", "forget_delete"} => mem[my[w].m].status = "deleted"
  /\ pc[w] \in {"sync_delete"} \cup ForgetPcs => my[w].todo \subseteq Collections
  /\ pc[w] \in {"repair", "apply"} => my[w].todo \subseteq Memories

Base ==
  /\ TypeOK
  /\ \A w \in Workers : CallOK(w)
  /\ \A e \in events : e[2] <= mem[e[1]].rev

-----------------------------------------------------------------------------
(* What holds as long as no lease lapses.                                  *)

\* Whoever synchronises m writes what the row says, or another event is pending.
SyncOK(w) ==
  LET m == my[w].m
      row == my[w].row
  IN
  pc[w] \in {"sync_write", "sync_done"} =>
    /\ mem[m].status = "active" /\ my[w].route = CurrentRoute
    /\ \A p \in Plans : ckpt[p].prints[m] <= row.rev
    /\ mem[m] = row \/ (mem[m].rev > row.rev /\ OtherEvent(w))
    /\ pc[w] = "sync_done" /\ mem[m] = row => Fresh(my[w].route.coll, m, row.rev, row.vec)

ForgetOK(w) ==
  pc[w] \in ForgetPcs => \A c \in Collections \ my[w].todo : pts[c][my[w].m] = Nobody

\* The working checkpoint is the row, but for the status of a plan that ends.
CopyOK(w) ==
  LET ck == my[w].ck
      row == ckpt[my[w].p]
  IN
  pc[w] \in Running =>
    /\ row.status \notin {"none", "rolled_back"} /\ ck.status \notin {"none", "rolled_back"}
    /\ pc[w] # "finish" => ck = row
    /\ ck = [row EXCEPT !.status = ck.status]
    /\ pc[w] \in {"item"} \cup Staging => my[w].todo \subseteq ck.sources
    /\ pc[w] \in {"verify", "save_cutover"} => AllDone(ck)
    /\ pc[w] = "save_cutover" => alias # Nobody
    /\ pc[w] = "finish" /\ ck.status = "validated" => AllDone(ck)

\* The item at hand has no vector yet, and is as the plan found it or has an event.
StagingOK(w) ==
  LET p == my[w].p
      m == my[w].m
      ck == my[w].ck
      new == NewVector(w)
  IN
  pc[w] \in Staging =>
    /\ m \in ck.sources /\ ck.done[m] = 0 /\ my[w].row.rev = ck.prints[m]
    /\ mem[m].status = "active"
    /\ pc[w] \in {"stage", "save_item"} => Fresh(Shadow[p], m, my[w].row.rev, new)
    /\ pc[w] = "save_item" => Staged(Shadow[p], m, my[w].row.rev, new)

\* A caller under the lease.
LeasedOK(w) ==
  /\ pc[w] \in Leasing => Holds(w)
  /\ SyncOK(w) /\ ForgetOK(w) /\ CopyOK(w) /\ StagingOK(w)
  /\ pc[w] = "save_rollback" => my[w].ck = ckpt[my[w].p]

\* Repair removes points of deleted memories only.
RepairOK(w) ==
  /\ pc[w] = "repair" => \A m \in my[w].todo : mem[m].status # "absent"
  /\ pc[w] = "apply" =>
       /\ my[w].row.status # "active" => mem[my[w].m].status = "deleted"
       /\ \A m \in my[w].todo : mem[m].status # "absent"

\* What a checkpoint acknowledges is staged, and is in the shadow until the route has
\* moved and the memory is updated.
ItemOK(p, m) ==
  LET ck == ckpt[p]
      vec == VectorOf(p, ck.done[m])
  IN
  /\ ck.prints[m] <= mem[m].rev
  /\ staged[Shadow[p]][m] # Nobody \/ ck.done[m] # 0 => m \in ck.sources
  /\ m \in ck.sources => mem[m].status # "absent"
  /\ mem[m].status = "active" /\ ck.done[m] # 0 =>
       /\ Staged(Shadow[p], m, ck.prints[m], vec)
       /\ alias = Nobody \/ mem[m].rev = ck.prints[m] => Fresh(Shadow[p], m, ck.prints[m], vec)

PlanOK(p) ==
  LET ck == ckpt[p]
  IN
  /\ ck.status = "none" => ck = NoCheckpoint
  /\ ck.cutover => alias # Nobody
  /\ ck.status = "validated" => AllDone(ck)
  /\ \A m \in Memories : ItemOK(p, m)

\* While the route is at the shadow of p, the plan is done and the rows are its own.
ServedOK(p) ==
  alias # Nobody /\ alias.coll = Shadow[p] =>
    /\ ckpt[p].status # "none" /\ AllDone(ckpt[p])
    /\ \A m \in ckpt[p].sources \cap Active :
         mem[m].rev = ckpt[p].prints[m] => mem[m].vec = VectorOf(p, ckpt[p].done[m])

IndexedOK(m) ==
  mem[m].status = "active" /\ (\A e \in events : e[1] # m) =>
    Fresh(CurrentRoute.coll, m, mem[m].rev, mem[m].vec)

\* No point of a memory that never was, nothing of one that is forgotten.
TraceOK(m) ==
  /\ mem[m].status = "absent" => \A c \in Collections : pts[c][m] = Nobody
  /\ m \in forgotten =>
       /\ mem[m].status = "deleted"
       /\ \A c \in Collections : pts[c][m] = Nobody /\ staged[c][m] = Nobody

Stores ==
  /\ \A p \in Plans : PlanOK(p) /\ ServedOK(p)
  /\ Forward => \A m \in Memories : IndexedOK(m)
  /\ \A m \in Memories : TraceOK(m)

Calm == Stores /\ \A w \in Workers : LeasedOK(w) /\ RepairOK(w)

-----------------------------------------------------------------------------
(* What holds besides while no rollback restored vectors of another model. *)

Restorable == count.foreign = 0

\* Of a user with one plan no rollback ever does: no second plan replaces the snapshot.
OnePlan == \A p, q \in Plans : p = q

\* The model that collection c is for.
ModelOf(c) == IF c = Logical THEN BaseModel ELSE Target[CHOOSE p \in Plans : Shadow[p] = c]

ModelsOf(w) ==
  /\ pc[w] = "commit" /\ alias = Nobody => my[w].route.model = BaseModel
  /\ pc[w] \in {"sync_write", "sync_done"} => my[w].row.vec.model = my[w].route.model
  /\ pc[w] = "records" => \A h \in my[w].hits : Dim[h[2]] = Dim[my[w].route.model]

ModelsAt(c, m) ==
  /\ pts[c][m] # Nobody => pts[c][m].vec.model = ModelOf(c)
  /\ staged[c][m] # Nobody /\ (c # Logical \/ OnePlan) =>
       staged[c][m].vec.model = ModelOf(c)

\* A plan moves the route when it is done, and where there is one no other follows.
Settled ==
  OnePlan /\ alias # Nobody =>
    \A p \in Plans : ckpt[p].status # "none" /\ AllDone(ckpt[p])

Kept ==
  /\ alias # Nobody => alias.model = ModelOf(alias.coll)
  /\ \A c \in Collections, m \in Memories : ModelsAt(c, m)
  /\ \A m \in Memories : mem[m].status = "active" => mem[m].vec.model = CurrentRoute.model
  /\ Settled

Uniform == Kept /\ \A w \in Workers : ModelsOf(w)

IInv ==
  /\ Base
  /\ Undisturbed => Calm
  /\ Undisturbed /\ Restorable => Uniform
  /\ Undisturbed /\ OnePlan => Restorable

-----------------------------------------------------------------------------
(* Types.                                                                  *)

Labels ==
  {"idle", "commit", "search", "records"} \cup SyncPcs \cup ForgetPcs \cup ReembedPcs
    \cup RollbackPcs \cup RepairPcs
Leases == [owner: Workers \cup {Repairer, Nobody}, live: BOOLEAN, fence: Nat]
Counts == [calls: 0 .. MaxCalls, crashes: 0 .. MaxCrashes, lapses: 0 .. MaxLapses, foreign: Nat]

\* The types of all variables, as the conjuncts that actions change.
LEMMA TypeNext ==
  ASSUME mem' \in [Memories -> Row], events' \subseteq Memories \X Nat,
         alias' \in Route \cup {Nobody},
         staged' \in [Collections -> [Memories -> Snapshot \cup {Nobody}]],
         ckpt' \in [Plans -> Checkpoint],
         pts' \in [Collections -> [Memories -> Point \cup {Nobody}]],
         lease' \in Leases, forgotten' \subseteq Memories,
         pc' \in [Workers -> Labels], my' \in [Workers -> Locals], count' \in Counts
  PROVE  TypeOK'
  BY DEF TypeOK, Leases, Labels, Counts

\* The same, of the present state.
LEMMA TypeNow ==
  ASSUME TypeOK
  PROVE  /\ mem \in [Memories -> Row] /\ events \subseteq Memories \X Nat
         /\ alias \in Route \cup {Nobody}
         /\ staged \in [Collections -> [Memories -> Snapshot \cup {Nobody}]]
         /\ ckpt \in [Plans -> Checkpoint]
         /\ pts \in [Collections -> [Memories -> Point \cup {Nobody}]]
         /\ lease \in Leases /\ forgotten \subseteq Memories
         /\ pc \in [Workers -> Labels] /\ my \in [Workers -> Locals] /\ count \in Counts
  BY DEF TypeOK, Leases, Labels, Counts

\* The fields of a record of locals.
LEMMA Fields ==
  ASSUME NEW l \in Locals
  PROVE  /\ l.p \in Plans \cup {Nobody} /\ l.m \in Memories \cup {Nobody} /\ l.rev \in Nat
         /\ l.row \in Row /\ l.route \in Route \cup {Nobody}
         /\ l.todo \in SUBSET (Memories \cup Collections) /\ l.supply \in SUBSET Memories
         /\ l.input \in Inputs \cup {0} /\ l.cutover \in BOOLEAN /\ l.ck \in Checkpoint
         /\ l.hits \in SUBSET (Memories \X Models)
  BY DEF Locals

\* Those of a row and a checkpoint.
LEMMA RowFields ==
  ASSUME NEW r \in Row
  PROVE  r.status \in {"absent", "active", "deleted"} /\ r.rev \in Nat /\ r.vec \in Vector
  BY DEF Row

LEMMA CheckpointFields ==
  ASSUME NEW ck \in Checkpoint
  PROVE  /\ ck.sources \subseteq Memories /\ ck.prints \in [Memories -> Nat]
         /\ ck.done \in [Memories -> Inputs \cup {0}] /\ ck.cutover \in BOOLEAN
         /\ ck.status \in {"none", "running", "awaiting_vectors", "validated", "completed",
                           "failed", "rolled_back"}
  BY DEF Checkpoint

\* The vectors the model makes, the locals of a caller at rest, the missing things.
LEMMA NothingTyped ==
  /\ NoVector \in Vector /\ NoRow \in Row /\ NoCheckpoint \in Checkpoint /\ NoLocals \in Locals
  /\ \A p \in Plans, i \in Inputs \cup {0} : VectorOf(p, i) \in Vector
  /\ \A p \in Plans : Shadow[p] \in Collections /\ Target[p] \in Models
  /\ Logical \in Collections /\ BaseModel \in Models /\ 0 \notin Inputs
<1>1. /\ \A p \in Plans : Shadow[p] \in Collections /\ Target[p] \in Models
      /\ Logical \in Collections /\ BaseModel \in Models /\ 0 \notin Inputs
  BY RouteAssumption DEF Collections, Models
<1>2. NoVector \in Vector /\ \A p \in Plans, i \in Inputs \cup {0} : VectorOf(p, i) \in Vector
  BY <1>1 DEF NoVector, VectorOf, Vector
<1>3. NoRow \in Row
  BY <1>2 DEF NoRow, Row
<1>4. NoCheckpoint \in Checkpoint
  BY DEF NoCheckpoint, Checkpoint
<1> QED
  BY <1>1, <1>2, <1>3, <1>4 DEF NoLocals, Locals

\* The route of the moment.
LEMMA RouteNow ==
  ASSUME TypeOK
  PROVE  CurrentRoute \in Route /\ CurrentRoute.coll \in Collections /\ CurrentRoute.model \in Models
<1>1. [coll |-> Logical, model |-> BaseModel] \in Route
  BY NothingTyped DEF Route
<1> QED
  BY <1>1, TypeNow DEF CurrentRoute, Route

\* One caller moves to a label.
LEMMA GotoTyped ==
  ASSUME TypeOK, NEW w \in Workers, NEW label \in Labels, Goto(w, label)
  PROVE  /\ pc' \in [Workers -> Labels] /\ pc'[w] = label
         /\ \A v \in Workers : v # w => pc'[v] = pc[v]
  BY TypeNow DEF Goto

\* One caller has new locals.
LEMMA MyTyped ==
  ASSUME TypeOK, NEW w \in Workers, NEW l \in Locals, my' = [my EXCEPT ![w] = l]
  PROVE  /\ my' \in [Workers -> Locals] /\ my'[w] = l
         /\ \A v \in Workers : v # w => my'[v] = my[v]
  BY TypeNow

\* One point changes.
LEMMA PointTyped ==
  ASSUME TypeOK, NEW c \in Collections, NEW m \in Memories, NEW x \in Point \cup {Nobody},
         pts' = [pts EXCEPT ![c][m] = x]
  PROVE  /\ pts' \in [Collections -> [Memories -> Point \cup {Nobody}]]
         /\ pts'[c][m] = x
         /\ \A d \in Collections, n \in Memories : d # c \/ n # m => pts'[d][n] = pts[d][n]
<1>1. pts \in [Collections -> [Memories -> Point \cup {Nobody}]]
  BY TypeNow
<1> QED
  BY <1>1

\* One staged record changes.
LEMMA SnapshotTyped ==
  ASSUME TypeOK, NEW c \in Collections, NEW m \in Memories, NEW x \in Snapshot,
         staged' = [staged EXCEPT ![c][m] = x]
  PROVE  /\ staged' \in [Collections -> [Memories -> Snapshot \cup {Nobody}]]
         /\ staged'[c][m] = x
         /\ \A d \in Collections, n \in Memories : d # c \/ n # m => staged'[d][n] = staged[d][n]
<1>1. staged \in [Collections -> [Memories -> Snapshot \cup {Nobody}]]
  BY TypeNow
<1> QED
  BY <1>1

\* One checkpoint is saved.
LEMMA SavedTyped ==
  ASSUME TypeOK, NEW p \in Plans, NEW ck \in Checkpoint, ckpt' = [ckpt EXCEPT ![p] = ck]
  PROVE  /\ ckpt' \in [Plans -> Checkpoint] /\ ckpt'[p] = ck
         /\ \A q \in Plans : q # p => ckpt'[q] = ckpt[q]
  BY TypeNow

\* What is there is not Nobody.
LEMMA Something ==
  /\ \A x \in Point : x # Nobody
  /\ \A x \in Snapshot : x # Nobody
  /\ \A x \in Route : x # Nobody
  /\ \A w \in Workers : w # Nobody /\ w # Repairer
  /\ Repairer # Nobody
  BY NothingAssumption, RouteAssumption

-----------------------------------------------------------------------------
(* What a step does to others.                                             *)

Others(w) == \A v \in Workers : v # w => pc'[v] = pc[v] /\ my'[v] = my[v]

\* No content is taken back, and no route.
Grows ==
  /\ alias' = Nobody => alias = Nobody
  /\ \A m \in Memories :
       /\ mem[m].rev <= mem'[m].rev
       /\ mem[m].status = "deleted" => mem'[m].status = "deleted"
       /\ mem'[m].status = "absent" => mem[m].status = "absent"

StoresStill == UNCHANGED <<canonical, ckpt, pts, forgotten>>
CountKept ==
  count' \in Counts /\ count'.lapses = count.lapses /\ count'.foreign = count.foreign

\* While no lease lapses, w may do what needs the lease only as its holder, or where no
\* one holds it; what it does elsewhere leaves it with its holder.
Alone(w) == Holds(w) \/ ~lease.live
Leaves(w) == \A v \in Workers : v # w /\ Holds(v) => Holds(v)'

\* Counting calls and crashes is not a lapse.
LEMMA CountTyped ==
  ASSUME TypeOK,
         \/ UNCHANGED count
         \/ count.calls < MaxCalls /\ count' = [count EXCEPT !.calls = @ + 1]
         \/ count.crashes < MaxCrashes /\ count' = [count EXCEPT !.crashes = @ + 1]
  PROVE  CountKept
<1>1. count \in Counts /\ MaxCalls \in Nat /\ MaxCrashes \in Nat
  BY TypeNow, RouteAssumption
<1>2. CASE UNCHANGED count
  BY <1>1, <1>2 DEF CountKept
<1>3. CASE count.calls < MaxCalls /\ count' = [count EXCEPT !.calls = @ + 1]
  BY <1>1, <1>3 DEF CountKept, Counts
<1>4. CASE count.crashes < MaxCrashes /\ count' = [count EXCEPT !.crashes = @ + 1]
  BY <1>1, <1>4 DEF CountKept, Counts
<1> QED
  BY <1>2, <1>3, <1>4

\* The facts of one caller.
LEMMA CallerFacts ==
  ASSUME IInv, NEW w \in Workers
  PROVE  /\ TypeOK /\ CallOK(w) /\ my[w] \in Locals /\ pc[w] \in Labels
         /\ \A e \in events : e[2] <= mem[e[1]].rev
         /\ Undisturbed => Calm /\ Stores /\ LeasedOK(w) /\ RepairOK(w)
         /\ Undisturbed /\ pc[w] \in Leasing => Holds(w) /\ Alone(w)
         /\ Undisturbed /\ Restorable => Kept /\ ModelsOf(w)
<1>1. TypeOK /\ CallOK(w) /\ my[w] \in Locals /\ pc[w] \in Labels
  BY TypeNow DEF IInv, Base
<1>2. \A e \in events : e[2] <= mem[e[1]].rev
  BY DEF IInv, Base
<1>3. Undisturbed => Calm /\ Stores /\ LeasedOK(w) /\ RepairOK(w)
  BY DEF IInv, Calm
<1>4. Undisturbed /\ pc[w] \in Leasing => Holds(w) /\ Alone(w)
  BY <1>3 DEF LeasedOK, Alone
<1>5. Undisturbed /\ Restorable => Kept /\ ModelsOf(w)
  BY DEF IInv, Uniform
<1> QED
  BY <1>1, <1>2, <1>3, <1>4, <1>5

\* What is always true of another caller stays true.
LEMMA OthersCall ==
  ASSUME IInv, TypeOK', NEW w, Others(w), Grows, NEW v \in Workers, v # w
  PROVE  CallOK(v)'
<1>1. TypeOK /\ CallOK(v) /\ pc'[v] = pc[v] /\ my'[v] = my[v] /\ my[v] \in Locals
  BY CallerFacts DEF Others
<1>2. my[v].rev \in Nat /\ \A m \in Memories : mem[m].rev \in Nat /\ mem'[m].rev \in Nat
  BY <1>1, Fields, RowFields, TypeNow DEF TypeOK
<1>3. pc[v] \in {"sync_delete"} \cup {"forget_delete"} \cup SyncPcs => my[v].m \in Memories
  BY <1>1 DEF CallOK, ForgetPcs, SyncPcs
<1>4. pc[v] \in SyncPcs => my[v].rev <= mem'[my[v].m].rev
  BY <1>1, <1>2, <1>3 DEF CallOK, Grows
<1> QED
  BY <1>1, <1>3, <1>4 DEF CallOK, Grows

\* So is what a repair has found.
LEMMA OthersRepair ==
  ASSUME IInv, Undisturbed, NEW w, Others(w), Grows, NEW v \in Workers, v # w
  PROVE  RepairOK(v)'
<1>1. CallOK(v) /\ RepairOK(v) /\ pc'[v] = pc[v] /\ my'[v] = my[v]
  BY CallerFacts DEF Others
<1> QED
  BY <1>1 DEF RepairOK, Grows, CallOK

\* Another caller holds the lease only where w does not need it.
LEMMA OthersAlone ==
  ASSUME IInv, Undisturbed, NEW w \in Workers, Others(w), Alone(w), NEW v \in Workers, v # w
  PROVE  LeasedOK(v)'
<1>1. LeasedOK(v) /\ pc'[v] = pc[v]
  BY CallerFacts DEF Others
<1>2. pc[v] \notin Leasing
  BY <1>1 DEF LeasedOK, Alone, Holds
<1>3. pc[v] \notin ForgetPcs \cup Running \cup Staging \cup {"sync_write", "sync_done", "save_rollback"}
  BY <1>2 DEF Leasing, ForgetPcs, SyncPcs, RollbackPcs, Running, ReembedPcs, Staging
<1> QED
  BY <1>1, <1>2, <1>3 DEF LeasedOK, SyncOK, ForgetOK, CopyOK, StagingOK

\* Where w touches no store, its holder can go on.
LEMMA OthersStill ==
  ASSUME IInv, Undisturbed, NEW w, Others(w), StoresStill, Leaves(w), NEW v \in Workers, v # w
  PROVE  LeasedOK(v)'
<1>1. /\ LeasedOK(v) /\ pc'[v] = pc[v] /\ my'[v] = my[v] /\ (Holds(v) => Holds(v)')
      /\ UNCHANGED <<mem, events, alias, staged, ckpt, pts>>
  BY CallerFacts DEF Others, Leaves, StoresStill, canonical
<1>2. CurrentRoute' = CurrentRoute /\ Active' = Active
  BY <1>1 DEF CurrentRoute, Active
<1>3. SyncOK(v)'
  BY <1>1, <1>2 DEF LeasedOK, SyncOK, OtherEvent, Fresh
<1>4. ForgetOK(v)'
  BY <1>1 DEF LeasedOK, ForgetOK
<1>5. CopyOK(v)'
  BY <1>1, <1>2 DEF LeasedOK, CopyOK, AllDone
<1>6. StagingOK(v)'
  BY <1>1 DEF LeasedOK, StagingOK, Fresh, Staged, NewVector
<1> QED
  BY <1>1, <1>3, <1>4, <1>5, <1>6 DEF LeasedOK

\* The models of the others' calls.
LEMMA OthersModels ==
  ASSUME Uniform, NEW w, Others(w), Grows, NEW v \in Workers, v # w
  PROVE  ModelsOf(v)'
  BY DEF Uniform, Others, Grows, ModelsOf

\* A step of w keeps the invariant if it keeps what is said of w, of the holder of the
\* lease, of the stores and of the rollbacks.
LEMMA RestoreKeeps ==
  ASSUME IInv, NEW w \in Workers, TypeOK', Others(w), Grows, CallOK(w)',
         \A e \in events' : e[2] <= mem'[e[1]].rev, count'.lapses = count.lapses,
         Undisturbed => /\ \A v \in Workers : v # w => LeasedOK(v)'
                        /\ LeasedOK(w)' /\ RepairOK(w)' /\ Stores',
         Undisturbed /\ Restorable' => Restorable /\ Kept' /\ ModelsOf(w)',
         Undisturbed /\ OnePlan => Restorable'
  PROVE  IInv'
<1>1. Base'
  BY OthersCall DEF Base
<1>2. ASSUME Undisturbed' PROVE Calm'
  <2>1. Undisturbed
    BY <1>2 DEF Undisturbed
  <2>2. \A v \in Workers : RepairOK(v)'
    BY <2>1, OthersRepair
  <2> QED
    BY <2>1, <2>2 DEF Calm
<1>3. ASSUME Undisturbed', Restorable' PROVE Uniform'
  <2>1. Undisturbed /\ Restorable /\ Uniform
    BY <1>3 DEF Undisturbed, IInv
  <2>2. \A v \in Workers : ModelsOf(v)'
    BY <1>3, <2>1, OthersModels
  <2> QED
    BY <1>3, <2>1, <2>2 DEF Uniform
<1>4. ASSUME Undisturbed', OnePlan PROVE Restorable'
  BY <1>4 DEF Undisturbed
<1> QED
  BY <1>1, <1>2, <1>3, <1>4 DEF IInv, OnePlan

\* Such a step that is no rollback.
LEMMA StepKeeps ==
  ASSUME IInv, NEW w \in Workers, TypeOK', Others(w), Grows, CallOK(w)',
         \A e \in events' : e[2] <= mem'[e[1]].rev,
         count'.lapses = count.lapses, count'.foreign = count.foreign,
         Undisturbed => /\ \A v \in Workers : v # w => LeasedOK(v)'
                        /\ LeasedOK(w)' /\ RepairOK(w)' /\ Stores',
         Undisturbed /\ Restorable => Kept' /\ ModelsOf(w)'
  PROVE  IInv'
<1>1. Restorable' <=> Restorable
  BY DEF Restorable
<1>2. Undisturbed /\ OnePlan => Restorable
  BY DEF IInv
<1> QED
  BY <1>1, <1>2, RestoreKeeps

\* The stores are as good as they were.
LEMMA StillGood ==
  ASSUME StoresStill, TypeOK
  PROVE  /\ Grows
         /\ Stores => Stores'
         /\ Kept => Kept'
<1>1. UNCHANGED <<mem, events, alias, staged, ckpt, pts, forgotten>>
  BY DEF StoresStill, canonical
<1>2. CurrentRoute' = CurrentRoute /\ Active' = Active
  BY <1>1 DEF CurrentRoute, Active
<1>3. Grows
  BY <1>1, TypeNow, RowFields DEF Grows
<1>4. ASSUME Stores PROVE Stores'
  <2>1. ASSUME NEW p \in Plans PROVE PlanOK(p)' /\ ServedOK(p)'
    BY <1>1, <1>2, <1>4 DEF Stores, PlanOK, ServedOK, ItemOK, AllDone, Fresh, Staged, VectorOf
  <2>2. ASSUME NEW m \in Memories PROVE (Forward => IndexedOK(m)') /\ TraceOK(m)'
    BY <1>1, <1>2, <1>4 DEF Stores, IndexedOK, TraceOK, Fresh
  <2> QED
    BY <1>1, <2>1, <2>2 DEF Stores, Forward
<1>5. ASSUME Kept PROVE Kept'
  BY <1>1, <1>2, <1>5 DEF Kept, ModelsAt, Settled, AllDone, ModelOf
<1> QED
  BY <1>3, <1>4, <1>5

\* A step of w that touches no store keeps the invariant if it keeps what is said of w.
LEMMA QuietKeeps ==
  ASSUME IInv, NEW w \in Workers, StoresStill, Others(w), CountKept,
         pc' \in [Workers -> Labels], my' \in [Workers -> Locals], lease' \in Leases, CallOK(w)',
         Undisturbed => (Alone(w) \/ Leaves(w)) /\ LeasedOK(w)' /\ RepairOK(w)',
         Undisturbed /\ Restorable => ModelsOf(w)'
  PROVE  IInv'
<1>1. UNCHANGED <<mem, events, alias, staged, ckpt, pts, forgotten>> /\ TypeOK
  BY CallerFacts DEF StoresStill, canonical
<1>2. TypeOK'
  BY <1>1, TypeNow, TypeNext DEF CountKept
<1>3. Undisturbed => \A v \in Workers : v # w => LeasedOK(v)'
  BY OthersAlone, OthersStill
<1>4. \A e \in events' : e[2] <= mem'[e[1]].rev
  BY <1>1, CallerFacts
<1>5. Undisturbed => Stores'
  BY <1>1, CallerFacts, StillGood
<1>6. Undisturbed /\ Restorable => Kept'
  BY <1>1, CallerFacts, StillGood
<1> QED
  BY <1>1, <1>2, <1>3, <1>4, <1>5, <1>6, StillGood, StepKeeps DEF CountKept

-----------------------------------------------------------------------------
(* The moves of a caller and of the lease.                                 *)

\* Nothing is said of a caller at a control point of another kind.
LEMMA Elsewhere ==
  ASSUME NEW w
  PROVE  /\ pc'[w] \in {"idle", "records"} => CallOK(w)'
         /\ pc'[w] \notin Leasing => LeasedOK(w)'
         /\ pc'[w] \notin {"repair", "apply"} => RepairOK(w)'
         /\ pc'[w] \notin {"commit", "sync_write", "sync_done", "records"} => ModelsOf(w)'
  BY DEF CallOK, LeasedOK, SyncOK, ForgetOK, CopyOK, StagingOK, RepairOK, ModelsOf, Leasing, Running,
         SyncPcs, ForgetPcs, ReembedPcs, RollbackPcs, RepairPcs, Staging

\* One caller moves to a label, or stays, and has new locals, or the old ones.
LEMMA MovesTyped ==
  ASSUME TypeOK, NEW w \in Workers, NEW label \in Labels, NEW l \in Locals,
         Goto(w, label) \/ (pc' = pc /\ label = pc[w]),
         my' = [my EXCEPT ![w] = l] \/ (my' = my /\ l = my[w])
  PROVE  /\ pc' \in [Workers -> Labels] /\ my' \in [Workers -> Locals]
         /\ Others(w) /\ pc'[w] = label /\ my'[w] = l
<1>1. /\ pc' \in [Workers -> Labels] /\ pc'[w] = label
      /\ \A v \in Workers : v # w => pc'[v] = pc[v]
  BY TypeNow, GotoTyped
<1>2. /\ my' \in [Workers -> Locals] /\ my'[w] = l
      /\ \A v \in Workers : v # w => my'[v] = my[v]
  BY TypeNow, MyTyped
<1> QED
  BY <1>1, <1>2 DEF Others

\* Who may hold the lease is alone.
LEMMA HoldTyped ==
  ASSUME TypeOK, NEW w \in Workers, Hold(w), MayHold(w)
  PROVE  lease' \in Leases /\ Holds(w)' /\ Alone(w)
<1>1. lease \in Leases
  BY TypeNow
<1> QED
  BY <1>1 DEF Hold, MayHold, Holds, Alone, Leases

\* Who drops the lease leaves another's alone.
LEMMA DropTyped ==
  ASSUME TypeOK, NEW w \in Workers, Drop(w) \/ UNCHANGED lease
  PROVE  lease' \in Leases /\ Leaves(w)
<1>1. lease \in Leases
  BY TypeNow
<1> QED
  BY <1>1, Something DEF Drop, Free, Leaves, Holds, Leases

\* A call ends, with its lease or without one.
LEMMA EndKeeps ==
  ASSUME IInv, NEW w \in Workers, Done(w), StoresStill, CountKept, Drop(w) \/ UNCHANGED lease
  PROVE  IInv'
<1>1. TypeOK /\ "idle" \in Labels /\ NoLocals \in Locals
  BY CallerFacts, NothingTyped DEF Labels
<1>2. /\ pc' \in [Workers -> Labels] /\ my' \in [Workers -> Locals]
      /\ Others(w) /\ pc'[w] = "idle"
  BY <1>1, MovesTyped DEF Done
<1>3. lease' \in Leases /\ Leaves(w)
  BY <1>1, DropTyped
<1>4. CallOK(w)' /\ LeasedOK(w)' /\ RepairOK(w)' /\ ModelsOf(w)'
  BY <1>2, Elsewhere DEF Leasing, SyncPcs, ForgetPcs, ReembedPcs, RollbackPcs
<1> QED
  BY <1>2, <1>3, <1>4, QuietKeeps

LEMMA LeaveKeeps ==
  ASSUME IInv, NEW w \in Workers, Leave(w), StoresStill, UNCHANGED count
  PROVE  IInv'
<1>1. TypeOK
  BY CallerFacts
<1> QED
  BY <1>1, CountTyped, EndKeeps DEF Leave

\* A caller moves on with its lease, or without needing one.
LEMMA MoveKeeps ==
  ASSUME IInv, NEW w \in Workers, StoresStill, CountKept,
         UNCHANGED lease \/ (Hold(w) /\ MayHold(w)),
         NEW label \in Labels, NEW l \in Locals,
         Goto(w, label) \/ (pc' = pc /\ label = pc[w]),
         my' = [my EXCEPT ![w] = l] \/ (my' = my /\ l = my[w]),
         CallOK(w)', Undisturbed => LeasedOK(w)' /\ RepairOK(w)',
         Undisturbed /\ Restorable => ModelsOf(w)'
  PROVE  IInv'
<1>1. TypeOK
  BY CallerFacts
<1>2. pc' \in [Workers -> Labels] /\ my' \in [Workers -> Locals] /\ Others(w)
  BY <1>1, MovesTyped
<1>3. lease' \in Leases /\ (Alone(w) \/ Leaves(w))
  BY <1>1, DropTyped, HoldTyped
<1> QED
  BY <1>2, <1>3, QuietKeeps

-----------------------------------------------------------------------------
(* Ingest and search.                                                      *)

\* An ingest looks at the route.
LEMMA IngestPrepareKeeps ==
  ASSUME IInv, NEW w \in Workers, NEW m \in Memories, IngestPrepare(w, m)
  PROVE  IInv'
<1> DEFINE l == [NoLocals EXCEPT !.m = m, !.route = CurrentRoute]
<1>1. /\ TypeOK /\ StoresStill /\ UNCHANGED lease /\ CountKept /\ Goto(w, "commit")
      /\ my' = [my EXCEPT ![w] = l]
  BY CallerFacts, CountTyped DEF IngestPrepare, StoresStill, Begin
<1>2. l \in Locals /\ "commit" \in Labels /\ CurrentRoute \in Route
  BY <1>1, RouteNow, NothingTyped DEF Locals, Labels
<1>3. pc'[w] = "commit" /\ my'[w] = l /\ l.m = m /\ l.route = CurrentRoute
  <2>1. l.m = m /\ l.route = CurrentRoute
    BY NothingTyped DEF NoLocals
  <2> HIDE DEF l
  <2> QED
    BY <1>1, <1>2, <2>1, MovesTyped
<1> HIDE DEF l
<1>4. CallOK(w)' /\ LeasedOK(w)' /\ RepairOK(w)'
  <2>1. CallOK(w)'
    BY <1>2, <1>3 DEF CallOK, SyncPcs, ForgetPcs, ReembedPcs, RollbackPcs, Staging
  <2> QED
    BY <1>3, <2>1, Elsewhere DEF Leasing, SyncPcs, ForgetPcs, ReembedPcs, RollbackPcs
<1>5. ModelsOf(w)'
  <2>1. alias' = alias
    BY <1>1 DEF StoresStill, canonical
  <2> QED
    BY <1>3, <2>1 DEF ModelsOf, CurrentRoute
<1> QED
  BY <1>1, <1>2, <1>4, <1>5, MoveKeeps

\* A search looks at the route,
LEMMA SearchPrepareKeeps ==
  ASSUME IInv, NEW w \in Workers, SearchPrepare(w)
  PROVE  IInv'
<1> DEFINE l == [NoLocals EXCEPT !.route = CurrentRoute]
<1>1. /\ TypeOK /\ StoresStill /\ UNCHANGED lease /\ CountKept /\ Goto(w, "search")
      /\ my' = [my EXCEPT ![w] = l]
  BY CallerFacts, CountTyped DEF SearchPrepare, StoresStill, Begin
<1>2. l \in Locals /\ "search" \in Labels /\ CurrentRoute \in Route
  BY <1>1, RouteNow, NothingTyped DEF Locals, Labels
<1>3. pc'[w] = "search" /\ my'[w] = l /\ l.route = CurrentRoute
  <2>1. l.route = CurrentRoute
    BY NothingTyped DEF NoLocals
  <2> HIDE DEF l
  <2> QED
    BY <1>1, <1>2, <2>1, MovesTyped
<1> HIDE DEF l
<1>4. CallOK(w)' /\ LeasedOK(w)' /\ RepairOK(w)' /\ ModelsOf(w)'
  <2>1. CallOK(w)'
    BY <1>2, <1>3 DEF CallOK, SyncPcs, ForgetPcs, ReembedPcs, RollbackPcs, Staging
  <2> QED
    BY <1>3, <2>1, Elsewhere DEF Leasing, SyncPcs, ForgetPcs, ReembedPcs, RollbackPcs
<1> QED
  BY <1>1, <1>2, <1>4, MoveKeeps

\* and again before it ranks: the vectors it ranks are those of this second route.
LEMMA SearchVectorsKeeps ==
  ASSUME IInv, NEW w \in Workers, SearchVectors(w)
  PROVE  IInv'
<1> DEFINE points == pts[CurrentRoute.coll]
           found == {<<m, points[m].vec.model>> : m \in {n \in Memories : points[n] # Nobody}}
           hits == IF Comparable(my[w].route) THEN found ELSE {}
           l == [my[w] EXCEPT !.hits = hits]
<1>1. /\ TypeOK /\ StoresStill /\ UNCHANGED lease /\ CountKept /\ Goto(w, "records")
      /\ my' = [my EXCEPT ![w] = l] /\ my[w] \in Locals
  BY CallerFacts, CountTyped DEF SearchVectors, StoresStill
<1>2. CurrentRoute \in Route /\ CurrentRoute.coll \in Collections
  BY <1>1, RouteNow
<1>3. \A m \in Memories : points[m] # Nobody => points[m].vec.model \in Models
  <2>1. points \in [Memories -> Point \cup {Nobody}]
    BY <1>1, <1>2, TypeNow
  <2> QED
    BY <2>1 DEF Point, Vector
<1>4. l \in Locals /\ "records" \in Labels
  BY <1>1, <1>3 DEF Locals, Labels
<1>5. l.hits = hits /\ l.route = my[w].route
  BY <1>1 DEF Locals
<1> HIDE DEF l
<1>6. pc'[w] = "records" /\ my'[w] = l
  BY <1>1, <1>4, MovesTyped
<1>7. CallOK(w)' /\ LeasedOK(w)' /\ RepairOK(w)'
  BY <1>6, Elsewhere DEF Leasing, SyncPcs, ForgetPcs, ReembedPcs, RollbackPcs
<1>8. ASSUME Undisturbed, Restorable PROVE ModelsOf(w)'
  <2>1. /\ \A m \in Memories : points[m] # Nobody => points[m].vec.model = ModelOf(CurrentRoute.coll)
        /\ CurrentRoute.model = ModelOf(CurrentRoute.coll)
    <3>1. Kept
      BY <1>8, CallerFacts
    <3> QED
      BY <1>2, <3>1 DEF Kept, ModelsAt, CurrentRoute, ModelOf
  <2>2. ASSUME NEW h \in hits PROVE Dim[h[2]] = Dim[my[w].route.model]
    <3>1. Comparable(my[w].route) /\ h \in found
      BY <2>2
    <3>2. PICK m \in Memories : points[m] # Nobody /\ h = <<m, points[m].vec.model>>
      BY <3>1
    <3>3. h[2] = CurrentRoute.model
      BY <2>1, <3>2
    <3> QED
      BY <3>1, <3>3 DEF Comparable
  <2> QED
    BY <1>5, <1>6, <2>2 DEF ModelsOf
<1> QED
  BY <1>1, <1>4, <1>7, <1>8, MoveKeeps

\* The answer ends the call.
LEMMA SearchRecordsKeeps ==
  ASSUME IInv, NEW w \in Workers, SearchRecords(w)
  PROVE  IInv'
<1>1. TypeOK
  BY CallerFacts
<1> QED
  BY <1>1, CountTyped, EndKeeps DEF SearchRecords, StoresStill

\* So does a crash, but for the lease.
LEMMA CrashKeeps ==
  ASSUME IInv, NEW w \in Workers, Crash(w)
  PROVE  IInv'
<1>1. TypeOK
  BY CallerFacts
<1> QED
  BY <1>1, CountTyped, EndKeeps DEF Crash, StoresStill

\* A lease that lapses under no caller was no caller's.
LEMMA ExpireKeeps ==
  ASSUME IInv, Expire
  PROVE  IInv'
<1>1. /\ TypeOK /\ StoresStill /\ UNCHANGED <<pc, my>> /\ lease' = [lease EXCEPT !.live = FALSE]
      /\ Base /\ lease \in Leases /\ count \in Counts
  BY TypeNow DEF Expire, IInv, Base, StoresStill
<1>2. UNCHANGED <<mem, events, alias, staged, ckpt, pts, forgotten>>
  BY <1>1 DEF StoresStill, canonical
<1>3. lease' \in Leases /\ count' \in Counts /\ count'.lapses \in Nat
  <2>1. lease' \in Leases
    BY <1>1 DEF Leases
  <2>2. count' = count \/ (count.lapses < MaxLapses /\ count' = [count EXCEPT !.lapses = @ + 1])
    BY DEF Expire
  <2>3. count' \in Counts
    BY <1>1, <2>2, RouteAssumption DEF Counts
  <2> QED
    BY <2>1, <2>3, RouteAssumption DEF Counts
<1>4. TypeOK'
  BY <1>1, <1>2, <1>3, TypeNow, TypeNext
<1>5. Base'
  BY <1>1, <1>2, <1>4 DEF Base, CallOK
<1>6. ASSUME Undisturbed' PROVE /\ Undisturbed /\ ~Working(lease.owner)
  <2>1. count.lapses \in Nat /\ count'.lapses = 0
    BY <1>1, <1>6 DEF Counts, Undisturbed
  <2>2. ~Working(lease.owner)
    BY <1>1, <2>1 DEF Expire, Counts
  <2> QED
    BY <2>1, <2>2 DEF Expire, Undisturbed
<1>7. ASSUME Undisturbed', NEW w \in Workers PROVE LeasedOK(w)' /\ RepairOK(w)'
  <2>1. Undisturbed /\ LeasedOK(w) /\ RepairOK(w)
    BY <1>6, <1>7, CallerFacts
  <2>2. pc[w] \notin Leasing
    <3> SUFFICES ASSUME pc[w] \in Leasing PROVE FALSE
      OBVIOUS
    <3>1. lease.owner = w /\ pc[w] # "idle"
      BY <2>1 DEF LeasedOK, Holds, Leasing, SyncPcs, ForgetPcs, ReembedPcs, RollbackPcs
    <3> QED
      BY <1>6, <1>7, <3>1 DEF Working
  <2>3. LeasedOK(w)'
    BY <1>1, <2>2, Elsewhere
  <2>4. RepairOK(w)'
    BY <1>1, <1>2, <2>1 DEF RepairOK
  <2> QED
    BY <2>3, <2>4
<1>8. ASSUME Undisturbed' PROVE Stores'
  BY <1>1, <1>6, <1>8, StillGood DEF IInv, Calm
<1>9. count'.foreign = count.foreign
  BY <1>1 DEF Expire, Counts
<1>10. Undisturbed' /\ OnePlan => Restorable'
  BY <1>6, <1>9 DEF IInv, Restorable
<1>11. ASSUME Undisturbed', Restorable' PROVE Uniform'
  <2>1. Uniform /\ Kept'
    BY <1>1, <1>6, <1>9, <1>11, StillGood DEF IInv, Uniform, Restorable
  <2>2. \A w \in Workers : ModelsOf(w)'
    BY <1>1, <1>2, <2>1 DEF Uniform, ModelsOf
  <2> QED
    BY <2>1, <2>2 DEF Uniform
<1> QED
  BY <1>5, <1>7, <1>8, <1>10, <1>11 DEF IInv, Calm, OnePlan

-----------------------------------------------------------------------------
(* Calls under the lease that change no store.                             *)

\* A caller that held the lease and renews it, or keeps it, holds it.
LEMMA HoldsOn ==
  ASSUME IInv, Undisturbed, NEW w \in Workers, pc[w] \in Leasing,
         UNCHANGED lease \/ (Hold(w) /\ MayHold(w))
  PROVE  Holds(w)'
<1>1. TypeOK /\ Holds(w)
  BY CallerFacts
<1> QED
  BY <1>1, HoldTyped DEF Holds

\* Where nothing is known but that the lease is held.
LEMMA Plain ==
  ASSUME NEW w, pc'[w] \in {"sync", "sync_delete", "load", "rollback"}, Holds(w)'
  PROVE  LeasedOK(w)' /\ RepairOK(w)' /\ ModelsOf(w)'
  BY DEF LeasedOK, SyncOK, ForgetOK, CopyOK, StagingOK, Running, ReembedPcs, Staging, ForgetPcs,
         RepairOK, ModelsOf

\* An outbox worker claims.
LEMMA SyncClaimKeeps ==
  ASSUME IInv, NEW w \in Workers, NEW e \in events, SyncClaim(w, e)
  PROVE  IInv'
<1> DEFINE l == [NoLocals EXCEPT !.m = e[1], !.rev = e[2]]
<1>1. /\ TypeOK /\ StoresStill /\ CountKept /\ Goto(w, "sync") /\ my' = [my EXCEPT ![w] = l]
      /\ Hold(w) /\ MayHold(w)
  BY CallerFacts, CountTyped DEF SyncClaim, StoresStill, MayHold
<1>2. e[1] \in Memories /\ e[2] \in Nat /\ e[2] <= mem[e[1]].rev
  BY <1>1, TypeNow, CallerFacts
<1>3. l \in Locals /\ l.m = e[1] /\ l.rev = e[2] /\ "sync" \in Labels
  BY <1>2, NothingTyped DEF Locals, Labels, SyncPcs, NoLocals
<1> HIDE DEF l
<1>4. pc'[w] = "sync" /\ my'[w] = l /\ mem' = mem /\ Holds(w)'
  BY <1>1, <1>3, MovesTyped, HoldTyped DEF StoresStill, canonical
<1>5. CallOK(w)'
  BY <1>2, <1>3, <1>4 DEF CallOK, SyncPcs, ForgetPcs, ReembedPcs, RollbackPcs, RepairPcs, Staging
<1>6. LeasedOK(w)' /\ RepairOK(w)' /\ ModelsOf(w)'
  BY <1>4, Plain
<1> QED
  BY <1>1, <1>3, <1>5, <1>6, MoveKeeps

\* It reads the record and the route, and finds what it has to write.
LEMMA SyncReadKeeps ==
  ASSUME IInv, NEW w \in Workers, SyncRead(w)
  PROVE  IInv'
<1> DEFINE m == my[w].m
           r == mem[m]
<1>1. /\ TypeOK /\ StoresStill /\ CountKept /\ UNCHANGED count /\ pc[w] = "sync" /\ my[w] \in Locals
      /\ CallOK(w) /\ pc[w] \in Leasing
  BY CallerFacts, CountTyped DEF SyncRead, StoresStill, Leasing, SyncPcs
<1>2. /\ m \in Memories /\ my[w].rev <= r.rev /\ r \in Row /\ CurrentRoute \in Route
      /\ UNCHANGED <<mem, events, alias, ckpt, pts>> /\ CurrentRoute' = CurrentRoute
  BY <1>1, TypeNow, RouteNow DEF CallOK, SyncPcs, StoresStill, canonical, CurrentRoute
<1>3. CASE Leave(w)
  BY <1>1, <1>3, LeaveKeeps
<1>4. CASE /\ r.status = "deleted" /\ my' = [my EXCEPT ![w].todo = Collections]
           /\ Goto(w, "sync_delete") /\ UNCHANGED lease
  <2> DEFINE l == [my[w] EXCEPT !.todo = Collections]
  <2>1. l \in Locals /\ l.m = m /\ l.rev = my[w].rev /\ l.todo = Collections /\ "sync_delete" \in Labels
        /\ my' = [my EXCEPT ![w] = l]
    BY <1>1, <1>4 DEF Locals, Labels, SyncPcs
  <2> HIDE DEF l
  <2>2. pc'[w] = "sync_delete" /\ my'[w] = l
    BY ZenonT(40), <1>1, <1>4, <2>1, MovesTyped
  <2>3. CallOK(w)'
    BY <1>2, <1>4, <2>1, <2>2
    DEF CallOK, SyncPcs, ForgetPcs, ReembedPcs, RollbackPcs, RepairPcs, Staging
  <2>4. Undisturbed => Holds(w)'
    BY <1>1, <1>4, HoldsOn
  <2>5. Undisturbed => LeasedOK(w)' /\ RepairOK(w)'
    BY <2>2, <2>4, Plain
  <2>6. ModelsOf(w)'
    BY <2>2, Elsewhere
  <2> QED
    BY <1>1, <1>4, <2>1, <2>3, <2>5, <2>6, MoveKeeps
<1>5. CASE /\ r.status = "active"
           /\ my' = [my EXCEPT ![w].route = CurrentRoute, ![w].row = r]
           /\ Goto(w, "sync_write") /\ UNCHANGED lease
  <2> DEFINE l == [my[w] EXCEPT !.route = CurrentRoute, !.row = r]
  <2>1. l \in Locals /\ l.m = m /\ l.rev = my[w].rev /\ l.route = CurrentRoute /\ l.row = r
        /\ "sync_write" \in Labels /\ my' = [my EXCEPT ![w] = l]
    BY <1>1, <1>2, <1>5 DEF Locals, Labels, SyncPcs
  <2> HIDE DEF l
  <2>2. pc'[w] = "sync_write" /\ my'[w] = l
    <3>1. Goto(w, "sync_write")
      BY <1>5
    <3> QED
      BY <1>1, <2>1, <3>1, MovesTyped
  <2>3. CallOK(w)'
    BY <1>2, <2>1, <2>2 DEF CallOK, SyncPcs, ForgetPcs, ReembedPcs, RollbackPcs, RepairPcs, Staging
  <2>4. ASSUME Undisturbed PROVE LeasedOK(w)' /\ RepairOK(w)'
    <3>1. Holds(w)'
      BY <1>1, <1>5, <2>4, HoldsOn
    <3>2. \A p \in Plans : ckpt[p].prints[m] <= r.rev
      BY <1>1, <1>2, <2>4, CallerFacts DEF Stores, PlanOK, ItemOK
    <3>3. SyncOK(w)'
      BY <1>2, <1>5, <2>1, <2>2, <3>2 DEF SyncOK
    <3> QED
      BY <2>2, <3>1, <3>3 DEF LeasedOK, ForgetOK, CopyOK, StagingOK, Running, ReembedPcs, Staging,
                              ForgetPcs, RepairOK
  <2>5. Undisturbed /\ Restorable => ModelsOf(w)'
    <3>1. Undisturbed /\ Restorable => r.vec.model = CurrentRoute.model
      BY <1>1, <1>2, <1>5, CallerFacts DEF Kept
    <3> QED
      BY <2>1, <2>2, <3>1 DEF ModelsOf
  <2> QED
    BY <1>1, <1>5, <2>1, <2>3, <2>4, <2>5, MoveKeeps
<1> QED
  BY <1>3, <1>4, <1>5 DEF SyncRead

\* A forget claims: it has every collection before it.
LEMMA ForgetClaimKeeps ==
  ASSUME IInv, NEW w \in Workers, NEW m \in Memories, ForgetClaim(w, m)
  PROVE  IInv'
<1> DEFINE l == [NoLocals EXCEPT !.m = m, !.todo = Collections]
<1>1. /\ TypeOK /\ StoresStill /\ CountKept /\ Goto(w, "forget") /\ my' = [my EXCEPT ![w] = l]
      /\ Hold(w) /\ MayHold(w)
  BY CallerFacts, CountTyped DEF ForgetClaim, Begin, StoresStill, MayHold
<1>2. l \in Locals /\ l.m = m /\ l.todo = Collections /\ "forget" \in Labels
  BY NothingTyped DEF Locals, Labels, ForgetPcs, NoLocals
<1> HIDE DEF l
<1>3. pc'[w] = "forget" /\ my'[w] = l /\ Holds(w)'
  BY <1>1, <1>2, MovesTyped, HoldTyped
<1>4. CallOK(w)'
  BY <1>2, <1>3 DEF CallOK, SyncPcs, ForgetPcs, ReembedPcs, RollbackPcs, RepairPcs, Staging
<1>5. LeasedOK(w)' /\ RepairOK(w)' /\ ModelsOf(w)'
  <2>1. ForgetOK(w)'
    BY <1>2, <1>3 DEF ForgetOK, Collections
  <2> QED
    BY <1>3, <2>1, Elsewhere DEF LeasedOK, SyncOK, CopyOK, StagingOK, Running, ReembedPcs, Staging
<1> QED
  BY <1>1, <1>2, <1>4, <1>5, MoveKeeps

\* A re-embedding claims.
LEMMA ReembedClaimKeeps ==
  ASSUME IInv, NEW w \in Workers, NEW p \in Plans, NEW supply \in SUBSET Memories,
         NEW input \in Inputs, NEW cutover \in BOOLEAN, ReembedClaim(w, p, supply, input, cutover)
  PROVE  IInv'
<1> DEFINE l == [NoLocals EXCEPT !.p = p, !.supply = supply, !.input = input, !.cutover = cutover]
<1>1. /\ TypeOK /\ StoresStill /\ CountKept /\ Goto(w, "load") /\ my' = [my EXCEPT ![w] = l]
      /\ Hold(w) /\ MayHold(w)
  BY CallerFacts, CountTyped DEF ReembedClaim, Begin, StoresStill, MayHold
<1>2. l \in Locals /\ l.p = p /\ l.input = input /\ "load" \in Labels
  BY NothingTyped DEF Locals, Labels, ReembedPcs, NoLocals
<1> HIDE DEF l
<1>3. pc'[w] = "load" /\ my'[w] = l /\ Holds(w)'
  BY <1>1, <1>2, MovesTyped, HoldTyped
<1>4. CallOK(w)'
  BY <1>2, <1>3 DEF CallOK, SyncPcs, ForgetPcs, ReembedPcs, RollbackPcs, RepairPcs, Staging
<1>5. LeasedOK(w)' /\ RepairOK(w)' /\ ModelsOf(w)'
  BY <1>3, Plain
<1> QED
  BY <1>1, <1>2, <1>4, <1>5, MoveKeeps

\* A rollback claims.
LEMMA RollbackClaimKeeps ==
  ASSUME IInv, NEW w \in Workers, NEW p \in Plans, RollbackClaim(w, p)
  PROVE  IInv'
<1> DEFINE l == [NoLocals EXCEPT !.p = p, !.ck = ckpt[p]]
<1>1. /\ TypeOK /\ StoresStill /\ CountKept /\ Goto(w, "rollback") /\ my' = [my EXCEPT ![w] = l]
      /\ Hold(w) /\ MayHold(w) /\ "rollback" \in Operations
  BY CallerFacts, CountTyped DEF RollbackClaim, Begin, StoresStill, MayHold
<1>2. l \in Locals /\ l.p = p /\ "rollback" \in Labels
  BY <1>1, TypeNow, NothingTyped DEF Locals, Labels, RollbackPcs, NoLocals
<1> HIDE DEF l
<1>3. pc'[w] = "rollback" /\ my'[w] = l /\ Holds(w)'
  BY <1>1, <1>2, MovesTyped, HoldTyped
<1>4. CallOK(w)'
  BY <1>1, <1>2, <1>3 DEF CallOK, SyncPcs, ForgetPcs, ReembedPcs, RollbackPcs, RepairPcs, Staging
<1>5. LeasedOK(w)' /\ RepairOK(w)' /\ ModelsOf(w)'
  BY <1>3, Plain
<1> QED
  BY <1>1, <1>2, <1>4, <1>5, MoveKeeps

\* What is known of a plan that runs.
LEMMA CopyFacts ==
  ASSUME IInv, NEW w \in Workers, pc[w] \in Running
  PROVE  /\ my[w].p \in Plans /\ my[w].input \in Inputs /\ my[w].ck \in Checkpoint
         /\ ckpt[my[w].p] \in Checkpoint /\ pc[w] \in Leasing
         /\ pc[w] \in Staging => my[w].m \in Memories
         /\ Undisturbed /\ pc[w] # "finish" => my[w].ck = ckpt[my[w].p]
         /\ Undisturbed => my[w].ck.status \notin {"none", "rolled_back"}
<1>1. my[w].p \in Plans /\ my[w].input \in Inputs /\ pc[w] \in Leasing
      /\ (pc[w] \in Staging => my[w].m \in Memories)
  BY CallerFacts DEF CallOK, Running, Leasing
<1>2. my[w].ck \in Checkpoint /\ ckpt[my[w].p] \in Checkpoint
  BY <1>1, CallerFacts, Fields, TypeNow
<1>3. Undisturbed => CopyOK(w)
  BY CallerFacts DEF LeasedOK
<1> QED
  BY <1>1, <1>2, <1>3 DEF CopyOK

\* A step of a plan that leaves its checkpoint as it is.
LEMMA PlanStepKeeps ==
  ASSUME IInv, NEW w \in Workers, StoresStill, UNCHANGED count,
         UNCHANGED lease \/ (Hold(w) /\ MayHold(w)), pc[w] \in Running \ {"finish"},
         NEW label \in {"item", "verify", "fail", "finish", "original"}, NEW l \in Locals,
         Goto(w, label) \/ (pc' = pc /\ label = pc[w]),
         my' = [my EXCEPT ![w] = l] \/ (my' = my /\ l = my[w]),
         l.p = my[w].p, l.input = my[w].input,
         l.ck = [my[w].ck EXCEPT !.status = l.ck.status],
         label # "finish" => l.ck = my[w].ck,
         l.ck.status \in {my[w].ck.status, "awaiting_vectors", "completed", "validated"},
         label = "original" => l.m \in Memories,
         Undisturbed =>
           /\ label \in {"item", "original"} => l.todo \subseteq l.ck.sources
           /\ label = "verify" \/ (label = "finish" /\ l.ck.status = "validated") => AllDone(l.ck)
           /\ label = "original" => /\ l.m \in l.ck.sources /\ l.ck.done[l.m] = 0
                                    /\ l.row.rev = l.ck.prints[l.m] /\ mem[l.m].status = "active"
  PROVE  IInv'
<1>1. /\ TypeOK /\ CountKept /\ label \in Labels /\ label \in Running
      /\ UNCHANGED <<mem, events, alias, staged, ckpt, pts>>
  BY CallerFacts, CountTyped DEF Labels, ReembedPcs, Running, StoresStill, canonical
<1>2. pc'[w] = label /\ my'[w] = l
  BY <1>1, MovesTyped
<1>3. l.p \in Plans /\ l.input \in Inputs /\ pc[w] \in Leasing
  BY CopyFacts
<1>4. CallOK(w)'
  BY <1>1, <1>2, <1>3
  DEF CallOK, SyncPcs, ForgetPcs, ReembedPcs, RollbackPcs, RepairPcs, Staging
<1>5. ASSUME Undisturbed PROVE LeasedOK(w)'
  <2>1. Holds(w)'
    BY <1>3, <1>5, HoldsOn
  <2>2. CopyOK(w)'
    <3>1. my[w].ck = ckpt[l.p] /\ my[w].ck.status \notin {"none", "rolled_back"}
      BY <1>5, CopyFacts
    <3>2. l.ck.status \notin {"none", "rolled_back"} /\ l.ck = [ckpt[l.p] EXCEPT !.status = l.ck.status]
          /\ (label # "finish" => l.ck = ckpt[l.p])
      BY <3>1
    <3>3. AllDone(l.ck) => \A m \in l.ck.sources \cap Active' : l.ck.done[m] # 0
      BY <1>1 DEF AllDone, Active
    <3> QED
      BY <1>1, <1>2, <1>5, <3>1, <3>2, <3>3 DEF CopyOK, Staging, AllDone
  <2>3. StagingOK(w)'
    BY <1>1, <1>2, <1>5 DEF StagingOK, Staging
  <2> QED
    BY <1>2, <2>1, <2>2, <2>3 DEF LeasedOK, SyncOK, ForgetOK, ForgetPcs
<1>6. RepairOK(w)' /\ ModelsOf(w)'
  BY <1>2, Elsewhere
<1> QED
  BY <1>1, <1>4, <1>5, <1>6, MoveKeeps

\* A plan meets an error.
LEMMA FailKeeps ==
  ASSUME IInv, NEW w \in Workers, pc[w] \in Running \ {"finish"}, Goto(w, "fail"), StoresStill,
         UNCHANGED <<my, count>>, UNCHANGED lease \/ (Hold(w) /\ MayHold(w))
  PROVE  IInv'
<1>1. my[w].ck \in Checkpoint /\ my[w] \in Locals
  BY CopyFacts, CallerFacts
<1>2. my[w].ck = [my[w].ck EXCEPT !.status = my[w].ck.status]
  BY <1>1 DEF Checkpoint
<1> QED
  BY <1>1, <1>2, PlanStepKeeps

\* One source of a plan is looked at.
LEMMA ReembedItemKeeps ==
  ASSUME IInv, NEW w \in Workers, ReembedItem(w)
  PROVE  IInv'
<1>1. /\ pc[w] = "item" /\ pc[w] \in Running \ {"finish"} /\ StoresStill /\ UNCHANGED count
      /\ my[w] \in Locals /\ my[w].ck \in Checkpoint /\ TypeOK
      /\ Undisturbed => my[w].todo \subseteq my[w].ck.sources
  <2>1. pc[w] = "item" /\ pc[w] \in Running \ {"finish"} /\ StoresStill /\ UNCHANGED count
    BY DEF ReembedItem, Running, ReembedPcs, StoresStill
  <2>2. Undisturbed => CopyOK(w)
    BY CallerFacts DEF LeasedOK
  <2> QED
    BY <2>1, <2>2, CopyFacts, CallerFacts DEF CopyOK
<1>2. my[w].ck = [my[w].ck EXCEPT !.status = my[w].ck.status]
  BY <1>1 DEF Checkpoint
<1>3. CASE Goto(w, "fail") /\ UNCHANGED <<my, lease>>
  BY <1>1, <1>3, FailKeeps
<1>4. ASSUME MayHold(w), Hold(w), NEW m \in my[w].todo,
             \/ Goto(w, "fail") /\ UNCHANGED my
             \/ my' = [my EXCEPT ![w].todo = @ \ {m}] /\ UNCHANGED pc
             \/ /\ SourceUnchanged(w, m) /\ m \in my[w].supply /\ my[w].ck.done[m] = 0
                /\ my' = [my EXCEPT ![w].m = m, ![w].row = mem[m]]
                /\ Goto(w, "original")
      PROVE  IInv'
  <2>1. CASE Goto(w, "fail") /\ UNCHANGED my
    BY <1>1, <1>4, <2>1, FailKeeps
  <2>2. CASE my' = [my EXCEPT ![w].todo = @ \ {m}] /\ UNCHANGED pc
    <3> DEFINE l == [my[w] EXCEPT !.todo = @ \ {m}]
    <3>1. /\ l \in Locals /\ l.p = my[w].p /\ l.input = my[w].input /\ l.ck = my[w].ck
          /\ l.todo \subseteq my[w].todo /\ my' = [my EXCEPT ![w] = l]
      BY <1>1, <2>2 DEF Locals
    <3> HIDE DEF l
    <3> QED
      BY <1>1, <1>2, <1>4, <2>2, <3>1, PlanStepKeeps
  <2>3. CASE /\ SourceUnchanged(w, m) /\ m \in my[w].supply /\ my[w].ck.done[m] = 0
             /\ my' = [my EXCEPT ![w].m = m, ![w].row = mem[m]] /\ Goto(w, "original")
    <3> DEFINE l == [my[w] EXCEPT !.m = m, !.row = mem[m]]
    <3>1. m \in Memories /\ mem[m] \in Row
      BY <1>1, <2>3, Fields, TypeNow
    <3>2. /\ l \in Locals /\ l.p = my[w].p /\ l.input = my[w].input /\ l.ck = my[w].ck
          /\ l.m = m /\ l.row = mem[m] /\ my' = [my EXCEPT ![w] = l] /\ l.todo = my[w].todo
      BY <1>1, <2>3, <3>1 DEF Locals
    <3> HIDE DEF l
    <3>3. mem[m].status = "active" /\ mem[m].rev = l.ck.prints[m] /\ l.ck.done[m] = 0
      BY <2>3, <3>2 DEF SourceUnchanged
    <3> QED
      BY ZenonT(40), <1>1, <1>2, <1>4, <2>3, <3>1, <3>2, <3>3, PlanStepKeeps
  <2> QED
    BY <1>4, <2>1, <2>2, <2>3
<1> QED
  BY <1>3, <1>4 DEF ReembedItem, Renewing

\* All sources were looked at: the plan waits, is measured or fails.
LEMMA ReembedMeasureKeeps ==
  ASSUME IInv, NEW w \in Workers, ReembedMeasure(w)
  PROVE  IInv'
<1> DEFINE ck == my[w].ck
<1>1. /\ pc[w] = "item" /\ pc[w] \in Running \ {"finish"} /\ StoresStill /\ UNCHANGED <<count, lease>>
      /\ my[w] \in Locals /\ ck \in Checkpoint /\ TypeOK
  <2>1. pc[w] = "item" /\ pc[w] \in Running \ {"finish"} /\ StoresStill /\ UNCHANGED <<count, lease>>
    BY DEF ReembedMeasure, Running, ReembedPcs, StoresStill
  <2> QED
    BY <2>1, CopyFacts, CallerFacts
<1>2. CASE my' = [my EXCEPT ![w].ck.status = "awaiting_vectors"] /\ Goto(w, "finish")
  <2> DEFINE l == [my[w] EXCEPT !.ck.status = "awaiting_vectors"]
  <2>1. [ck EXCEPT !.status = "awaiting_vectors"] \in Checkpoint
    BY <1>1 DEF Checkpoint
  <2>2. /\ l \in Locals /\ l.p = my[w].p /\ l.input = my[w].input /\ my' = [my EXCEPT ![w] = l]
        /\ l.ck = [ck EXCEPT !.status = "awaiting_vectors"]
    BY <1>1, <1>2, <2>1 DEF Locals
  <2>3. l.ck.status = "awaiting_vectors"
    BY <1>1, <2>2 DEF Checkpoint
  <2> HIDE DEF l
  <2> QED
    BY <1>1, <1>2, <2>2, <2>3, PlanStepKeeps
<1>3. CASE /\ ~\E m \in ck.sources : ck.done[m] = 0
           /\ my' = [my EXCEPT ![w].todo = ck.sources] /\ Goto(w, "verify")
  <2> DEFINE l == [my[w] EXCEPT !.todo = ck.sources]
  <2>1. /\ l \in Locals /\ l.p = my[w].p /\ l.input = my[w].input /\ my' = [my EXCEPT ![w] = l]
        /\ l.ck = ck
    BY <1>1, <1>3, CheckpointFields DEF Locals
  <2>2. AllDone(ck) /\ ck = [ck EXCEPT !.status = ck.status]
    BY <1>1, <1>3 DEF AllDone, Checkpoint
  <2> HIDE DEF l
  <2> QED
    BY <1>1, <1>3, <2>1, <2>2, PlanStepKeeps
<1>4. CASE Goto(w, "fail") /\ UNCHANGED my
  BY <1>1, <1>4, FailKeeps
<1> QED
  BY <1>2, <1>3, <1>4 DEF ReembedMeasure

\* One source of the shadow is compared with what was acknowledged.
LEMMA ReembedVerifyKeeps ==
  ASSUME IInv, NEW w \in Workers, ReembedVerify(w)
  PROVE  IInv'
<1>1. /\ pc[w] = "verify" /\ pc[w] \in Running \ {"finish"} /\ StoresStill /\ UNCHANGED count
      /\ my[w] \in Locals /\ my[w].ck \in Checkpoint /\ TypeOK
      /\ Undisturbed => AllDone(my[w].ck)
  <2>1. pc[w] = "verify" /\ pc[w] \in Running \ {"finish"} /\ StoresStill /\ UNCHANGED count
    BY DEF ReembedVerify, Running, ReembedPcs, StoresStill
  <2>2. Undisturbed => CopyOK(w)
    BY CallerFacts DEF LeasedOK
  <2> QED
    BY <2>1, <2>2, CopyFacts, CallerFacts DEF CopyOK
<1>2. CASE Goto(w, "fail") /\ UNCHANGED <<my, lease>>
  BY <1>1, <1>2, FailKeeps
<1>3. CASE MayHold(w) /\ Hold(w) /\ Goto(w, "fail") /\ UNCHANGED my
  BY <1>1, <1>3, FailKeeps
<1>4. ASSUME MayHold(w), Hold(w), NEW m \in my[w].todo,
             my' = [my EXCEPT ![w].todo = @ \ {m}], UNCHANGED pc
      PROVE  IInv'
  <2> DEFINE l == [my[w] EXCEPT !.todo = @ \ {m}]
  <2>1. /\ l \in Locals /\ l.p = my[w].p /\ l.input = my[w].input /\ my' = [my EXCEPT ![w] = l]
        /\ l.ck = my[w].ck
    BY <1>1, <1>4 DEF Locals
  <2>2. my[w].ck = [my[w].ck EXCEPT !.status = my[w].ck.status]
    BY <1>1 DEF Checkpoint
  <2> HIDE DEF l
  <2> QED
    BY <1>1, <1>4, <2>1, <2>2, PlanStepKeeps
<1> QED
  BY <1>2, <1>3, <1>4 DEF ReembedVerify, Renewing

-----------------------------------------------------------------------------
(* index_repair, but for its writes.                                       *)

\* The claims of a repair leave no caller with the lease.
LEMMA RepairLease ==
  ASSUME IInv, NEW w \in Workers
  PROVE  /\ RepairClaim(w) => lease' \in Leases /\ Leaves(w)
         /\ RepairRelease(w) => lease' \in Leases /\ Leaves(w)
<1>1. lease \in Leases
  BY CallerFacts, TypeNow
<1>2. ASSUME RepairClaim(w) PROVE lease' \in Leases /\ Leaves(w)
  BY <1>1, <1>2, Something DEF RepairClaim, MayHold, Leaves, Holds, Leases
<1>3. ASSUME RepairRelease(w) PROVE lease' \in Leases /\ Leaves(w)
  BY <1>1, <1>3, Something DEF RepairRelease, Free, Leaves, Holds, Leases
<1> QED
  BY <1>2, <1>3

\* A repair begins with the route of the moment.
LEMMA RepairClaimKeeps ==
  ASSUME IInv, NEW w \in Workers, RepairClaim(w)
  PROVE  IInv'
<1> DEFINE l == [NoLocals EXCEPT !.route = CurrentRoute, !.rev = lease.fence + 1]
<1>1. /\ TypeOK /\ StoresStill /\ CountKept /\ Goto(w, "scroll") /\ my' = [my EXCEPT ![w] = l]
      /\ lease' \in Leases /\ Leaves(w)
  BY CallerFacts, CountTyped, RepairLease DEF RepairClaim, Begin, StoresStill
<1>2. l \in Locals /\ l.route = CurrentRoute /\ CurrentRoute \in Route /\ "scroll" \in Labels
  <2>1. lease.fence + 1 \in Nat
    BY <1>1, TypeNow DEF Leases
  <2> QED
    BY <1>1, <2>1, RouteNow, NothingTyped DEF Locals, Labels, RepairPcs, NoLocals
<1> HIDE DEF l
<1>3. /\ pc' \in [Workers -> Labels] /\ my' \in [Workers -> Locals]
      /\ Others(w) /\ pc'[w] = "scroll" /\ my'[w] = l
  BY <1>1, <1>2, MovesTyped
<1>4. CallOK(w)'
  BY <1>2, <1>3 DEF CallOK, SyncPcs, ForgetPcs, ReembedPcs, RollbackPcs, RepairPcs, Staging
<1>5. LeasedOK(w)' /\ RepairOK(w)' /\ ModelsOf(w)'
  BY <1>3, Elsewhere DEF Leasing, SyncPcs, ForgetPcs, ReembedPcs, RollbackPcs
<1> QED
  BY <1>1, <1>3, <1>4, <1>5, QuietKeeps

\* It finds legacy points, of memories there are or were,
LEMMA RepairScrollKeeps ==
  ASSUME IInv, NEW w \in Workers, RepairScroll(w)
  PROVE  IInv'
<1> DEFINE points == pts[my[w].route.coll]
           l == [my[w] EXCEPT !.todo = {m \in Memories : points[m] # Nobody /\ ~points[m].fresh}]
<1>1. /\ TypeOK /\ StoresStill /\ CountKept /\ UNCHANGED lease /\ Goto(w, "repair")
      /\ my' = [my EXCEPT ![w] = l] /\ my[w] \in Locals /\ pc[w] = "scroll" /\ CallOK(w)
  BY CallerFacts, CountTyped DEF RepairScroll, StoresStill
<1>2. l \in Locals /\ l.route = my[w].route /\ "repair" \in Labels
      /\ l.todo = {m \in Memories : points[m] # Nobody /\ ~points[m].fresh}
  BY <1>1 DEF Locals, Labels, RepairPcs
<1> HIDE DEF l
<1>3. pc'[w] = "repair" /\ my'[w] = l /\ mem' = mem
  BY <1>1, <1>2, MovesTyped DEF StoresStill, canonical
<1>4. my[w].route \in Route /\ my[w].route.coll \in Collections
  BY <1>1 DEF CallOK, RepairPcs, Route
<1>5. CallOK(w)'
  BY <1>2, <1>3, <1>4 DEF CallOK, SyncPcs, ForgetPcs, ReembedPcs, RollbackPcs, RepairPcs, Staging
<1>6. Undisturbed => RepairOK(w)'
  <2>1. Undisturbed => \A m \in l.todo : mem[m].status # "absent"
    BY <1>2, <1>4, CallerFacts DEF Stores, TraceOK
  <2> QED
    BY <1>3, <2>1 DEF RepairOK
<1>7. LeasedOK(w)' /\ ModelsOf(w)'
  BY <1>3, Elsewhere DEF Leasing, SyncPcs, ForgetPcs, ReembedPcs, RollbackPcs
<1> QED
  BY <1>1, <1>2, <1>5, <1>6, <1>7, MoveKeeps

\* and reads the record of one: what is not active then is deleted for good.
LEMMA RepairReadKeeps ==
  ASSUME IInv, NEW w \in Workers, RepairRead(w)
  PROVE  IInv'
<1>1. /\ TypeOK /\ StoresStill /\ CountKept /\ UNCHANGED lease /\ Goto(w, "apply")
      /\ my[w] \in Locals /\ pc[w] = "repair" /\ CallOK(w) /\ (Undisturbed => RepairOK(w))
  BY CallerFacts, CountTyped DEF RepairRead, StoresStill
<1>2. PICK m \in my[w].todo : my' = [my EXCEPT ![w].m = m, ![w].row = mem[m], ![w].todo = @ \ {m}]
  BY DEF RepairRead
<1> DEFINE l == [my[w] EXCEPT !.m = m, !.row = mem[m], !.todo = @ \ {m}]
<1>3. m \in Memories /\ mem[m] \in Row /\ my[w].todo \subseteq Memories /\ my[w].route \in Route
  BY <1>1, <1>2, TypeNow DEF CallOK, RepairPcs
<1>4. l \in Locals /\ l.route = my[w].route /\ l.m = m /\ l.row = mem[m] /\ "apply" \in Labels
      /\ l.todo = my[w].todo \ {m} /\ my' = [my EXCEPT ![w] = l]
  BY <1>1, <1>2, <1>3 DEF Locals, Labels, RepairPcs
<1> HIDE DEF l
<1>5. pc'[w] = "apply" /\ my'[w] = l /\ mem' = mem
  BY <1>1, <1>4, MovesTyped DEF StoresStill, canonical
<1>6. CallOK(w)'
  BY <1>3, <1>4, <1>5 DEF CallOK, SyncPcs, ForgetPcs, ReembedPcs, RollbackPcs, RepairPcs, Staging
<1>7. Undisturbed => RepairOK(w)'
  <2>1. mem[m].status \in {"absent", "active", "deleted"}
    BY <1>3, RowFields
  <2> QED
    BY <1>1, <1>2, <1>4, <1>5, <2>1 DEF RepairOK
<1>8. LeasedOK(w)' /\ ModelsOf(w)'
  BY <1>5, Elsewhere DEF Leasing, SyncPcs, ForgetPcs, ReembedPcs, RollbackPcs
<1> QED
  BY <1>1, <1>4, <1>6, <1>7, <1>8, MoveKeeps

\* The repair ends.
LEMMA RepairReleaseKeeps ==
  ASSUME IInv, NEW w \in Workers, RepairRelease(w)
  PROVE  IInv'
<1>1. TypeOK /\ "idle" \in Labels /\ NoLocals \in Locals /\ StoresStill /\ CountKept
  BY CallerFacts, CountTyped, NothingTyped DEF Labels, RepairRelease, StoresStill
<1>2. /\ pc' \in [Workers -> Labels] /\ my' \in [Workers -> Locals]
      /\ Others(w) /\ pc'[w] = "idle"
  BY <1>1, MovesTyped DEF Done, RepairRelease
<1>3. CallOK(w)' /\ LeasedOK(w)' /\ RepairOK(w)' /\ ModelsOf(w)'
  BY <1>2, Elsewhere DEF Leasing, SyncPcs, ForgetPcs, ReembedPcs, RollbackPcs
<1> QED
  BY <1>1, <1>2, <1>3, RepairLease, QuietKeeps

-----------------------------------------------------------------------------
(* Calls that write.                                                       *)

\* The holder of the lease writes a store.
LEMMA WriteKeeps ==
  ASSUME IInv, NEW w \in Workers, pc[w] \in Leasing, TypeOK', Others(w), Grows, CallOK(w)',
         \A e \in events' : e[2] <= mem'[e[1]].rev, count' = count,
         Undisturbed => LeasedOK(w)' /\ RepairOK(w)' /\ Stores',
         Undisturbed /\ Restorable => Kept' /\ ModelsOf(w)'
  PROVE  IInv'
<1>1. Undisturbed => \A v \in Workers : v # w => LeasedOK(v)'
  BY CallerFacts, OthersAlone
<1> QED
  BY <1>1, StepKeeps

\* What is known of the stores.
LEMMA StoreFacts ==
  ASSUME IInv, Undisturbed
  PROVE  /\ \A p \in Plans : PlanOK(p) /\ ServedOK(p)
         /\ \A p \in Plans, m \in Memories : ItemOK(p, m)
         /\ Forward => \A m \in Memories : IndexedOK(m)
         /\ \A m \in Memories : TraceOK(m)
  BY DEF IInv, Calm, Stores, PlanOK

\* What is said of an item holds as long as nothing of it changes.
LEMMA ItemStill ==
  ASSUME NEW p \in Plans, NEW m \in Memories, ItemOK(p, m), mem'[m].rev = mem[m].rev,
         mem'[m].status = mem[m].status, UNCHANGED alias,
         ckpt'[p].prints[m] = ckpt[p].prints[m], ckpt'[p].done[m] = ckpt[p].done[m],
         m \in ckpt'[p].sources <=> m \in ckpt[p].sources,
         staged'[Shadow[p]][m] = staged[Shadow[p]][m], pts'[Shadow[p]][m] = pts[Shadow[p]][m]
  PROVE  ItemOK(p, m)'
  BY DEF ItemOK, Staged, Fresh, VectorOf

\* What is said of a plan that is served or done holds if rows and checkpoint stay.
LEMMA ServedStill ==
  ASSUME NEW p \in Plans, ServedOK(p), UNCHANGED <<mem, alias>>, ckpt'[p] = ckpt[p]
  PROVE  ServedOK(p)'
  BY DEF ServedOK, AllDone, Active, VectorOf

LEMMA SettledStill ==
  ASSUME Settled, UNCHANGED <<mem, alias, ckpt>>
  PROVE  Settled'
  BY DEF Settled, AllDone, Active

LEMMA PlanStill ==
  ASSUME NEW p \in Plans, PlanOK(p), UNCHANGED <<mem, alias>>, ckpt'[p] = ckpt[p],
         \A m \in Memories : ItemOK(p, m)'
  PROVE  PlanOK(p)'
  BY DEF PlanOK, AllDone, Active, NoCheckpoint

-----------------------------------------------------------------------------
(* Ingest.                                                                 *)

\* A memory is written while a plan may run, or be over: it is pending.
LEMMA IngestCommitKeeps ==
  ASSUME IInv, NEW w \in Workers, IngestCommit(w)
  PROVE  IInv'
<1> DEFINE m == my[w].m
           n == mem[m].rev + 1
           new == [status |-> "active", rev |-> n, vec |-> [model |-> my[w].route.model, input |-> 0]]
<1>1. /\ TypeOK /\ pc[w] = "commit" /\ CallOK(w) /\ Done(w) /\ UNCHANGED <<lease, count>> /\ CountKept
      /\ UNCHANGED <<alias, staged, ckpt, pts, forgotten>>
  BY CallerFacts, CountTyped DEF IngestCommit
<1>2. CASE UNCHANGED <<mem, events>>
  BY <1>1, <1>2, EndKeeps DEF StoresStill, canonical
<1>3. CASE /\ RouteHolds(my[w].route) /\ mem[m].status # "deleted"
           /\ mem' = [mem EXCEPT ![m] = new] /\ events' = events \cup {<<m, n>>}
  <2>1. /\ m \in Memories /\ my[w].route \in Route /\ mem \in [Memories -> Row]
        /\ mem[m].rev \in Nat /\ n \in Nat /\ n > mem[m].rev
        /\ mem[m].status \in {"absent", "active", "deleted"}
    BY <1>1, TypeNow, RowFields DEF CallOK
  <2>2. new \in Row
    BY <2>1 DEF Row, Vector, Route
  <2>3. new.status = "active" /\ new.rev = n /\ new.vec.model = my[w].route.model
    OBVIOUS
  <2> HIDE DEF new, n
  <2>4. /\ mem' \in [Memories -> Row] /\ mem'[m] = new
        /\ \A k \in Memories : k # m => mem'[k] = mem[k]
    BY <1>3, <2>1, <2>2
  <2>5. /\ events' \subseteq Memories \X Nat
        /\ \A e \in events' : e \in events \/ e = <<m, n>>
        /\ events \subseteq events' /\ <<m, n>> \in events'
    BY <1>1, <1>3, <2>1, TypeNow
  <2>6. "idle" \in Labels /\ NoLocals \in Locals
    BY NothingTyped DEF Labels
  <2>7. /\ pc' \in [Workers -> Labels] /\ my' \in [Workers -> Locals]
        /\ Others(w) /\ pc'[w] = "idle"
    BY <1>1, <2>6, MovesTyped DEF Done
  <2>8. TypeOK'
    BY <1>1, <2>4, <2>5, <2>7, TypeNow, TypeNext DEF CountKept
  <2>9. CallOK(w)' /\ LeasedOK(w)' /\ RepairOK(w)' /\ ModelsOf(w)'
    BY <2>7, Elsewhere DEF Leasing, SyncPcs, ForgetPcs, ReembedPcs, RollbackPcs
  <2>10. Grows
    BY <1>1, <1>3, <2>1, <2>3, <2>4, TypeNow, RowFields DEF Grows
  <2>11. \A e \in events' : e[2] <= mem'[e[1]].rev
    <3> SUFFICES ASSUME NEW e \in events' PROVE e[2] <= mem'[e[1]].rev
      OBVIOUS
    <3>1. CASE e = <<m, n>>
      BY <2>1, <2>3, <2>4, <3>1
    <3>2. CASE e \in events
      <4>1. e[1] \in Memories /\ e[2] \in Nat /\ e[2] <= mem[e[1]].rev
        BY <1>1, <3>2, CallerFacts, TypeNow
      <4>2. mem[e[1]].rev \in Nat /\ mem'[e[1]].rev \in Nat /\ mem[e[1]].rev <= mem'[e[1]].rev
        BY <2>1, <2>4, <2>10, <4>1, RowFields DEF Grows
      <4> QED
        BY <4>1, <4>2
    <3> QED
      BY <2>5, <3>1, <3>2
  <2>12. CurrentRoute' = CurrentRoute /\ (Forward' <=> Forward)
    BY <1>1 DEF CurrentRoute, Forward
  <2>13. ASSUME Undisturbed, NEW p \in Plans
         PROVE  /\ ckpt[p].sources \cap Active' = ckpt[p].sources \cap Active
                /\ \A k \in Memories : ItemOK(p, k)'
                /\ \A k \in Memories : ckpt[p].prints[k] \in Nat /\ ckpt[p].prints[k] <= mem[k].rev
    <3>1. \A k \in Memories : ItemOK(p, k)
      BY <2>13, StoreFacts
    <3>2. /\ ckpt[p].prints \in [Memories -> Nat] /\ ckpt[p].done \in [Memories -> Inputs \cup {0}]
          /\ ckpt[p].sources \subseteq Memories
      BY <1>1, TypeNow, CheckpointFields
    <3>3. ckpt[p].sources \cap Active' = ckpt[p].sources \cap Active
      <4>1. m \in ckpt[p].sources => mem[m].status = "active"
        BY <1>3, <2>1, <3>1 DEF ItemOK
      <4> QED
        BY <2>3, <2>4, <3>2, <4>1 DEF Active
    <3>4. ASSUME NEW k \in Memories, k # m PROVE ItemOK(p, k)'
      BY <1>1, <2>4, <3>1, <3>4, ItemStill
    <3>5. ASSUME NEW k \in Memories, k = m PROVE ItemOK(p, k)'
      <4>1. /\ ItemOK(p, m) /\ ckpt[p].prints[m] \in Nat /\ ckpt[p].prints[m] <= n
            /\ ckpt[p].prints[m] # n /\ UNCHANGED <<staged, ckpt, pts, alias>>
        BY <1>1, <2>1, <3>1, <3>2 DEF ItemOK
      <4>2. ckpt[p].done[m] # 0 => m \in ckpt[p].sources /\ mem[m].status = "active"
        BY <1>3, <2>1, <4>1 DEF ItemOK
      <4>3. mem'[m].rev = n /\ mem'[m].status = "active"
        BY <2>3, <2>4
      <4>4. ckpt[p].done[m] # 0 => Staged(Shadow[p], m, ckpt[p].prints[m], VectorOf(p, ckpt[p].done[m]))
        BY <4>1, <4>2 DEF ItemOK
      <4>5. ckpt[p].done[m] # 0 /\ alias = Nobody =>
              Fresh(Shadow[p], m, ckpt[p].prints[m], VectorOf(p, ckpt[p].done[m]))
        BY <4>1, <4>2 DEF ItemOK
      <4>6. staged[Shadow[p]][m] # Nobody => m \in ckpt[p].sources
        BY <4>1 DEF ItemOK
      <4> QED
        BY <3>5, <4>1, <4>2, <4>3, <4>4, <4>5, <4>6 DEF ItemOK, Staged, Fresh, VectorOf
    <3>6. \A k \in Memories : ckpt[p].prints[k] \in Nat /\ ckpt[p].prints[k] <= mem[k].rev
      BY <3>1, <3>2 DEF ItemOK
    <3> QED
      BY <3>3, <3>4, <3>5, <3>6
  <2>14. ASSUME Undisturbed, NEW p \in Plans PROVE PlanOK(p)' /\ ServedOK(p)'
    <3>1. PlanOK(p) /\ ServedOK(p)
      BY <2>14, StoreFacts
    <3>2. AllDone(ckpt[p]) => AllDone(ckpt[p])'
      BY <1>1, <2>13, <2>14 DEF AllDone
    <3>3. PlanOK(p)'
      BY <1>1, <2>13, <2>14, <3>1, <3>2 DEF PlanOK, NoCheckpoint
    <3>4. ServedOK(p)'
      <4> SUFFICES ASSUME alias' # Nobody, alias'.coll = Shadow[p] PROVE ServedOK(p)'
        BY DEF ServedOK
      <4>1. ASSUME NEW k \in ckpt[p].sources \cap Active', mem'[k].rev = ckpt[p].prints[k]
            PROVE  mem'[k].vec = VectorOf(p, ckpt[p].done[k])
        <5>1. k \in Memories /\ k \in ckpt[p].sources \cap Active
          BY <2>13, <2>14, <4>1 DEF Active
        <5>2. k # m
          BY <2>1, <2>3, <2>4, <2>13, <2>14, <4>1
        <5> QED
          BY <1>1, <2>4, <3>1, <4>1, <5>1, <5>2 DEF ServedOK
      <4> QED
        BY <1>1, <3>1, <3>2, <4>1 DEF ServedOK, VectorOf
    <3> QED
      BY <3>3, <3>4
  <2>15. ASSUME Undisturbed, NEW k \in Memories PROVE (Forward => IndexedOK(k)') /\ TraceOK(k)'
    <3>1. (Forward => IndexedOK(k)) /\ TraceOK(k)
      BY <2>15, StoreFacts
    <3>2. Forward => IndexedOK(k)'
      <4>1. CASE k = m
        BY <2>5, <4>1 DEF IndexedOK
      <4>2. CASE k # m
        BY <1>1, <2>4, <2>5, <2>12, <3>1, <4>2 DEF IndexedOK, Fresh
      <4> QED
        BY <4>1, <4>2
    <3>3. TraceOK(k)'
      BY <1>1, <1>3, <2>3, <2>4, <3>1 DEF TraceOK
    <3> QED
      BY <3>2, <3>3
  <2>16. Undisturbed => Stores'
    BY <2>12, <2>14, <2>15 DEF Stores
  <2>17. ASSUME Undisturbed, NEW v \in Workers, v # w PROVE LeasedOK(v)'
    <3>1. /\ LeasedOK(v) /\ CallOK(v) /\ pc'[v] = pc[v] /\ my'[v] = my[v] /\ my[v] \in Locals
          /\ Holds(v)' = Holds(v)
      BY <1>1, <2>7, <2>17, CallerFacts DEF Others, Holds
    <3>2. SyncOK(v)'
      <4> SUFFICES ASSUME pc[v] \in {"sync_write", "sync_done"} PROVE SyncOK(v)'
        BY <3>1 DEF SyncOK
      <4>1. /\ SyncOK(v) /\ my[v].m \in Memories /\ my[v].rev \in Nat /\ my[v].row.rev \in Nat
            /\ my[v].rev <= mem[my[v].m].rev
        BY <3>1, Fields, RowFields DEF LeasedOK, CallOK, SyncPcs
      <4>2. CASE my[v].m = m
        <5>1. my[v].row.rev <= mem[m].rev
          BY <2>1, <4>1, <4>2 DEF SyncOK
        <5>2. n > my[v].row.rev /\ n # my[v].rev /\ mem'[m].rev = n
          BY <2>1, <2>3, <2>4, <4>1, <4>2, <5>1
        <5>3. mem'[m] # my[v].row /\ OtherEvent(v)'
          BY <2>1, <2>5, <3>1, <4>1, <4>2, <5>2 DEF OtherEvent
        <5> QED
          BY <1>1, <2>3, <2>4, <2>12, <3>1, <4>1, <4>2, <5>2, <5>3 DEF SyncOK
      <4>3. CASE my[v].m # m
        <5>1. OtherEvent(v) => OtherEvent(v)'
          BY <2>5, <3>1 DEF OtherEvent
        <5> QED
          BY <1>1, <2>4, <2>12, <3>1, <4>1, <4>3, <5>1 DEF SyncOK, Fresh
      <4> QED
        BY <4>2, <4>3
    <3>3. ForgetOK(v)'
      BY <1>1, <3>1 DEF LeasedOK, ForgetOK
    <3>4. CopyOK(v)'
      <4> SUFFICES ASSUME pc[v] \in Running PROVE CopyOK(v)'
        BY <3>1 DEF CopyOK
      <4>1. CopyOK(v) /\ my[v].p \in Plans /\ my[v].ck \in Checkpoint
        BY <3>1, CopyFacts DEF LeasedOK
      <4>2. my[v].ck.sources = ckpt[my[v].p].sources /\ my[v].ck.done = ckpt[my[v].p].done
        BY <1>1, <4>1, TypeNow DEF CopyOK, Checkpoint
      <4>3. AllDone(my[v].ck) => AllDone(my[v].ck)'
        BY <2>13, <2>17, <3>1, <4>1, <4>2 DEF AllDone
      <4> QED
        BY <1>1, <3>1, <4>1, <4>3 DEF CopyOK
    <3>5. StagingOK(v)'
      <4> SUFFICES ASSUME pc[v] \in Staging PROVE StagingOK(v)'
        BY <3>1 DEF StagingOK
      <4>1. my[v].m \in Memories /\ StagingOK(v)
        BY <3>1 DEF CallOK, LeasedOK
      <4> QED
        BY <1>1, <2>3, <2>4, <3>1, <4>1 DEF StagingOK, Fresh, Staged, NewVector
    <3> QED
      BY <1>1, <3>1, <3>2, <3>3, <3>4, <3>5 DEF LeasedOK
  <2>18. ASSUME Undisturbed, Restorable PROVE Kept'
    <3>1. Kept /\ ModelsOf(w)
      BY <2>18, CallerFacts
    <3>2. new.vec.model = CurrentRoute.model
      BY <1>1, <1>3, <2>3, <3>1 DEF ModelsOf, RouteHolds, CurrentRoute
    <3>3. Settled'
      <4>1. \A p \in Plans : AllDone(ckpt[p]) => AllDone(ckpt[p])'
        BY <1>1, <2>13, <2>18 DEF AllDone
      <4> QED
        BY <1>1, <3>1, <4>1 DEF Kept, Settled
    <3>4. \A c \in Collections, k \in Memories : ModelsAt(c, k)'
      BY <1>1, <3>1 DEF Kept, ModelsAt, ModelOf
    <3>5. (alias # Nobody => alias.model = ModelOf(alias.coll))'
      BY <1>1, <3>1 DEF Kept, ModelOf
    <3> QED
      BY <2>4, <2>12, <3>1, <3>2, <3>3, <3>4, <3>5 DEF Kept
  <2> QED
    BY <1>1, <2>7, <2>8, <2>9, <2>10, <2>11, <2>16, <2>17, <2>18, StepKeeps
<1> QED
  BY <1>2, <1>3 DEF IngestCommit

-----------------------------------------------------------------------------
(* Points of deleted memories go, and points take new metadata.            *)

SamePoint(c, m) ==
  /\ pts'[c][m] = Nobody <=> pts[c][m] = Nobody
  /\ pts'[c][m].rev = pts[c][m].rev /\ pts'[c][m].vec = pts[c][m].vec

Thinned ==
  \A c \in Collections, m \in Memories :
    SamePoint(c, m) \/ (pts'[c][m] = Nobody /\ mem[m].status = "deleted")

\* The stores are then as good as before.
LEMMA ThinnedStores ==
  ASSUME IInv, Undisturbed, Thinned, UNCHANGED <<canonical, ckpt, forgotten>>
  PROVE  Stores' /\ (Restorable => Kept')
<1>1. UNCHANGED <<mem, events, alias, staged, ckpt, forgotten>>
  BY DEF canonical
<1>2. /\ CurrentRoute' = CurrentRoute /\ Active' = Active /\ TypeOK /\ CurrentRoute.coll \in Collections
      /\ \A p \in Plans : Shadow[p] \in Collections
  BY <1>1, RouteNow, NothingTyped DEF CurrentRoute, Active, IInv, Base
<1>3. ASSUME NEW c \in Collections, NEW m \in Memories, NEW rev, NEW vec,
             mem[m].status # "deleted", Fresh(c, m, rev, vec)
      PROVE  Fresh(c, m, rev, vec)'
  BY <1>3 DEF Thinned, SamePoint, Fresh
<1>4. ASSUME NEW p \in Plans PROVE PlanOK(p)' /\ ServedOK(p)'
  <2>1. PlanOK(p) /\ ServedOK(p)
    BY StoreFacts
  <2>2. ASSUME NEW m \in Memories PROVE ItemOK(p, m)'
    <3>1. ItemOK(p, m)
      BY StoreFacts
    <3>2. /\ mem[m].status = "active" /\ ckpt[p].done[m] # 0
          /\ alias = Nobody \/ mem[m].rev = ckpt[p].prints[m]
          => Fresh(Shadow[p], m, ckpt[p].prints[m], VectorOf(p, ckpt[p].done[m]))'
      BY <1>1, <1>2, <1>3, <3>1 DEF ItemOK, VectorOf
    <3> QED
      BY <1>1, <3>1, <3>2 DEF ItemOK, Staged, VectorOf
  <2> QED
    BY <1>1, <2>1, <2>2, ServedStill, PlanStill
<1>5. ASSUME NEW m \in Memories PROVE (Forward => IndexedOK(m)') /\ TraceOK(m)'
  <2>1. (Forward => IndexedOK(m)) /\ TraceOK(m)
    BY StoreFacts
  <2>2. Forward => IndexedOK(m)'
    BY <1>1, <1>2, <1>3, <2>1 DEF IndexedOK
  <2>3. TraceOK(m)'
    BY <1>1, <2>1 DEF TraceOK, Thinned, SamePoint
  <2> QED
    BY <2>2, <2>3
<1>6. Stores'
  BY <1>1, <1>4, <1>5 DEF Stores, Forward
<1>7. ASSUME Restorable PROVE Kept'
  <2>1. Kept
    BY <1>7 DEF IInv, Uniform
  <2>2. ASSUME NEW c \in Collections, NEW m \in Memories PROVE ModelsAt(c, m)'
    <3>1. ModelsAt(c, m) /\ ModelOf(c)' = ModelOf(c)
      BY <2>1 DEF Kept, ModelOf
    <3>2. pts'[c][m] # Nobody => pts[c][m] # Nobody /\ pts'[c][m].vec = pts[c][m].vec
      BY DEF Thinned, SamePoint
    <3> QED
      BY <1>1, <3>1, <3>2 DEF ModelsAt
  <2>3. Settled'
    BY <1>1, <2>1, SettledStill DEF Kept
  <2> QED
    BY <1>1, <1>2, <2>1, <2>2, <2>3 DEF Kept, ModelOf
<1> QED
  BY <1>6, <1>7

\* So is what the holder of the lease knows.
LEMMA ThinnedOthers ==
  ASSUME IInv, Undisturbed, Thinned, UNCHANGED <<canonical, ckpt, lease>>, NEW w, Others(w),
         NEW v \in Workers, v # w
  PROVE  LeasedOK(v)'
<1>1. /\ LeasedOK(v) /\ CallOK(v) /\ pc'[v] = pc[v] /\ my'[v] = my[v] /\ Holds(v)' = Holds(v)
      /\ UNCHANGED <<mem, events, alias, staged, ckpt>> /\ TypeOK
  BY CallerFacts DEF Others, canonical, Holds
<1>2. CurrentRoute' = CurrentRoute /\ Active' = Active /\ CurrentRoute.coll \in Collections
  BY <1>1, RouteNow DEF CurrentRoute, Active
<1>3. ASSUME NEW c \in Collections, NEW m \in Memories, NEW rev, NEW vec,
             mem[m].status # "deleted", Fresh(c, m, rev, vec)
      PROVE  Fresh(c, m, rev, vec)'
  BY <1>3 DEF Thinned, SamePoint, Fresh
<1>4. SyncOK(v)'
  <2> SUFFICES ASSUME pc[v] \in {"sync_write", "sync_done"} PROVE SyncOK(v)'
    BY <1>1 DEF SyncOK
  <2>1. SyncOK(v) /\ my[v].m \in Memories /\ my[v].route = CurrentRoute /\ mem[my[v].m].status = "active"
    BY <1>1 DEF LeasedOK, CallOK, SyncPcs, SyncOK
  <2>2. pc[v] = "sync_done" /\ mem[my[v].m] = my[v].row =>
          Fresh(my[v].route.coll, my[v].m, my[v].row.rev, my[v].row.vec)'
    BY <1>1, <1>2, <1>3, <2>1 DEF SyncOK
  <2>3. OtherEvent(v)' = OtherEvent(v)
    BY <1>1 DEF OtherEvent
  <2> QED
    BY <1>1, <1>2, <2>1, <2>2, <2>3 DEF SyncOK
<1>5. ForgetOK(v)'
  <2> SUFFICES ASSUME pc[v] \in ForgetPcs PROVE ForgetOK(v)'
    BY <1>1 DEF ForgetOK
  <2>1. ForgetOK(v) /\ my[v].m \in Memories
    BY <1>1 DEF LeasedOK, CallOK
  <2> QED
    BY <1>1, <2>1 DEF ForgetOK, Thinned, SamePoint
<1>6. CopyOK(v)'
  BY <1>1, <1>2 DEF LeasedOK, CopyOK, AllDone
<1>7. StagingOK(v)'
  <2> SUFFICES ASSUME pc[v] \in Staging PROVE StagingOK(v)'
    BY <1>1 DEF StagingOK
  <2>1. StagingOK(v) /\ my[v].m \in Memories /\ Shadow[my[v].p] \in Collections
    BY <1>1, NothingTyped DEF LeasedOK, CallOK, Staging, ReembedPcs
  <2>2. pc[v] \in {"stage", "save_item"} => Fresh(Shadow[my[v].p], my[v].m, my[v].row.rev, NewVector(v))'
    BY <1>1, <1>3, <2>1 DEF StagingOK, NewVector
  <2> QED
    BY <1>1, <2>1, <2>2 DEF StagingOK, Staged, NewVector
<1> QED
  BY <1>1, <1>4, <1>5, <1>6, <1>7 DEF LeasedOK

\* A point goes.
LEMMA DeletedThins ==
  ASSUME TypeOK, NEW c \in Collections, NEW m \in Memories, Delete(c, m), mem[m].status = "deleted"
  PROVE  /\ pts' \in [Collections -> [Memories -> Point \cup {Nobody}]]
         /\ pts'[c][m] = Nobody /\ Thinned
<1>1. /\ pts' \in [Collections -> [Memories -> Point \cup {Nobody}]]
      /\ pts'[c][m] = Nobody
      /\ \A d \in Collections, n \in Memories : d # c \/ n # m => pts'[d][n] = pts[d][n]
  BY ZenonT(40), PointTyped DEF Delete
<1> QED
  BY <1>1 DEF Thinned, SamePoint

\* Repair writes the metadata of a point, or removes that of a deleted memory.
LEMMA RepairApplyKeeps ==
  ASSUME IInv, NEW w \in Workers, RepairApply(w)
  PROVE  IInv'
<1> DEFINE c == my[w].route.coll
           m == my[w].m
           x == Repaired(pts[c][m], my[w].row)
<1>1. /\ TypeOK /\ pc[w] = "apply" /\ CallOK(w) /\ Goto(w, "repair") /\ (Undisturbed => RepairOK(w))
      /\ pts' = [pts EXCEPT ![c][m] = x]
      /\ UNCHANGED <<canonical, ckpt, lease, forgotten, my, count>> /\ CountKept /\ my[w] \in Locals
  BY CallerFacts, CountTyped DEF RepairApply
<1>2. /\ c \in Collections /\ m \in Memories /\ my[w].todo \subseteq Memories /\ my[w].route \in Route
      /\ UNCHANGED <<mem, events, alias, staged>>
  BY <1>1 DEF CallOK, RepairPcs, Route, canonical
<1>3. pts[c][m] \in Point \cup {Nobody}
  BY <1>1, <1>2, TypeNow
<1>4. x \in Point \cup {Nobody} /\ (pts[c][m] # Nobody /\ my[w].row.status = "active" =>
                                      x # Nobody /\ x.rev = pts[c][m].rev /\ x.vec = pts[c][m].vec)
      /\ (pts[c][m] = Nobody \/ my[w].row.status # "active" => x = Nobody)
  BY <1>3, Something DEF Repaired, Point
<1> HIDE DEF x
<1>5. /\ pts' \in [Collections -> [Memories -> Point \cup {Nobody}]]
      /\ pts'[c][m] = x
      /\ \A d \in Collections, n \in Memories : d # c \/ n # m => pts'[d][n] = pts[d][n]
  <2>1. TypeOK /\ c \in Collections /\ m \in Memories /\ x \in Point \cup {Nobody}
        /\ pts' = [pts EXCEPT ![c][m] = x]
    BY <1>1, <1>2, <1>4
  <2> HIDE DEF c, m
  <2> QED
    BY ZenonT(40), <2>1, PointTyped
<1>6. Undisturbed => Thinned
  <2>1. Undisturbed => SamePoint(c, m) \/ (x = Nobody /\ mem[m].status = "deleted")
    BY <1>1, <1>4, <1>5 DEF SamePoint, RepairOK
  <2>2. \A d \in Collections, n \in Memories : d # c \/ n # m => SamePoint(d, n)
    BY <1>5 DEF SamePoint
  <2> QED
    BY <1>5, <2>1, <2>2 DEF Thinned
<1>7. /\ pc' \in [Workers -> Labels] /\ my' \in [Workers -> Locals]
      /\ Others(w) /\ pc'[w] = "repair" /\ my'[w] = my[w]
  BY <1>1, MovesTyped DEF Labels, RepairPcs
<1>8. TypeOK'
  BY <1>1, <1>2, <1>5, <1>7, TypeNow, TypeNext DEF CountKept
<1>9. CallOK(w)'
  BY <1>2, <1>7 DEF CallOK, SyncPcs, ForgetPcs, ReembedPcs, RollbackPcs, RepairPcs, Staging
<1>10. Undisturbed => RepairOK(w)'
  BY <1>1, <1>2, <1>7 DEF RepairOK
<1>11. LeasedOK(w)' /\ ModelsOf(w)'
  BY <1>7, Elsewhere DEF Leasing, SyncPcs, ForgetPcs, ReembedPcs, RollbackPcs
<1>12. Grows /\ \A e \in events' : e[2] <= mem'[e[1]].rev
  BY <1>1, <1>2, CallerFacts, TypeNow, RowFields DEF Grows
<1>13. Undisturbed => \A v \in Workers : v # w => LeasedOK(v)'
  BY <1>1, <1>6, <1>7, ThinnedOthers
<1>14. Undisturbed => Stores' /\ (Restorable => Kept')
  BY <1>1, <1>6, ThinnedStores
<1> QED
  BY <1>1, <1>7, <1>8, <1>9, <1>10, <1>11, <1>12, <1>13, <1>14, StepKeeps

-----------------------------------------------------------------------------
(* Outbox workers.                                                         *)

\* An event is done with when its memory is deleted, is written or has another event.
LEMMA EventGoneKeeps ==
  ASSUME IInv, NEW w \in Workers, pc[w] \in {"sync_delete", "sync_done"}, Leave(w),
         events' = events \ {<<my[w].m, my[w].rev>>},
         UNCHANGED <<mem, alias, staged, ckpt, pts, forgotten, count>>
  PROVE  IInv'
<1> DEFINE m == my[w].m
<1>1. /\ TypeOK /\ CallOK(w) /\ m \in Memories /\ pc[w] \in Leasing /\ Done(w) /\ CountKept
      /\ "idle" \in Labels /\ NoLocals \in Locals
  BY CallerFacts, CountTyped, NothingTyped DEF CallOK, SyncPcs, Leasing, Leave, Labels
<1>2. /\ pc' \in [Workers -> Labels] /\ my' \in [Workers -> Locals]
      /\ Others(w) /\ pc'[w] = "idle"
  BY <1>1, MovesTyped DEF Done
<1>3. lease' \in Leases
  BY <1>1, DropTyped DEF Leave
<1>4. TypeOK'
  BY <1>1, <1>2, <1>3, TypeNow, TypeNext DEF CountKept
<1>5. CallOK(w)' /\ LeasedOK(w)' /\ RepairOK(w)' /\ ModelsOf(w)'
  BY <1>2, Elsewhere DEF Leasing, SyncPcs, ForgetPcs, ReembedPcs, RollbackPcs
<1>6. Grows /\ \A e \in events' : e[2] <= mem'[e[1]].rev
  BY <1>1, CallerFacts, TypeNow, RowFields DEF Grows
<1>7. CurrentRoute' = CurrentRoute /\ Active' = Active
  BY DEF CurrentRoute, Active
<1>8. ASSUME Undisturbed PROVE Stores'
  <2>1. ASSUME NEW p \in Plans PROVE PlanOK(p)' /\ ServedOK(p)'
    <3>1. PlanOK(p) /\ ServedOK(p) /\ \A k \in Memories : ItemOK(p, k)
      BY <1>8, StoreFacts
    <3>2. \A k \in Memories : ItemOK(p, k)'
      BY <3>1, ItemStill
    <3> QED
      BY <3>1, <3>2, ServedStill, PlanStill
  <2>2. ASSUME NEW k \in Memories PROVE (Forward => IndexedOK(k)') /\ TraceOK(k)'
    <3>1. (Forward => IndexedOK(k)) /\ TraceOK(k)
      BY <1>8, StoreFacts
    <3>2. CASE k # m
      BY <1>7, <3>1, <3>2 DEF IndexedOK, TraceOK, Fresh
    <3>3. CASE k = m /\ pc[w] = "sync_delete"
      BY <1>1, <3>1, <3>3 DEF IndexedOK, TraceOK, CallOK
    <3>4. CASE k = m /\ pc[w] = "sync_done"
      <4>1. SyncOK(w)
        BY <1>8, CallerFacts DEF LeasedOK
      <4>2. (\A e \in events' : e[1] # m) => ~OtherEvent(w)
        BY DEF OtherEvent
      <4>3. (\A e \in events' : e[1] # m) => Fresh(CurrentRoute.coll, m, mem[m].rev, mem[m].vec)
        BY <3>4, <4>1, <4>2 DEF SyncOK
      <4>4. IndexedOK(k)'
        BY <1>7, <3>4, <4>3 DEF IndexedOK, Fresh
      <4> QED
        BY <3>1, <4>4 DEF TraceOK
    <3> QED
      BY <3>2, <3>3, <3>4
  <2> QED
    BY <2>1, <2>2 DEF Stores, Forward
<1>9. ASSUME Undisturbed, Restorable PROVE Kept'
  <2>1. Kept
    BY <1>9, CallerFacts
  <2>2. \A c \in Collections, k \in Memories : ModelsAt(c, k)'
    BY <2>1 DEF Kept, ModelsAt, ModelOf
  <2>3. Settled'
    BY <2>1, SettledStill DEF Kept
  <2> QED
    BY <1>7, <2>1, <2>2, <2>3 DEF Kept, ModelOf
<1> QED
  BY <1>1, <1>2, <1>4, <1>5, <1>6, <1>8, <1>9, WriteKeeps

\* The end of a synchronisation.
LEMMA SyncDoneKeeps ==
  ASSUME IInv, NEW w \in Workers, SyncDone(w)
  PROVE  IInv'
<1>1. CASE events' = events
  BY <1>1, LeaveKeeps DEF SyncDone, StoresStill, canonical
<1>2. CASE events' = events \ {<<my[w].m, my[w].rev>>}
  BY <1>2, EventGoneKeeps DEF SyncDone
<1> QED
  BY <1>1, <1>2 DEF SyncDone

\* One collection loses the point of a deleted memory, or the call ends.
LEMMA SyncDeleteKeeps ==
  ASSUME IInv, NEW w \in Workers, SyncDelete(w)
  PROVE  IInv'
<1>1. /\ TypeOK /\ CallOK(w) /\ pc[w] = "sync_delete" /\ pc[w] \in Leasing /\ my[w] \in Locals
      /\ UNCHANGED <<mem, alias, staged, ckpt, forgotten, count>> /\ CountKept
  BY CallerFacts, CountTyped DEF SyncDelete, Leasing, SyncPcs
<1>2. CASE /\ events' = events \ {<<my[w].m, my[w].rev>>} /\ Leave(w) /\ UNCHANGED pts
  BY <1>1, <1>2, EventGoneKeeps
<1>3. CASE Leave(w) /\ UNCHANGED <<pts, events>>
  BY <1>1, <1>3, LeaveKeeps DEF StoresStill, canonical
<1>4. ASSUME MayHold(w), Hold(w), UNCHANGED <<pc, events>>, NEW c \in my[w].todo, Delete(c, my[w].m),
             my' = [my EXCEPT ![w].todo = @ \ {c}]
      PROVE  IInv'
  <2> DEFINE l == [my[w] EXCEPT !.todo = @ \ {c}]
             label == pc[w]
  <2>1. /\ my[w].m \in Memories /\ c \in Collections /\ mem[my[w].m].status = "deleted"
        /\ my[w].todo \subseteq Collections /\ my[w].rev <= mem[my[w].m].rev
    BY <1>1, <1>4 DEF CallOK, SyncPcs
  <2>2. /\ l \in Locals /\ l.m = my[w].m /\ l.rev = my[w].rev /\ l.todo \subseteq my[w].todo
        /\ my' = [my EXCEPT ![w] = l] /\ label \in Labels
    BY <1>1, <1>4 DEF Locals, Labels, SyncPcs
  <2> HIDE DEF l
  <2>3. /\ pc' \in [Workers -> Labels] /\ my' \in [Workers -> Locals]
        /\ Others(w) /\ pc'[w] = "sync_delete" /\ my'[w] = l
    BY <1>1, <1>4, <2>2, MovesTyped
  <2>4. lease' \in Leases /\ Holds(w)'
    BY <1>1, <1>4, HoldTyped
  <2>5. pts' \in [Collections -> [Memories -> Point \cup {Nobody}]] /\ Thinned
    BY <1>1, <1>4, <2>1, DeletedThins
  <2>6. TypeOK'
    BY <1>1, <1>4, <2>3, <2>4, <2>5, TypeNow, TypeNext DEF CountKept
  <2>7. CallOK(w)'
    BY <1>1, <2>1, <2>2, <2>3 DEF CallOK, SyncPcs, ForgetPcs, ReembedPcs, RollbackPcs, RepairPcs, Staging
  <2>8. LeasedOK(w)' /\ RepairOK(w)' /\ ModelsOf(w)'
    BY <2>3, <2>4, Plain
  <2>9. Grows /\ \A e \in events' : e[2] <= mem'[e[1]].rev
    BY <1>1, <1>4, CallerFacts, TypeNow, RowFields DEF Grows
  <2>10. Undisturbed => Stores' /\ (Restorable => Kept')
    BY <1>1, <1>4, <2>5, ThinnedStores DEF canonical
  <2> QED
    BY <1>1, <2>3, <2>6, <2>7, <2>8, <2>9, <2>10, WriteKeeps
<1> QED
  BY <1>2, <1>3, <1>4 DEF SyncDelete

\* The point of a memory is written as the row was read; while the route is at the shadow
\* of a plan, that is what the plan acknowledged, or the memory is pending again.
LEMMA SyncWriteKeeps ==
  ASSUME IInv, NEW w \in Workers, SyncWrite(w)
  PROVE  IInv'
<1>1. /\ TypeOK /\ CallOK(w) /\ pc[w] = "sync_write" /\ pc[w] \in Leasing /\ my[w] \in Locals
      /\ UNCHANGED <<canonical, ckpt, forgotten, count>> /\ CountKept
      /\ UNCHANGED <<mem, events, alias, staged>>
  BY CallerFacts, CountTyped DEF SyncWrite, Leasing, SyncPcs, canonical
<1>2. CASE Leave(w) /\ UNCHANGED pts
  BY <1>1, <1>2, LeaveKeeps DEF StoresStill
<1>3. ASSUME MayHold(w), Hold(w), Upsert(my[w].route.coll, my[w].m, my[w].row.rev, my[w].row.vec),
             Goto(w, "sync_done"), UNCHANGED my,
             NEW c \in Collections, c = my[w].route.coll, NEW m \in Memories, m = my[w].m,
             NEW row \in Row, row = my[w].row
      PROVE  IInv'
  <2> DEFINE x == [rev |-> row.rev, vec |-> row.vec, fresh |-> FALSE]
  <2>1. x \in Point /\ x # Nobody /\ x.rev = row.rev /\ x.vec = row.vec
    BY RowFields, Something DEF Point
  <2> HIDE DEF x
  <2>2. /\ pts' \in [Collections -> [Memories -> Point \cup {Nobody}]]
        /\ pts'[c][m] = x
        /\ \A d \in Collections, k \in Memories : d # c \/ k # m => pts'[d][k] = pts[d][k]
    <3>1. pts' = [pts EXCEPT ![c][m] = x]
      BY <1>3 DEF Upsert, x
    <3> QED
      BY ZenonT(40), <1>1, <2>1, <3>1, PointTyped
  <2>3. /\ pc' \in [Workers -> Labels] /\ my' \in [Workers -> Locals]
        /\ Others(w) /\ pc'[w] = "sync_done" /\ my'[w] = my[w]
    BY <1>1, <1>3, MovesTyped DEF Labels, SyncPcs
  <2>4. lease' \in Leases /\ Holds(w)'
    BY <1>1, <1>3, HoldTyped
  <2>5. TypeOK'
    BY <1>1, <2>2, <2>3, <2>4, TypeNow, TypeNext DEF CountKept
  <2>6. CallOK(w)'
    BY <1>1, <2>3 DEF CallOK, SyncPcs, ForgetPcs, ReembedPcs, RollbackPcs, RepairPcs, Staging
  <2>7. Grows /\ \A e \in events' : e[2] <= mem'[e[1]].rev
    BY <1>1, CallerFacts, TypeNow, RowFields DEF Grows
  <2>8. CurrentRoute' = CurrentRoute /\ Active' = Active
    BY <1>1 DEF CurrentRoute, Active
  <2>9. ASSUME Undisturbed
        PROVE  /\ mem[m].status = "active" /\ c = CurrentRoute.coll /\ my[w].route = CurrentRoute
               /\ \A p \in Plans : ckpt[p].prints[m] <= row.rev
               /\ mem[m] = row \/ (mem[m].rev > row.rev /\ OtherEvent(w))
    BY <1>1, <1>3, <2>9, CallerFacts DEF LeasedOK, SyncOK
  <2>10. ASSUME Undisturbed PROVE LeasedOK(w)' /\ RepairOK(w)'
    <3>1. Fresh(c, m, row.rev, row.vec)'
      BY <2>1, <2>2 DEF Fresh
    <3>2. OtherEvent(w)' = OtherEvent(w)
      BY <1>1, <1>3 DEF OtherEvent
    <3>3. SyncOK(w)'
      BY <1>1, <1>3, <2>3, <2>8, <2>9, <2>10, <3>1, <3>2 DEF SyncOK
    <3> QED
      BY <2>3, <2>4, <3>3 DEF LeasedOK, ForgetOK, CopyOK, StagingOK, Running, ReembedPcs, Staging,
                              ForgetPcs, RepairOK
  <2>11. ASSUME Undisturbed, NEW p \in Plans PROVE PlanOK(p)' /\ ServedOK(p)'
    <3>1. PlanOK(p) /\ ServedOK(p) /\ \A k \in Memories : ItemOK(p, k)
      BY <2>11, StoreFacts
    <3>2. ASSUME NEW k \in Memories, k # m \/ Shadow[p] # c PROVE ItemOK(p, k)'
      <4>1. pts'[Shadow[p]][k] = pts[Shadow[p]][k]
        BY <2>2, <3>2, NothingTyped
      <4> QED
        BY <1>1, <3>1, <4>1, ItemStill
    <3>3. ASSUME Shadow[p] = c PROVE ItemOK(p, m)'
      <4>1. /\ ckpt[p].prints[m] \in Nat /\ mem[m].rev \in Nat /\ row.rev \in Nat
            /\ ckpt[p].prints[m] <= row.rev /\ ItemOK(p, m)
        BY <1>1, <2>9, <2>11, <3>1, TypeNow, CheckpointFields, RowFields
      <4>2. alias # Nobody /\ alias.coll = Shadow[p]
        BY <2>9, <2>11, <3>3, RouteAssumption DEF CurrentRoute
      <4>3. ASSUME ckpt[p].done[m] # 0, mem[m].rev = ckpt[p].prints[m]
            PROVE  row.rev = ckpt[p].prints[m] /\ row.vec = VectorOf(p, ckpt[p].done[m])
        <5>1. mem[m] = row
          BY <2>9, <2>11, <4>1, <4>3
        <5>2. m \in ckpt[p].sources \cap Active
          BY <2>9, <2>11, <4>1, <4>3 DEF ItemOK, Active
        <5> QED
          BY <3>1, <4>2, <4>3, <5>1, <5>2 DEF ServedOK
      <4>4. ckpt[p].done[m] # 0 /\ mem[m].rev = ckpt[p].prints[m] =>
              Fresh(Shadow[p], m, ckpt[p].prints[m], VectorOf(p, ckpt[p].done[m]))'
        BY <1>1, <2>1, <2>2, <3>3, <4>3 DEF Fresh, VectorOf
      <4> QED
        BY <1>1, <4>1, <4>2, <4>4 DEF ItemOK, Staged, VectorOf
    <3>4. \A k \in Memories : ItemOK(p, k)'
      BY <3>2, <3>3
    <3> QED
      BY <1>1, <3>1, <3>4, ServedStill, PlanStill
  <2>12. ASSUME Undisturbed, NEW k \in Memories PROVE (Forward => IndexedOK(k)') /\ TraceOK(k)'
    <3>1. (Forward => IndexedOK(k)) /\ TraceOK(k)
      BY <2>12, StoreFacts
    <3>2. CASE k # m
      <4>1. \A d \in Collections : pts'[d][k] = pts[d][k]
        BY <2>2, <3>2
      <4>2. CurrentRoute.coll \in Collections
        BY <1>1, RouteNow
      <4> QED
        BY <1>1, <2>8, <3>1, <4>1, <4>2 DEF IndexedOK, TraceOK, Fresh
    <3>3. CASE k = m
      <4>1. (\A e \in events : e[1] # m) => mem[m] = row
        BY <1>3, <2>9, <2>12 DEF OtherEvent
      <4>2. IndexedOK(k)'
        BY <1>1, <2>1, <2>2, <2>8, <2>9, <2>12, <3>3, <4>1 DEF IndexedOK, Fresh
      <4> QED
        BY <1>1, <2>9, <2>12, <3>1, <3>3, <4>2 DEF TraceOK
    <3> QED
      BY <3>2, <3>3
  <2>13. Undisturbed => Stores'
    BY <1>1, <2>11, <2>12 DEF Stores, Forward
  <2>14. ASSUME Undisturbed, Restorable PROVE Kept' /\ ModelsOf(w)'
    <3>1. Kept /\ ModelsOf(w)
      BY <2>14, CallerFacts
    <3>2. row.vec.model = ModelOf(c) /\ ModelsOf(w)'
      <4>1. row.vec.model = CurrentRoute.model
        BY <1>1, <1>3, <2>9, <2>14, <3>1 DEF ModelsOf
      <4>2. CurrentRoute.model = ModelOf(CurrentRoute.coll)
        BY <3>1 DEF Kept, CurrentRoute, ModelOf
      <4> QED
        BY <1>1, <1>3, <2>3, <2>9, <2>14, <4>1, <4>2 DEF ModelsOf
    <3>3. ASSUME NEW d \in Collections, NEW k \in Memories PROVE ModelsAt(d, k)'
      <4>1. ModelsAt(d, k) /\ ModelOf(d)' = ModelOf(d)
        BY <3>1 DEF Kept, ModelOf
      <4>2. pts'[d][k] # Nobody => pts'[d][k].vec.model = ModelOf(d)
        BY <2>1, <2>2, <3>2, <4>1 DEF ModelsAt
      <4> QED
        BY <1>1, <4>1, <4>2 DEF ModelsAt
    <3>4. Settled'
      BY <1>1, <3>1, SettledStill DEF Kept
    <3> QED
      BY <1>1, <2>8, <3>1, <3>2, <3>3, <3>4 DEF Kept, ModelOf
  <2> QED
    BY <1>1, <2>3, <2>5, <2>6, <2>7, <2>10, <2>13, <2>14, WriteKeeps
<1>4. my[w].route.coll \in Collections /\ my[w].m \in Memories /\ my[w].row \in Row
  BY <1>1, Fields DEF CallOK, SyncPcs, Route
<1> QED
  BY <1>1, <1>2, <1>3, <1>4 DEF SyncWrite

-----------------------------------------------------------------------------
(* Forget.                                                                 *)

\* A row that is deleted is neither active nor a source that counts.
LEMMA ForgetCommitKeeps ==
  ASSUME IInv, NEW w \in Workers, ForgetCommit(w)
  PROVE  IInv'
<1>1. /\ TypeOK /\ CallOK(w) /\ pc[w] = "forget" /\ pc[w] \in Leasing /\ my[w] \in Locals
      /\ Goto(w, "forget_delete") /\ my[w].m \in Memories /\ my[w].todo \subseteq Collections
      /\ UNCHANGED <<alias, staged, ckpt, pts, lease, forgotten, my, count>> /\ CountKept
  BY CallerFacts, CountTyped DEF ForgetCommit, Leasing, ForgetPcs, CallOK
<1> SUFFICES ASSUME NEW m \in Memories, m = my[w].m PROVE IInv'
  BY <1>1
<1> DEFINE n == mem[m].rev + 1
           gone == [mem[m] EXCEPT !.status = "deleted", !.rev = n]
<1>2. mem[m] \in Row /\ mem[m].rev \in Nat /\ n \in Nat /\ n > mem[m].rev
  BY <1>1, TypeNow, RowFields
<1>3. gone \in Row /\ gone.status = "deleted" /\ gone.rev = n
  BY <1>2 DEF Row
<1>4. mem' = [mem EXCEPT ![m] = gone] /\ events' = events \cup {<<m, n>>}
  BY DEF ForgetCommit
<1> HIDE DEF gone, n
<1>5. /\ mem' \in [Memories -> Row] /\ mem'[m] = gone
      /\ \A k \in Memories : k # m => mem'[k] = mem[k]
  BY <1>1, <1>3, <1>4, TypeNow
<1>6. /\ events' \subseteq Memories \X Nat
      /\ \A e \in events' : e \in events \/ e = <<m, n>>
      /\ events \subseteq events'
  BY <1>1, <1>2, <1>4, TypeNow
<1>7. /\ pc' \in [Workers -> Labels] /\ my' \in [Workers -> Locals]
      /\ Others(w) /\ pc'[w] = "forget_delete" /\ my'[w] = my[w]
  BY <1>1, MovesTyped DEF Labels, ForgetPcs
<1>8. TypeOK'
  BY <1>1, <1>5, <1>6, <1>7, TypeNow, TypeNext DEF CountKept
<1>9. CallOK(w)'
  BY <1>1, <1>3, <1>5, <1>7 DEF CallOK, SyncPcs, ForgetPcs, ReembedPcs, RollbackPcs, RepairPcs, Staging
<1>10. Grows
  BY <1>1, <1>2, <1>3, <1>5, TypeNow, RowFields DEF Grows
<1>11. \A e \in events' : e[2] <= mem'[e[1]].rev
  <2> SUFFICES ASSUME NEW e \in events' PROVE e[2] <= mem'[e[1]].rev
    OBVIOUS
  <2>1. CASE e = <<m, n>>
    BY <1>2, <1>3, <1>5, <2>1
  <2>2. CASE e \in events
    <3>1. e[1] \in Memories /\ e[2] \in Nat /\ e[2] <= mem[e[1]].rev
      BY <1>1, <2>2, CallerFacts, TypeNow
    <3>2. mem[e[1]].rev \in Nat /\ mem'[e[1]].rev \in Nat /\ mem[e[1]].rev <= mem'[e[1]].rev
      BY <1>1, <1>5, <1>10, <3>1, TypeNow, RowFields DEF Grows
    <3> QED
      BY <3>1, <3>2
  <2> QED
    BY <1>6, <2>1, <2>2
<1>12. CurrentRoute' = CurrentRoute /\ Active' = Active \ {m}
  BY <1>1, <1>3, <1>5 DEF CurrentRoute, Active
<1>13. ASSUME Undisturbed PROVE LeasedOK(w)' /\ RepairOK(w)'
  <2>1. ForgetOK(w) /\ Holds(w)
    BY <1>1, <1>13, CallerFacts DEF LeasedOK
  <2>2. ForgetOK(w)' /\ Holds(w)'
    BY <1>1, <1>7, <2>1 DEF ForgetOK, ForgetPcs, Holds
  <2> QED
    BY <1>7, <2>2 DEF LeasedOK, SyncOK, CopyOK, StagingOK, Running, ReembedPcs, Staging, RepairOK
<1>14. ASSUME Undisturbed, NEW p \in Plans PROVE PlanOK(p)' /\ ServedOK(p)'
  <2>1. PlanOK(p) /\ ServedOK(p) /\ \A k \in Memories : ItemOK(p, k)
    BY <1>14, StoreFacts
  <2>2. ASSUME NEW k \in Memories, k # m PROVE ItemOK(p, k)'
    BY <1>1, <1>5, <2>1, <2>2, ItemStill
  <2>3. ItemOK(p, m)'
    <3>1. ItemOK(p, m) /\ ckpt[p].prints[m] \in Nat /\ ckpt[p].prints[m] <= n
      <4>1. ItemOK(p, m) /\ ckpt[p].prints[m] \in Nat
        BY <1>1, <2>1, TypeNow, CheckpointFields
      <4> QED
        BY <1>2, <4>1 DEF ItemOK
    <3> QED
      BY <1>1, <1>3, <1>5, <3>1 DEF ItemOK
  <2>4. AllDone(ckpt[p]) => AllDone(ckpt[p])'
    BY <1>1, <1>12 DEF AllDone
  <2>5. PlanOK(p)'
    BY <1>1, <2>1, <2>2, <2>3, <2>4 DEF PlanOK, NoCheckpoint
  <2>6. ServedOK(p)'
    <3>1. \A k \in ckpt[p].sources \cap Active' : mem'[k] = mem[k] /\ k \in Active
      BY <1>5, <1>12 DEF Active
    <3> QED
      BY <1>1, <2>1, <2>4, <3>1 DEF ServedOK, VectorOf
  <2> QED
    BY <2>5, <2>6
<1>15. ASSUME Undisturbed, NEW k \in Memories PROVE (Forward => IndexedOK(k)') /\ TraceOK(k)'
  <2>1. (Forward => IndexedOK(k)) /\ TraceOK(k)
    BY <1>15, StoreFacts
  <2>2. CASE k # m
    BY <1>1, <1>5, <1>6, <1>12, <2>1, <2>2 DEF IndexedOK, TraceOK, Fresh
  <2>3. CASE k = m
    BY <1>1, <1>3, <1>5, <2>1, <2>3 DEF IndexedOK, TraceOK
  <2> QED
    BY <2>2, <2>3
<1>16. Undisturbed => Stores'
  BY <1>1, <1>14, <1>15 DEF Stores, Forward
<1>17. ASSUME Undisturbed, Restorable PROVE Kept'
  <2>1. Kept
    BY <1>17, CallerFacts
  <2>2. \A c \in Collections, k \in Memories : ModelsAt(c, k)'
    BY <1>1, <2>1 DEF Kept, ModelsAt, ModelOf
  <2>3. Settled'
    BY <1>1, <1>12, <2>1 DEF Kept, Settled, AllDone
  <2>4. \A k \in Memories : mem'[k].status = "active" => mem'[k].vec.model = CurrentRoute'.model
    BY <1>3, <1>5, <1>12, <2>1 DEF Kept
  <2> QED
    BY <1>1, <2>1, <2>2, <2>3, <2>4 DEF Kept, ModelOf
<1>18. ModelsOf(w)'
  BY <1>7, Elsewhere
<1> QED
  BY <1>1, <1>7, <1>8, <1>9, <1>10, <1>11, <1>13, <1>16, <1>17, <1>18, WriteKeeps

\* One collection loses the point.
LEMMA ForgetDeleteKeeps ==
  ASSUME IInv, NEW w \in Workers, ForgetDelete(w)
  PROVE  IInv'
<1>1. /\ TypeOK /\ CallOK(w) /\ pc[w] = "forget_delete" /\ pc[w] \in Leasing /\ my[w] \in Locals
      /\ UNCHANGED <<canonical, ckpt, lease, forgotten, pc, count>> /\ CountKept
      /\ UNCHANGED <<mem, events, alias, staged>>
  BY CallerFacts, CountTyped DEF ForgetDelete, Leasing, ForgetPcs, canonical
<1>2. PICK c \in my[w].todo : Delete(c, my[w].m) /\ my' = [my EXCEPT ![w].todo = @ \ {c}]
  BY DEF ForgetDelete
<1> DEFINE l == [my[w] EXCEPT !.todo = @ \ {c}]
           label == pc[w]
<1>3. /\ my[w].m \in Memories /\ c \in Collections /\ mem[my[w].m].status = "deleted"
      /\ my[w].todo \subseteq Collections
  BY <1>1, <1>2 DEF CallOK, ForgetPcs
<1>4. /\ l \in Locals /\ l.m = my[w].m /\ l.todo = my[w].todo \ {c}
      /\ my' = [my EXCEPT ![w] = l] /\ label \in Labels
  BY <1>1, <1>2 DEF Locals, Labels, ForgetPcs
<1> HIDE DEF l
<1>5. /\ pc' \in [Workers -> Labels] /\ my' \in [Workers -> Locals]
      /\ Others(w) /\ pc'[w] = "forget_delete" /\ my'[w] = l
  BY <1>1, <1>4, MovesTyped
<1>6. pts' \in [Collections -> [Memories -> Point \cup {Nobody}]] /\ Thinned /\ pts'[c][my[w].m] = Nobody
  BY <1>1, <1>2, <1>3, DeletedThins
<1>7. TypeOK'
  BY <1>1, <1>5, <1>6, TypeNow, TypeNext DEF CountKept
<1>8. CallOK(w)'
  BY <1>1, <1>3, <1>4, <1>5 DEF CallOK, SyncPcs, ForgetPcs, ReembedPcs, RollbackPcs, RepairPcs, Staging
<1>9. ASSUME Undisturbed PROVE LeasedOK(w)' /\ RepairOK(w)'
  <2>1. ForgetOK(w) /\ Holds(w)
    BY <1>1, <1>9, CallerFacts DEF LeasedOK
  <2>2. ForgetOK(w)'
    <3> SUFFICES ASSUME NEW d \in Collections \ l.todo PROVE pts'[d][l.m] = Nobody
      BY <1>5 DEF ForgetOK, Collections
    <3>1. CASE d = c
      BY <1>4, <1>6, <3>1
    <3>2. CASE d # c
      BY <1>1, <1>3, <1>4, <1>6, <2>1, <3>2 DEF ForgetOK, ForgetPcs, Thinned, SamePoint
    <3> QED
      BY <3>1, <3>2
  <2>3. Holds(w)'
    BY <1>1, <2>1 DEF Holds
  <2> QED
    BY <1>5, <2>2, <2>3 DEF LeasedOK, SyncOK, CopyOK, StagingOK, Running, ReembedPcs, Staging, RepairOK
<1>10. Grows /\ \A e \in events' : e[2] <= mem'[e[1]].rev
  BY <1>1, CallerFacts, TypeNow, RowFields DEF Grows
<1>11. Undisturbed => Stores' /\ (Restorable => Kept')
  BY <1>1, <1>6, ThinnedStores
<1>12. ModelsOf(w)'
  BY <1>5, Elsewhere
<1> QED
  BY <1>1, <1>5, <1>7, <1>8, <1>9, <1>10, <1>11, <1>12, WriteKeeps

\* What a scrub leaves of a checkpoint.
LEMMA ScrubFacts ==
  ASSUME NEW ck \in Checkpoint, NEW m \in Memories, NEW s, s = ScrubCheckpoint(ck, m)
  PROVE  /\ s \in Checkpoint /\ s.sources = ck.sources /\ s.cutover = ck.cutover
         /\ \A k \in Memories : k # m => s.prints[k] = ck.prints[k] /\ s.done[k] = ck.done[k]
         /\ s.prints[m] <= ck.prints[m]
         /\ s.done[m] = 0 \/ s = ck
         /\ m \in ck.sources => s.status = "failed" /\ s.done[m] = 0
         /\ m \notin ck.sources => s = ck
<1> DEFINE pr == [ck.prints EXCEPT ![m] = 0]
           dn == [ck.done EXCEPT ![m] = 0]
<1>1. /\ ck.prints \in [Memories -> Nat] /\ ck.done \in [Memories -> Inputs \cup {0}]
      /\ ck.sources \in SUBSET Memories
  BY CheckpointFields
<1>2. /\ pr \in [Memories -> Nat] /\ dn \in [Memories -> Inputs \cup {0}] /\ pr[m] = 0 /\ dn[m] = 0
      /\ \A k \in Memories : k # m => pr[k] = ck.prints[k] /\ dn[k] = ck.done[k]
  BY <1>1
<1>3. CASE m \in ck.sources
  <2>1. s = [ck EXCEPT !.status = "failed", !.prints = pr, !.done = dn]
    BY <1>3 DEF ScrubCheckpoint
  <2> HIDE DEF pr, dn
  <2>2. /\ s \in Checkpoint /\ s.sources = ck.sources /\ s.cutover = ck.cutover
        /\ s.prints = pr /\ s.done = dn /\ s.status = "failed"
    BY <1>2, <2>1 DEF Checkpoint
  <2> QED
    BY <1>1, <1>2, <1>3, <2>2
<1>4. CASE m \notin ck.sources
  <2>1. s = ck
    BY <1>4 DEF ScrubCheckpoint
  <2> QED
    BY <1>1, <1>4, <2>1
<1> QED
  BY <1>3, <1>4

\* The memory has left every collection, every snapshot and every plan.
LEMMA ForgetScrubKeeps ==
  ASSUME IInv, NEW w \in Workers, ForgetScrub(w)
  PROVE  IInv'
<1>1. /\ TypeOK /\ CallOK(w) /\ pc[w] = "forget_delete" /\ pc[w] \in Leasing /\ my[w].todo = {}
      /\ my[w].m \in Memories /\ mem[my[w].m].status = "deleted" /\ Leave(w)
      /\ UNCHANGED <<mem, events, alias, pts, count>> /\ CountKept
  BY CallerFacts, CountTyped DEF ForgetScrub, Leasing, ForgetPcs, CallOK
<1> SUFFICES ASSUME NEW m \in Memories, m = my[w].m PROVE IInv'
  BY <1>1
<1>2. /\ staged' = ScrubStaged(m) /\ forgotten' = forgotten \cup {m}
      /\ ckpt' = [p \in Plans |-> ScrubCheckpoint(ckpt[p], m)]
  BY DEF ForgetScrub
<1>3. /\ staged' \in [Collections -> [Memories -> Snapshot \cup {Nobody}]]
      /\ \A c \in Collections : staged'[c][m] = Nobody
      /\ \A c \in Collections, k \in Memories : k # m => staged'[c][k] = staged[c][k]
  <2>1. staged \in [Collections -> [Memories -> Snapshot \cup {Nobody}]]
    BY <1>1, TypeNow
  <2> QED
    BY <1>2, <2>1 DEF ScrubStaged
<1>4. ASSUME NEW p \in Plans
      PROVE  /\ ckpt'[p] \in Checkpoint /\ ckpt'[p].sources = ckpt[p].sources
             /\ ckpt'[p].cutover = ckpt[p].cutover
             /\ \A k \in Memories : k # m => /\ ckpt'[p].prints[k] = ckpt[p].prints[k]
                                             /\ ckpt'[p].done[k] = ckpt[p].done[k]
             /\ ckpt'[p].prints[m] <= ckpt[p].prints[m]
             /\ ckpt'[p].done[m] = 0 \/ ckpt'[p] = ckpt[p]
             /\ m \in ckpt[p].sources => ckpt'[p].status = "failed" /\ ckpt'[p].done[m] = 0
             /\ m \notin ckpt[p].sources => ckpt'[p] = ckpt[p]
  <2>1. ckpt'[p] = ScrubCheckpoint(ckpt[p], m) /\ ckpt[p] \in Checkpoint
    BY <1>1, <1>2, TypeNow
  <2> QED
    BY <2>1, ScrubFacts
<1>5. ckpt' \in [Plans -> Checkpoint] /\ forgotten' \subseteq Memories
  <2>1. ckpt' = [p \in Plans |-> ckpt'[p]]
    BY <1>2
  <2> QED
    BY <1>1, <1>2, <1>4, <2>1, TypeNow
<1>6. /\ pc' \in [Workers -> Labels] /\ my' \in [Workers -> Locals]
      /\ Others(w) /\ pc'[w] = "idle"
  <2>1. "idle" \in Labels /\ NoLocals \in Locals
    BY NothingTyped DEF Labels
  <2> QED
    BY <1>1, <2>1, MovesTyped DEF Leave, Done
<1>7. lease' \in Leases
  BY <1>1, DropTyped DEF Leave
<1>8. TypeOK'
  BY <1>1, <1>3, <1>5, <1>6, <1>7, TypeNow, TypeNext DEF CountKept
<1>9. CallOK(w)' /\ LeasedOK(w)' /\ RepairOK(w)' /\ ModelsOf(w)'
  BY <1>6, Elsewhere DEF Leasing, SyncPcs, ForgetPcs, ReembedPcs, RollbackPcs
<1>10. Grows /\ \A e \in events' : e[2] <= mem'[e[1]].rev
  BY <1>1, CallerFacts, TypeNow, RowFields DEF Grows
<1>11. CurrentRoute' = CurrentRoute /\ Active' = Active /\ m \notin Active
  BY <1>1 DEF CurrentRoute, Active
<1>12. ASSUME NEW p \in Plans, AllDone(ckpt[p]) PROVE AllDone(ckpt[p])'
  <2> SUFFICES ASSUME NEW k \in ckpt'[p].sources \cap Active' PROVE ckpt'[p].done[k] # 0
    BY DEF AllDone
  <2>1. k \in ckpt[p].sources \cap Active /\ k # m /\ k \in Memories
    BY <1>4, <1>11 DEF Active
  <2> QED
    BY <1>4, <1>12, <2>1 DEF AllDone
<1>13. ASSUME Undisturbed, NEW p \in Plans PROVE PlanOK(p)' /\ ServedOK(p)'
  <2>1. PlanOK(p) /\ ServedOK(p) /\ \A k \in Memories : ItemOK(p, k)
    BY <1>13, StoreFacts
  <2>2. ASSUME NEW k \in Memories, k # m PROVE ItemOK(p, k)'
    <3>1. staged'[Shadow[p]][k] = staged[Shadow[p]][k]
      BY <1>3, <2>2, NothingTyped
    <3> QED
      BY <1>1, <1>4, <2>1, <2>2, <3>1, ItemStill
  <2>3. ItemOK(p, m)'
    <3>1. /\ ckpt[p].prints[m] \in Nat /\ ckpt'[p].prints[m] \in Nat /\ mem[m].rev \in Nat
          /\ ckpt[p].prints[m] <= mem[m].rev
      <4>1. ckpt[p] \in Checkpoint /\ ckpt'[p] \in Checkpoint /\ mem[m] \in Row
        BY <1>1, <1>4, TypeNow
      <4> QED
        BY <2>1, <4>1, CheckpointFields, RowFields DEF ItemOK
    <3>2. ckpt'[p].prints[m] <= mem[m].rev
      BY <1>4, <3>1
    <3>3. staged'[Shadow[p]][m] = Nobody
      BY <1>3, NothingTyped
    <3>4. ckpt'[p].done[m] # 0 => m \in ckpt'[p].sources
      BY <1>4, <2>1 DEF ItemOK
    <3> QED
      BY <1>1, <3>2, <3>3, <3>4 DEF ItemOK
  <2>4. PlanOK(p)'
    <3>1. ckpt'[p].status = "none" => ckpt'[p] = NoCheckpoint
      BY <1>4, <2>1 DEF PlanOK
    <3>2. ckpt'[p].cutover => alias' # Nobody
      BY <1>1, <1>4, <2>1 DEF PlanOK
    <3>3. ckpt'[p].status = "validated" => AllDone(ckpt[p])'
      BY <1>4, <1>12, <2>1 DEF PlanOK
    <3>4. \A k \in Memories : ItemOK(p, k)'
      BY <2>2, <2>3
    <3> QED
      BY <3>1, <3>2, <3>3, <3>4 DEF PlanOK, NoCheckpoint
  <2>5. ServedOK(p)'
    <3> SUFFICES ASSUME alias' # Nobody, alias'.coll = Shadow[p] PROVE ServedOK(p)'
      BY DEF ServedOK
    <3>1. ckpt'[p].status # "none" /\ AllDone(ckpt[p])'
      BY <1>1, <1>4, <1>12, <2>1 DEF ServedOK
    <3>2. ASSUME NEW k \in ckpt'[p].sources \cap Active', mem'[k].rev = ckpt'[p].prints[k]
          PROVE  mem'[k].vec = VectorOf(p, ckpt'[p].done[k])
      <4>1. k \in ckpt[p].sources \cap Active /\ k # m /\ k \in Memories
        BY <1>4, <1>11, <3>2 DEF Active
      <4> QED
        BY <1>1, <1>4, <2>1, <3>2, <4>1 DEF ServedOK
    <3> QED
      BY <3>1, <3>2 DEF ServedOK, VectorOf
  <2> QED
    BY <2>4, <2>5
<1>14. ASSUME Undisturbed, NEW k \in Memories PROVE (Forward => IndexedOK(k)') /\ TraceOK(k)'
  <2>1. (Forward => IndexedOK(k)) /\ TraceOK(k)
    BY <1>14, StoreFacts
  <2>2. Forward => IndexedOK(k)'
    BY <1>1, <1>11, <2>1 DEF IndexedOK, Fresh
  <2>3. TraceOK(k)'
    <3>1. CASE k = m
      <4>1. ForgetOK(w)
        BY <1>14, CallerFacts DEF LeasedOK
      <4>2. \A c \in Collections : pts[c][m] = Nobody
        BY <1>1, <4>1 DEF ForgetOK, ForgetPcs
      <4> QED
        BY <1>1, <1>3, <3>1, <4>2 DEF TraceOK
    <3>2. CASE k # m
      BY <1>1, <1>2, <1>3, <2>1, <3>2 DEF TraceOK
    <3> QED
      BY <3>1, <3>2
  <2> QED
    BY <2>2, <2>3
<1>15. Undisturbed => Stores'
  BY <1>1, <1>13, <1>14 DEF Stores, Forward
<1>16. ASSUME Undisturbed, Restorable PROVE Kept'
  <2>1. Kept
    BY <1>16, CallerFacts
  <2>2. ASSUME NEW c \in Collections, NEW k \in Memories PROVE ModelsAt(c, k)'
    <3>1. ModelsAt(c, k) /\ ModelOf(c)' = ModelOf(c)
      BY <2>1 DEF Kept, ModelOf
    <3>2. staged'[c][k] # Nobody => staged'[c][k] = staged[c][k]
      BY <1>3
    <3> QED
      BY <1>1, <3>1, <3>2 DEF ModelsAt
  <2>3. Settled'
    <3>1. \A p \in Plans : ckpt[p].status # "none" => ckpt'[p].status # "none"
      BY <1>4
    <3> QED
      BY <1>1, <1>12, <2>1, <3>1 DEF Kept, Settled
  <2> QED
    BY <1>1, <1>11, <2>1, <2>2, <2>3 DEF Kept, ModelOf
<1> QED
  BY <1>1, <1>6, <1>8, <1>9, <1>10, <1>15, <1>16, WriteKeeps

-----------------------------------------------------------------------------
(* Re-embedding: what it stages.                                           *)

\* The record as it is becomes the snapshot of the configured collection: while a source
\* lacks its vector, no route that a rollback could restore was moved.
LEMMA StageOriginalKeeps ==
  ASSUME IInv, NEW w \in Workers, StageOriginal(w)
  PROVE  IInv'
<1>1. /\ TypeOK /\ CallOK(w) /\ pc[w] = "original" /\ pc[w] \in Leasing /\ my[w] \in Locals
      /\ Goto(w, "shadow") /\ my[w].m \in Memories /\ my[w].p \in Plans
      /\ UNCHANGED <<mem, events, alias, ckpt, pts, lease, forgotten, my, count>> /\ CountKept
  BY CallerFacts, CountTyped DEF StageOriginal, Leasing, ReembedPcs, Staging, CallOK
<1> SUFFICES ASSUME NEW m \in Memories, m = my[w].m, NEW p \in Plans, p = my[w].p PROVE IInv'
  BY <1>1
<1> DEFINE x == [rev |-> mem[m].rev, vec |-> mem[m].vec]
<1>2. x \in Snapshot /\ x.vec = mem[m].vec
  BY <1>1, TypeNow, RowFields DEF Snapshot
<1>3. staged' = [staged EXCEPT ![Logical][m] = x]
  BY DEF StageOriginal
<1> HIDE DEF x
<1>4. /\ staged' \in [Collections -> [Memories -> Snapshot \cup {Nobody}]]
      /\ staged'[Logical][m] = x
      /\ \A d \in Collections, k \in Memories : d # Logical \/ k # m => staged'[d][k] = staged[d][k]
  <2>1. PICK c \in Collections : c = Logical
    BY NothingTyped
  <2>2. staged' = [staged EXCEPT ![c][m] = x]
    BY <1>3, <2>1
  <2>3. /\ staged' \in [Collections -> [Memories -> Snapshot \cup {Nobody}]]
        /\ staged'[c][m] = x
        /\ \A d \in Collections, k \in Memories : d # c \/ k # m => staged'[d][k] = staged[d][k]
    <3>1. staged \in [Collections -> [Memories -> Snapshot \cup {Nobody}]] /\ x \in Snapshot
      BY <1>1, <1>2, TypeNow
    <3> QED
      BY <2>2, <3>1
  <2> QED
    BY <2>1, <2>3
<1>5. /\ pc' \in [Workers -> Labels] /\ my' \in [Workers -> Locals]
      /\ Others(w) /\ pc'[w] = "shadow" /\ my'[w] = my[w]
  BY <1>1, MovesTyped DEF Labels, ReembedPcs
<1>6. TypeOK'
  BY <1>1, <1>4, <1>5, TypeNow, TypeNext DEF CountKept
<1>7. CallOK(w)'
  BY <1>1, <1>5 DEF CallOK, SyncPcs, ForgetPcs, ReembedPcs, RollbackPcs, RepairPcs, Staging
<1>8. Grows /\ \A e \in events' : e[2] <= mem'[e[1]].rev
  BY <1>1, CallerFacts, TypeNow, RowFields DEF Grows
<1>9. CurrentRoute' = CurrentRoute /\ Active' = Active
  BY <1>1 DEF CurrentRoute, Active
<1>10. ASSUME Undisturbed
       PROVE  /\ my[w].ck = ckpt[p] /\ m \in ckpt[p].sources /\ ckpt[p].done[m] = 0
              /\ mem[m].status = "active" /\ m \in Active /\ CopyOK(w) /\ StagingOK(w) /\ Holds(w)
  <2>1. CopyOK(w) /\ StagingOK(w) /\ Holds(w)
    BY <1>1, <1>10, CallerFacts DEF LeasedOK
  <2> QED
    BY <1>1, <2>1 DEF CopyOK, StagingOK, Running, ReembedPcs, Staging, Active
<1>11. ASSUME Undisturbed PROVE LeasedOK(w)' /\ RepairOK(w)'
  <2>1. Holds(w)'
    BY <1>1, <1>10, <1>11 DEF Holds
  <2>2. CopyOK(w)'
    BY <1>1, <1>5, <1>10, <1>11 DEF CopyOK, Staging, Running, ReembedPcs
  <2>3. StagingOK(w)'
    BY <1>1, <1>5, <1>10, <1>11 DEF StagingOK, Staging
  <2> QED
    BY <1>5, <2>1, <2>2, <2>3 DEF LeasedOK, SyncOK, ForgetOK, ForgetPcs, RepairOK
<1>12. ASSUME Undisturbed, NEW q \in Plans PROVE PlanOK(q)' /\ ServedOK(q)'
  <2>1. PlanOK(q) /\ ServedOK(q) /\ \A k \in Memories : ItemOK(q, k)
    BY <1>12, StoreFacts
  <2>2. \A k \in Memories : staged'[Shadow[q]][k] = staged[Shadow[q]][k]
    BY <1>4, NothingTyped, RouteAssumption
  <2>3. \A k \in Memories : ItemOK(q, k)'
    BY <1>1, <2>1, <2>2, ItemStill
  <2> QED
    BY <1>1, <2>1, <2>3, ServedStill, PlanStill
<1>13. ASSUME Undisturbed, NEW k \in Memories PROVE (Forward => IndexedOK(k)') /\ TraceOK(k)'
  <2>1. (Forward => IndexedOK(k)) /\ TraceOK(k)
    BY <1>13, StoreFacts
  <2>2. Forward => IndexedOK(k)'
    BY <1>1, <1>9, <2>1 DEF IndexedOK, Fresh
  <2>3. TraceOK(k)'
    BY <1>1, <1>4, <1>10, <1>13, <2>1 DEF TraceOK
  <2> QED
    BY <2>2, <2>3
<1>14. Undisturbed => Stores'
  BY <1>1, <1>12, <1>13 DEF Stores, Forward
<1>15. ASSUME Undisturbed, Restorable PROVE Kept'
  <2>1. Kept
    BY <1>15, CallerFacts
  <2>2. OnePlan => mem[m].vec.model = BaseModel
    <3>1. OnePlan => alias = Nobody
      BY <1>10, <1>15, <2>1 DEF Kept, Settled, AllDone
    <3> QED
      BY <1>10, <1>15, <2>1, <3>1 DEF Kept, CurrentRoute
  <2>3. ASSUME NEW c \in Collections, NEW k \in Memories PROVE ModelsAt(c, k)'
    <3>1. ModelsAt(c, k) /\ ModelOf(c)' = ModelOf(c) /\ ModelOf(Logical) = BaseModel
      BY <2>1 DEF Kept, ModelOf
    <3>2. CASE c = Logical /\ k = m
      BY <1>1, <1>2, <1>4, <2>2, <3>1, <3>2 DEF ModelsAt
    <3>3. CASE c # Logical \/ k # m
      BY <1>1, <1>4, <3>1, <3>3 DEF ModelsAt
    <3> QED
      BY <3>2, <3>3
  <2>4. Settled'
    BY <1>1, <2>1, SettledStill DEF Kept
  <2> QED
    BY <1>1, <1>9, <2>1, <2>3, <2>4 DEF Kept, ModelOf
<1>16. ModelsOf(w)'
  BY <1>5, Elsewhere
<1> QED
  BY <1>1, <1>5, <1>6, <1>7, <1>8, <1>11, <1>14, <1>15, <1>16, WriteKeeps

\* The model of the shadow of a plan.
LEMMA ShadowModel ==
  ASSUME NEW p \in Plans
  PROVE  /\ ModelOf(Shadow[p]) = Target[p] /\ Shadow[p] \in Collections /\ Shadow[p] # Logical
         /\ \A q \in Plans : Shadow[q] = Shadow[p] => q = p
<1>1. Shadow[p] # Logical /\ \A q \in Plans : Shadow[q] = Shadow[p] => q = p
  BY RouteAssumption
<1>2. (CHOOSE q \in Plans : Shadow[q] = Shadow[p]) = p
  BY <1>1
<1> QED
  BY <1>1, <1>2, NothingTyped DEF ModelOf

\* What a caller knows of the item it stages.
LEMMA StagingFacts ==
  ASSUME IInv, Undisturbed, NEW w \in Workers, pc[w] \in Staging
  PROVE  /\ my[w].ck = ckpt[my[w].p] /\ my[w].m \in ckpt[my[w].p].sources
         /\ ckpt[my[w].p].done[my[w].m] = 0 /\ my[w].row.rev = ckpt[my[w].p].prints[my[w].m]
         /\ mem[my[w].m].status = "active" /\ CopyOK(w) /\ StagingOK(w) /\ Holds(w)
         /\ \A q \in Plans : q = my[w].p => ~AllDone(ckpt[q])
         /\ ~(alias # Nobody /\ alias.coll = Shadow[my[w].p])
<1>1. CopyOK(w) /\ StagingOK(w) /\ Holds(w) /\ my[w].m \in Memories /\ my[w].p \in Plans
  BY CallerFacts DEF LeasedOK, Leasing, Staging, ReembedPcs, CallOK
<1>2. /\ my[w].ck = ckpt[my[w].p] /\ my[w].m \in ckpt[my[w].p].sources
      /\ ckpt[my[w].p].done[my[w].m] = 0 /\ my[w].row.rev = ckpt[my[w].p].prints[my[w].m]
      /\ mem[my[w].m].status = "active"
  BY <1>1 DEF CopyOK, StagingOK, Running, ReembedPcs, Staging
<1>3. ~AllDone(ckpt[my[w].p])
  BY <1>1, <1>2 DEF AllDone, Active
<1>4. ServedOK(my[w].p)
  BY <1>1, StoreFacts
<1> QED
  BY <1>1, <1>2, <1>3, <1>4 DEF ServedOK

\* The new vector goes to the shadow, which reads use only when the plan is done.
LEMMA StageShadowKeeps ==
  ASSUME IInv, NEW w \in Workers, StageShadow(w)
  PROVE  IInv'
<1>1. /\ TypeOK /\ CallOK(w) /\ pc[w] = "shadow" /\ pc[w] \in Leasing /\ pc[w] \in Staging
      /\ my[w] \in Locals /\ pc[w] \in Running \ {"finish"}
      /\ UNCHANGED <<canonical, ckpt, lease, forgotten, my, count>> /\ CountKept
      /\ UNCHANGED <<mem, events, alias, staged>>
  BY CallerFacts, CountTyped DEF StageShadow, Leasing, ReembedPcs, Staging, Running, canonical
<1>2. CASE Goto(w, "fail") /\ UNCHANGED pts
  BY <1>1, <1>2, FailKeeps DEF StoresStill
<1>3. ASSUME Upsert(Shadow[my[w].p], my[w].m, my[w].row.rev, NewVector(w)), Goto(w, "stage"),
             NEW m \in Memories, m = my[w].m, NEW p \in Plans, p = my[w].p,
             NEW rev \in Nat, rev = my[w].row.rev, NEW vec \in Vector, vec = NewVector(w)
      PROVE  IInv'
  <2> DEFINE x == [rev |-> rev, vec |-> vec, fresh |-> FALSE]
             c == Shadow[p]
  <2>1. x \in Point /\ x # Nobody /\ x.rev = rev /\ x.vec = vec /\ vec.model = Target[p]
    BY <1>3, Something DEF Point, NewVector
  <2>2. pts' = [pts EXCEPT ![c][m] = x] /\ c \in Collections
    BY <1>3, ShadowModel DEF Upsert
  <2> HIDE DEF x, c
  <2>3. /\ pts' \in [Collections -> [Memories -> Point \cup {Nobody}]]
        /\ pts'[c][m] = x
        /\ \A d \in Collections, k \in Memories : d # c \/ k # m => pts'[d][k] = pts[d][k]
    BY ZenonT(40), <1>1, <2>1, <2>2, PointTyped
  <2>4. /\ pc' \in [Workers -> Labels] /\ my' \in [Workers -> Locals]
        /\ Others(w) /\ pc'[w] = "stage" /\ my'[w] = my[w]
    BY <1>1, <1>3, MovesTyped DEF Labels, ReembedPcs
  <2>5. TypeOK'
    BY <1>1, <2>3, <2>4, TypeNow, TypeNext DEF CountKept
  <2>6. CallOK(w)'
    BY <1>1, <2>4 DEF CallOK, SyncPcs, ForgetPcs, ReembedPcs, RollbackPcs, RepairPcs, Staging
  <2>7. Grows /\ \A e \in events' : e[2] <= mem'[e[1]].rev
    BY <1>1, CallerFacts, TypeNow, RowFields DEF Grows
  <2>8. CurrentRoute' = CurrentRoute /\ Active' = Active
    BY <1>1 DEF CurrentRoute, Active
  <2>9. ASSUME Undisturbed
        PROVE  /\ my[w].ck = ckpt[p] /\ m \in ckpt[p].sources /\ ckpt[p].done[m] = 0
               /\ mem[m].status = "active" /\ CopyOK(w) /\ StagingOK(w) /\ Holds(w)
               /\ ~(alias # Nobody /\ alias.coll = Shadow[p])
    BY <1>1, <1>3, <2>9, StagingFacts
  <2>10. ASSUME Undisturbed PROVE LeasedOK(w)' /\ RepairOK(w)'
    <3>1. Holds(w)'
      BY <1>1, <2>9, <2>10 DEF Holds
    <3>2. CopyOK(w)'
      BY <1>1, <2>4, <2>9, <2>10 DEF CopyOK, Running, ReembedPcs
    <3>3. Fresh(c, m, rev, vec)'
      BY <2>1, <2>3 DEF Fresh
    <3>4. NewVector(w)' = NewVector(w)
      BY <1>1 DEF NewVector
    <3>5. StagingOK(w)'
      BY <1>1, <1>3, <2>4, <2>9, <2>10, <3>3, <3>4 DEF StagingOK, Staging, c
    <3> QED
      BY <2>4, <3>1, <3>2, <3>5 DEF LeasedOK, SyncOK, ForgetOK, ForgetPcs, RepairOK
  <2>11. ASSUME Undisturbed, NEW q \in Plans PROVE PlanOK(q)' /\ ServedOK(q)'
    <3>1. PlanOK(q) /\ ServedOK(q) /\ \A k \in Memories : ItemOK(q, k)
      BY <2>11, StoreFacts
    <3>2. ASSUME NEW k \in Memories, q # p \/ k # m PROVE ItemOK(q, k)'
      <4>1. pts'[Shadow[q]][k] = pts[Shadow[q]][k]
        BY <2>3, <3>2, ShadowModel DEF c
      <4> QED
        BY <1>1, <3>1, <4>1, ItemStill
    <3>3. ASSUME q = p PROVE ItemOK(q, m)'
      BY <1>1, <2>9, <2>11, <3>1, <3>3 DEF ItemOK
    <3>4. \A k \in Memories : ItemOK(q, k)'
      BY <3>2, <3>3
    <3> QED
      BY <1>1, <3>1, <3>4, ServedStill, PlanStill
  <2>12. ASSUME Undisturbed, NEW k \in Memories PROVE (Forward => IndexedOK(k)') /\ TraceOK(k)'
    <3>1. (Forward => IndexedOK(k)) /\ TraceOK(k)
      BY <2>12, StoreFacts
    <3>2. CurrentRoute.coll # c /\ CurrentRoute.coll \in Collections
      BY <1>1, <2>9, <2>12, RouteNow, ShadowModel DEF CurrentRoute, c
    <3>3. Forward => IndexedOK(k)'
      BY <1>1, <2>3, <2>8, <3>1, <3>2 DEF IndexedOK, Fresh
    <3>4. TraceOK(k)'
      BY <1>1, <2>3, <2>9, <2>12, <3>1 DEF TraceOK
    <3> QED
      BY <3>3, <3>4
  <2>13. Undisturbed => Stores'
    BY <1>1, <2>11, <2>12 DEF Stores, Forward
  <2>14. ASSUME Undisturbed, Restorable PROVE Kept'
    <3>1. Kept
      BY <2>14, CallerFacts
    <3>2. ASSUME NEW d \in Collections, NEW k \in Memories PROVE ModelsAt(d, k)'
      <4>1. ModelsAt(d, k) /\ ModelOf(d)' = ModelOf(d)
        BY <3>1 DEF Kept, ModelOf
      <4>2. pts'[d][k] # Nobody => pts'[d][k].vec.model = ModelOf(d)
        BY <2>1, <2>3, <4>1, ShadowModel DEF ModelsAt, c
      <4> QED
        BY <1>1, <4>1, <4>2 DEF ModelsAt
    <3>3. Settled'
      BY <1>1, <3>1, SettledStill DEF Kept
    <3> QED
      BY <1>1, <2>8, <3>1, <3>2, <3>3 DEF Kept, ModelOf
  <2>15. ModelsOf(w)'
    BY <2>4, Elsewhere
  <2> QED
    BY <1>1, <2>4, <2>5, <2>6, <2>7, <2>10, <2>13, <2>14, <2>15, WriteKeeps
<1>4. my[w].m \in Memories /\ my[w].p \in Plans /\ my[w].row.rev \in Nat /\ NewVector(w) \in Vector
  <2>1. my[w].m \in Memories /\ my[w].p \in Plans /\ my[w].row \in Row /\ my[w].input \in Inputs
    BY <1>1, Fields DEF CallOK, ReembedPcs
  <2> QED
    BY <2>1, RowFields, NothingTyped DEF NewVector, VectorOf
<1> QED
  BY <1>1, <1>2, <1>3, <1>4 DEF StageShadow

\* The record with its new vector becomes the snapshot of the shadow.
LEMMA StageRecordKeeps ==
  ASSUME IInv, NEW w \in Workers, StageRecord(w)
  PROVE  IInv'
<1>1. /\ TypeOK /\ CallOK(w) /\ pc[w] = "stage" /\ pc[w] \in Leasing /\ pc[w] \in Staging
      /\ my[w] \in Locals /\ Goto(w, "save_item") /\ my[w].m \in Memories /\ my[w].p \in Plans
      /\ UNCHANGED <<mem, events, alias, ckpt, pts, lease, forgotten, my, count>> /\ CountKept
  BY CallerFacts, CountTyped DEF StageRecord, Leasing, ReembedPcs, Staging, CallOK
<1>2. my[w].row.rev \in Nat /\ NewVector(w) \in Vector
  <2>1. my[w].row \in Row /\ my[w].input \in Inputs
    BY <1>1, Fields DEF CallOK, ReembedPcs
  <2> QED
    BY <1>1, <2>1, RowFields, NothingTyped DEF NewVector, VectorOf
<1> SUFFICES ASSUME NEW m \in Memories, m = my[w].m, NEW p \in Plans, p = my[w].p,
                    NEW rev \in Nat, rev = my[w].row.rev, NEW vec \in Vector, vec = NewVector(w)
             PROVE  IInv'
  BY <1>1, <1>2
<1> DEFINE x == [rev |-> rev, vec |-> vec]
           c == Shadow[p]
<1>3. x \in Snapshot /\ x # Nobody /\ x.rev = rev /\ x.vec = vec /\ vec.model = Target[p]
  BY Something DEF Snapshot, NewVector
<1>4. staged' = [staged EXCEPT ![c][m] = x] /\ c \in Collections /\ c # Logical
  BY ShadowModel DEF StageRecord
<1> HIDE DEF x, c
<1>5. /\ staged' \in [Collections -> [Memories -> Snapshot \cup {Nobody}]]
      /\ staged'[c][m] = x
      /\ \A d \in Collections, k \in Memories : d # c \/ k # m => staged'[d][k] = staged[d][k]
  BY ZenonT(40), <1>1, <1>3, <1>4, SnapshotTyped
<1>6. /\ pc' \in [Workers -> Labels] /\ my' \in [Workers -> Locals]
      /\ Others(w) /\ pc'[w] = "save_item" /\ my'[w] = my[w]
  BY <1>1, MovesTyped DEF Labels, ReembedPcs
<1>7. TypeOK'
  BY <1>1, <1>5, <1>6, TypeNow, TypeNext DEF CountKept
<1>8. CallOK(w)'
  BY <1>1, <1>6 DEF CallOK, SyncPcs, ForgetPcs, ReembedPcs, RollbackPcs, RepairPcs, Staging
<1>9. Grows /\ \A e \in events' : e[2] <= mem'[e[1]].rev
  BY <1>1, CallerFacts, TypeNow, RowFields DEF Grows
<1>10. CurrentRoute' = CurrentRoute /\ Active' = Active
  BY <1>1 DEF CurrentRoute, Active
<1>11. ASSUME Undisturbed
       PROVE  /\ my[w].ck = ckpt[p] /\ m \in ckpt[p].sources /\ ckpt[p].done[m] = 0
              /\ mem[m].status = "active" /\ CopyOK(w) /\ StagingOK(w) /\ Holds(w)
  BY <1>1, <1>11, StagingFacts
<1>12. ASSUME Undisturbed PROVE LeasedOK(w)' /\ RepairOK(w)'
  <2>1. Holds(w)'
    BY <1>1, <1>11, <1>12 DEF Holds
  <2>2. CopyOK(w)'
    BY <1>1, <1>6, <1>11, <1>12 DEF CopyOK, Running, ReembedPcs
  <2>3. Staged(c, m, rev, vec)' /\ Fresh(c, m, rev, vec)'
    <3>1. Fresh(c, m, rev, vec)
      BY <1>1, <1>11, <1>12 DEF StagingOK, c, Staging
    <3> QED
      BY <1>1, <1>3, <1>5, <3>1 DEF Staged, Fresh
  <2>4. NewVector(w)' = NewVector(w)
    BY <1>1 DEF NewVector
  <2>5. StagingOK(w)'
    BY <1>1, <1>6, <1>11, <1>12, <2>3, <2>4 DEF StagingOK, Staging, c
  <2> QED
    BY <1>6, <2>1, <2>2, <2>5 DEF LeasedOK, SyncOK, ForgetOK, ForgetPcs, RepairOK
<1>13. ASSUME Undisturbed, NEW q \in Plans PROVE PlanOK(q)' /\ ServedOK(q)'
  <2>1. PlanOK(q) /\ ServedOK(q) /\ \A k \in Memories : ItemOK(q, k)
    BY <1>13, StoreFacts
  <2>2. ASSUME NEW k \in Memories, q # p \/ k # m PROVE ItemOK(q, k)'
    <3>1. staged'[Shadow[q]][k] = staged[Shadow[q]][k]
      BY <1>5, <2>2, ShadowModel DEF c
    <3> QED
      BY <1>1, <2>1, <3>1, ItemStill
  <2>3. ASSUME q = p PROVE ItemOK(q, m)'
    BY <1>1, <1>11, <1>13, <2>1, <2>3 DEF ItemOK
  <2>4. \A k \in Memories : ItemOK(q, k)'
    BY <2>2, <2>3
  <2> QED
    BY <1>1, <2>1, <2>4, ServedStill, PlanStill
<1>14. ASSUME Undisturbed, NEW k \in Memories PROVE (Forward => IndexedOK(k)') /\ TraceOK(k)'
  <2>1. (Forward => IndexedOK(k)) /\ TraceOK(k)
    BY <1>14, StoreFacts
  <2>2. Forward => IndexedOK(k)'
    BY <1>1, <1>10, <2>1 DEF IndexedOK, Fresh
  <2>3. TraceOK(k)'
    BY <1>1, <1>5, <1>11, <1>14, <2>1 DEF TraceOK
  <2> QED
    BY <2>2, <2>3
<1>15. Undisturbed => Stores'
  BY <1>1, <1>13, <1>14 DEF Stores, Forward
<1>16. ASSUME Undisturbed, Restorable PROVE Kept'
  <2>1. Kept
    BY <1>16, CallerFacts
  <2>2. ASSUME NEW d \in Collections, NEW k \in Memories PROVE ModelsAt(d, k)'
    <3>1. ModelsAt(d, k) /\ ModelOf(d)' = ModelOf(d)
      BY <2>1 DEF Kept, ModelOf
    <3>2. d = c /\ k = m => staged'[d][k].vec.model = ModelOf(d)
      BY <1>3, <1>5, ShadowModel DEF c
    <3> QED
      BY <1>1, <1>5, <3>1, <3>2 DEF ModelsAt
  <2>3. Settled'
    BY <1>1, <2>1, SettledStill DEF Kept
  <2> QED
    BY <1>1, <1>10, <2>1, <2>2, <2>3 DEF Kept, ModelOf
<1>17. ModelsOf(w)'
  BY <1>6, Elsewhere
<1> QED
  BY <1>1, <1>6, <1>7, <1>8, <1>9, <1>12, <1>15, <1>16, <1>17, WriteKeeps

-----------------------------------------------------------------------------
(* Re-embedding and rollback: what they save.                              *)

\* A checkpoint that is saved with another status.
SavedAs(p, ck) ==
  /\ ck.sources = ckpt[p].sources /\ ck.prints = ckpt[p].prints /\ ck.done = ckpt[p].done
  /\ ck.status # "none"
  /\ ck.status = "validated" => AllDone(ck)
  /\ ck.cutover => alias # Nobody

LEMMA SavedStores ==
  ASSUME IInv, Undisturbed, NEW p \in Plans, NEW ck \in Checkpoint, SavedAs(p, ck),
         ckpt' = [ckpt EXCEPT ![p] = ck], UNCHANGED <<canonical, pts, forgotten>>
  PROVE  Stores' /\ (Restorable => Kept')
<1>1. /\ UNCHANGED <<mem, events, alias, staged, pts, forgotten>> /\ TypeOK
      /\ CurrentRoute' = CurrentRoute /\ Active' = Active
  BY DEF canonical, CurrentRoute, Active, IInv, Base
<1>2. /\ ckpt'[p] = ck /\ \A q \in Plans : q # p => ckpt'[q] = ckpt[q]
  BY <1>1, SavedTyped
<1>3. ASSUME NEW q \in Plans
      PROVE  ckpt'[q].sources = ckpt[q].sources /\ ckpt'[q].prints = ckpt[q].prints
             /\ ckpt'[q].done = ckpt[q].done
  BY <1>2 DEF SavedAs
<1>4. ASSUME NEW q \in Plans PROVE AllDone(ckpt[q]) => AllDone(ckpt[q])'
  BY <1>1, <1>3 DEF AllDone
<1>5. ASSUME NEW q \in Plans PROVE PlanOK(q)' /\ ServedOK(q)'
  <2>1. PlanOK(q) /\ ServedOK(q) /\ \A k \in Memories : ItemOK(q, k)
    BY StoreFacts
  <2>2. \A k \in Memories : ItemOK(q, k)'
    BY <1>1, <1>3, <2>1, ItemStill
  <2>3. CASE q # p
    BY <1>1, <1>2, <2>1, <2>2, <2>3, ServedStill, PlanStill
  <2>4. CASE q = p
    <3>1. AllDone(ck) => AllDone(ckpt[p])'
      BY <1>1, <1>2 DEF AllDone
    <3>2. PlanOK(q)'
      BY <1>1, <1>2, <2>2, <2>4, <3>1 DEF PlanOK, SavedAs
    <3>3. ServedOK(q)'
      BY <1>1, <1>2, <1>3, <1>4, <2>1, <2>4 DEF ServedOK, SavedAs, VectorOf
    <3> QED
      BY <3>2, <3>3
  <2> QED
    BY <2>3, <2>4
<1>6. ASSUME NEW k \in Memories PROVE (Forward => IndexedOK(k)') /\ TraceOK(k)'
  <2>1. (Forward => IndexedOK(k)) /\ TraceOK(k)
    BY StoreFacts
  <2> QED
    BY <1>1, <2>1 DEF IndexedOK, TraceOK, Fresh
<1>7. Stores'
  BY <1>1, <1>5, <1>6 DEF Stores, Forward
<1>8. ASSUME Restorable PROVE Kept'
  <2>1. Kept
    BY <1>8 DEF IInv, Uniform
  <2>2. \A c \in Collections, k \in Memories : ModelsAt(c, k)'
    BY <1>1, <2>1 DEF Kept, ModelsAt, ModelOf
  <2>3. Settled'
    <3>1. \A q \in Plans : ckpt[q].status # "none" => ckpt'[q].status # "none"
      BY <1>2 DEF SavedAs
    <3> QED
      BY <1>1, <1>4, <2>1, <3>1 DEF Kept, Settled
  <2> QED
    BY <1>1, <2>1, <2>2, <2>3 DEF Kept, ModelOf
<1> QED
  BY <1>7, <1>8

\* A call that saves the checkpoint and ends.
LEMMA SaveLeaveKeeps ==
  ASSUME IInv, NEW w \in Workers, pc[w] \in Leasing, NEW p \in Plans, NEW ck \in Checkpoint,
         Undisturbed => SavedAs(p, ck), ckpt' = [ckpt EXCEPT ![p] = ck], Leave(w),
         UNCHANGED <<canonical, pts, forgotten, count>>
  PROVE  IInv'
<1>1. /\ UNCHANGED <<mem, events, alias, staged>> /\ TypeOK /\ CountKept
      /\ "idle" \in Labels /\ NoLocals \in Locals
  BY CallerFacts, CountTyped, NothingTyped DEF canonical, Labels
<1>2. /\ pc' \in [Workers -> Labels] /\ my' \in [Workers -> Locals]
      /\ Others(w) /\ pc'[w] = "idle"
  BY <1>1, MovesTyped DEF Leave, Done
<1>3. lease' \in Leases /\ ckpt' \in [Plans -> Checkpoint]
  BY <1>1, DropTyped, SavedTyped DEF Leave
<1>4. TypeOK'
  BY <1>1, <1>2, <1>3, TypeNow, TypeNext DEF CountKept
<1>5. CallOK(w)' /\ LeasedOK(w)' /\ RepairOK(w)' /\ ModelsOf(w)'
  BY <1>2, Elsewhere DEF Leasing, SyncPcs, ForgetPcs, ReembedPcs, RollbackPcs
<1>6. Grows /\ \A e \in events' : e[2] <= mem'[e[1]].rev
  BY <1>1, CallerFacts, TypeNow, RowFields DEF Grows
<1>7. Undisturbed => Stores' /\ (Restorable => Kept')
  BY SavedStores
<1> QED
  BY <1>2, <1>4, <1>5, <1>6, <1>7, WriteKeeps

\* A plan ends with an error,
LEMMA ReembedFailKeeps ==
  ASSUME IInv, NEW w \in Workers, ReembedFail(w)
  PROVE  IInv'
<1>1. /\ pc[w] = "fail" /\ pc[w] \in Running /\ pc[w] \in Leasing /\ Leave(w)
      /\ UNCHANGED <<canonical, pts, forgotten, count>>
  BY DEF ReembedFail, Running, ReembedPcs, Leasing
<1> DEFINE p == my[w].p
           ck == [my[w].ck EXCEPT !.status = "failed"]
<1>2. p \in Plans /\ my[w].ck \in Checkpoint /\ ckpt' = [ckpt EXCEPT ![p] = ck]
  BY <1>1, CopyFacts DEF ReembedFail
<1>3. /\ ck \in Checkpoint /\ ck.status = "failed" /\ ck.sources = my[w].ck.sources
      /\ ck.prints = my[w].ck.prints /\ ck.done = my[w].ck.done /\ ck.cutover = my[w].ck.cutover
  BY <1>2 DEF Checkpoint
<1> HIDE DEF ck
<1>4. Undisturbed => SavedAs(p, ck)
  <2>1. Undisturbed => my[w].ck = ckpt[p] /\ PlanOK(p)
    BY <1>1, <1>2, CopyFacts, StoreFacts
  <2> QED
    BY <1>3, <2>1 DEF SavedAs, PlanOK
<1> QED
  BY <1>1, <1>2, <1>3, <1>4, SaveLeaveKeeps

\* or with a report, if the lease is still its own.
LEMMA ReembedFinishKeeps ==
  ASSUME IInv, NEW w \in Workers, ReembedFinish(w)
  PROVE  IInv'
<1>1. /\ pc[w] = "finish" /\ pc[w] \in Running /\ pc[w] \in Leasing /\ Leave(w) /\ TypeOK
      /\ UNCHANGED <<canonical, pts, forgotten, count>>
  BY CallerFacts DEF ReembedFinish, Running, ReembedPcs, Leasing
<1> DEFINE p == my[w].p
           ck == my[w].ck
<1>2. p \in Plans /\ ck \in Checkpoint /\ ckpt[p] \in Checkpoint
  BY <1>1, CopyFacts
<1>3. CASE ckpt' = ckpt
  BY <1>1, <1>3, LeaveKeeps DEF StoresStill
<1>4. CASE ckpt' = [ckpt EXCEPT ![p] = ck]
  <2>1. ASSUME Undisturbed PROVE SavedAs(p, ck)
    <3>1. CopyOK(w) /\ PlanOK(p)
      BY <1>2, <2>1, CallerFacts, StoreFacts DEF LeasedOK
    <3>2. /\ ck = [ckpt[p] EXCEPT !.status = ck.status] /\ ck.status # "none"
          /\ ck.status = "validated" => AllDone(ck)
      BY <1>1, <3>1 DEF CopyOK
    <3>3. /\ ck.sources = ckpt[p].sources /\ ck.prints = ckpt[p].prints
          /\ ck.done = ckpt[p].done /\ ck.cutover = ckpt[p].cutover
      BY <1>2, <3>2 DEF Checkpoint
    <3> QED
      BY <3>1, <3>2, <3>3 DEF SavedAs, PlanOK
  <2> QED
    BY <1>1, <1>2, <1>4, <2>1, SaveLeaveKeeps
<1> QED
  BY <1>3, <1>4 DEF ReembedFinish

\* A rollback is recorded.
LEMMA SaveRollbackKeeps ==
  ASSUME IInv, NEW w \in Workers, SaveRollback(w)
  PROVE  IInv'
<1>1. /\ pc[w] = "save_rollback" /\ pc[w] \in Leasing /\ Leave(w) /\ TypeOK /\ CallOK(w)
      /\ my[w] \in Locals /\ UNCHANGED <<canonical, pts, forgotten, count>>
  BY CallerFacts DEF SaveRollback, RollbackPcs, Leasing
<1> DEFINE p == my[w].p
           ck == [my[w].ck EXCEPT !.cutover = FALSE, !.status = "rolled_back"]
<1>2. p \in Plans /\ my[w].ck \in Checkpoint /\ ckpt' = [ckpt EXCEPT ![p] = ck]
  BY <1>1, Fields DEF CallOK, RollbackPcs, SaveRollback
<1>3. /\ ck \in Checkpoint /\ ck.status = "rolled_back" /\ ck.sources = my[w].ck.sources
      /\ ck.prints = my[w].ck.prints /\ ck.done = my[w].ck.done /\ ~ck.cutover
  BY <1>2 DEF Checkpoint
<1> HIDE DEF ck
<1>4. Undisturbed => SavedAs(p, ck)
  <2>1. Undisturbed => my[w].ck = ckpt[p]
    BY <1>1, CallerFacts DEF LeasedOK
  <2> QED
    BY <1>3, <2>1 DEF SavedAs
<1> QED
  BY <1>1, <1>2, <1>3, <1>4, SaveLeaveKeeps

\* A cutover is acknowledged.
LEMMA SaveCutoverKeeps ==
  ASSUME IInv, NEW w \in Workers, SaveCutover(w)
  PROVE  IInv'
<1>1. /\ pc[w] = "save_cutover" /\ pc[w] \in Running /\ pc[w] \in Leasing /\ TypeOK /\ CallOK(w)
      /\ my[w] \in Locals /\ Goto(w, "finish") /\ UNCHANGED <<canonical, pts, lease, forgotten, count>>
      /\ CountKept /\ UNCHANGED <<mem, events, alias, staged>>
  BY CallerFacts, CountTyped DEF SaveCutover, Running, ReembedPcs, Leasing, canonical
<1> SUFFICES ASSUME NEW p \in Plans, p = my[w].p, NEW old \in Checkpoint, old = my[w].ck PROVE IInv'
  BY <1>1, CopyFacts
<1> DEFINE row == [old EXCEPT !.cutover = TRUE]
           new == [old EXCEPT !.cutover = TRUE, !.status = "completed"]
           l == [my[w] EXCEPT !.ck = new]
<1>2. /\ row \in Checkpoint /\ new \in Checkpoint /\ row.status = old.status /\ row.sources = old.sources
      /\ row.prints = old.prints /\ row.done = old.done /\ row.cutover
      /\ new.status = "completed" /\ new = [row EXCEPT !.status = new.status]
      /\ new.sources = old.sources
  BY DEF Checkpoint
<1>3. ckpt' = [ckpt EXCEPT ![p] = row]
  BY DEF SaveCutover
<1>4. my' = [my EXCEPT ![w] = l]
  BY DEF SaveCutover
<1>5. l \in Locals /\ l.p = p /\ l.ck = new /\ l.input = my[w].input
  BY <1>1, <1>2 DEF Locals
<1> HIDE DEF row, new, l
<1>6. /\ pc' \in [Workers -> Labels] /\ my' \in [Workers -> Locals]
      /\ Others(w) /\ pc'[w] = "finish" /\ my'[w] = l
  BY <1>1, <1>4, <1>5, MovesTyped DEF Labels, ReembedPcs
<1>7. ckpt' \in [Plans -> Checkpoint] /\ ckpt'[p] = row
  BY <1>1, <1>2, <1>3, SavedTyped
<1>8. TypeOK'
  BY <1>1, <1>6, <1>7, TypeNow, TypeNext DEF CountKept
<1>9. CallOK(w)'
  BY <1>1, <1>5, <1>6 DEF CallOK, SyncPcs, ForgetPcs, ReembedPcs, RollbackPcs, RepairPcs, Staging
<1>10. Grows /\ \A e \in events' : e[2] <= mem'[e[1]].rev
  BY <1>1, CallerFacts, TypeNow, RowFields DEF Grows
<1>11. ASSUME Undisturbed
       PROVE  /\ old = ckpt[p] /\ old.status \notin {"none", "rolled_back"} /\ AllDone(old)
              /\ alias # Nobody /\ Holds(w)
  BY <1>1, <1>11, CallerFacts DEF LeasedOK, CopyOK
<1>12. ASSUME Undisturbed PROVE SavedAs(p, row)
  BY <1>2, <1>11, <1>12 DEF SavedAs, AllDone
<1>13. ASSUME Undisturbed PROVE LeasedOK(w)' /\ RepairOK(w)'
  <2>1. CopyOK(w)'
    BY <1>2, <1>5, <1>6, <1>7, <1>11, <1>13 DEF CopyOK, Staging
  <2>2. Holds(w)'
    BY <1>1, <1>11, <1>13 DEF Holds
  <2> QED
    BY <1>6, <2>1, <2>2 DEF LeasedOK, SyncOK, ForgetOK, ForgetPcs, StagingOK, Staging, RepairOK
<1>14. Undisturbed => Stores' /\ (Restorable => Kept')
  BY <1>1, <1>2, <1>3, <1>12, SavedStores
<1>15. ModelsOf(w)'
  BY <1>6, Elsewhere
<1> QED
  BY <1>1, <1>6, <1>8, <1>9, <1>10, <1>13, <1>14, <1>15, WriteKeeps

\* The acknowledgement of one item is saved: it is staged and in the shadow by then.
LEMMA SaveItemKeeps ==
  ASSUME IInv, NEW w \in Workers, SaveItem(w)
  PROVE  IInv'
<1>1. /\ pc[w] = "save_item" /\ pc[w] \in Running /\ pc[w] \in Staging /\ pc[w] \in Leasing
      /\ TypeOK /\ CallOK(w) /\ my[w] \in Locals /\ Goto(w, "item")
      /\ UNCHANGED <<canonical, pts, lease, forgotten, count>>
      /\ CountKept /\ UNCHANGED <<mem, events, alias, staged>>
  BY CallerFacts, CountTyped DEF SaveItem, Running, ReembedPcs, Leasing, Staging, canonical
<1> SUFFICES ASSUME NEW p \in Plans, p = my[w].p, NEW old \in Checkpoint, old = my[w].ck,
                    NEW m \in Memories, m = my[w].m, NEW input \in Inputs, input = my[w].input
             PROVE  IInv'
  BY <1>1, CopyFacts
<1> DEFINE done == [old.done EXCEPT ![m] = input]
           new == [old EXCEPT !.done = done]
           l == [my[w] EXCEPT !.ck = new, !.todo = @ \ {m}]
<1>2. /\ done \in [Memories -> Inputs \cup {0}] /\ done[m] = input /\ input # 0
      /\ \A k \in Memories : k # m => done[k] = old.done[k]
  BY CheckpointFields, NothingTyped
<1>3. my' = [my EXCEPT ![w] = l]
  BY DEF SaveItem
<1> HIDE DEF done
<1>4. /\ new \in Checkpoint /\ new.status = old.status /\ new.sources = old.sources
      /\ new.prints = old.prints /\ new.done = done /\ new.cutover = old.cutover
  BY <1>2 DEF Checkpoint
<1> HIDE DEF new
<1>5. l \in Locals /\ l.p = p /\ l.ck = new /\ l.input = input /\ l.todo \subseteq my[w].todo
  BY <1>1, <1>4 DEF Locals
<1> HIDE DEF l
<1>6. /\ pc' \in [Workers -> Labels] /\ my' \in [Workers -> Locals]
      /\ Others(w) /\ pc'[w] = "item" /\ my'[w] = l
  BY <1>1, <1>3, <1>5, MovesTyped DEF Labels, ReembedPcs
<1>7. ckpt' \in [Plans -> Checkpoint] /\ ckpt'[p] = new /\ \A q \in Plans : q # p => ckpt'[q] = ckpt[q]
  <2>1. ckpt' = [ckpt EXCEPT ![p] = new]
    BY <1>5, <1>6 DEF SaveItem
  <2> QED
    BY <1>1, <1>4, <2>1, SavedTyped
<1>8. TypeOK'
  BY <1>1, <1>6, <1>7, TypeNow, TypeNext DEF CountKept
<1>9. CallOK(w)'
  BY <1>1, <1>5, <1>6 DEF CallOK, SyncPcs, ForgetPcs, ReembedPcs, RollbackPcs, RepairPcs, Staging
<1>10. Grows /\ \A e \in events' : e[2] <= mem'[e[1]].rev
  BY <1>1, CallerFacts, TypeNow, RowFields DEF Grows
<1>11. CurrentRoute' = CurrentRoute /\ Active' = Active
  BY <1>1 DEF CurrentRoute, Active
<1>12. ASSUME Undisturbed
       PROVE  /\ old = ckpt[p] /\ old.status \notin {"none", "rolled_back"} /\ Holds(w)
              /\ m \in ckpt[p].sources /\ ckpt[p].done[m] = 0 /\ mem[m].status = "active"
              /\ ~AllDone(ckpt[p]) /\ ~(alias # Nobody /\ alias.coll = Shadow[p])
              /\ Fresh(Shadow[p], m, ckpt[p].prints[m], VectorOf(p, input))
              /\ Staged(Shadow[p], m, ckpt[p].prints[m], VectorOf(p, input))
  <2>1. /\ old = ckpt[p] /\ m \in ckpt[p].sources /\ ckpt[p].done[m] = 0
        /\ my[w].row.rev = ckpt[p].prints[m] /\ mem[m].status = "active" /\ StagingOK(w) /\ Holds(w)
        /\ ~AllDone(ckpt[p]) /\ ~(alias # Nobody /\ alias.coll = Shadow[p])
    BY <1>1, <1>12, StagingFacts
  <2>2. old.status \notin {"none", "rolled_back"}
    BY <1>1, <1>12, CopyFacts
  <2>3. NewVector(w) = VectorOf(p, input)
    BY DEF NewVector, VectorOf
  <2> QED
    BY <1>1, <2>1, <2>2, <2>3 DEF StagingOK
<1>13. ASSUME Undisturbed PROVE LeasedOK(w)' /\ RepairOK(w)'
  <2>1. new = ckpt'[p] /\ new = [ckpt'[p] EXCEPT !.status = new.status]
    BY <1>4, <1>7 DEF Checkpoint
  <2>2. l.todo \subseteq new.sources
    <3>1. CopyOK(w)
      BY <1>1, <1>13, StagingFacts
    <3>2. my[w].todo \subseteq old.sources
      BY <1>1, <3>1 DEF CopyOK
    <3> QED
      BY <1>4, <1>5, <3>2
  <2>3. CopyOK(w)'
    BY <1>4, <1>5, <1>6, <1>12, <1>13, <2>1, <2>2 DEF CopyOK, Staging
  <2>4. Holds(w)'
    BY <1>1, <1>12, <1>13 DEF Holds
  <2> QED
    BY <1>6, <2>3, <2>4 DEF LeasedOK, SyncOK, ForgetOK, ForgetPcs, StagingOK, Staging, RepairOK
<1>14. ASSUME Undisturbed, NEW q \in Plans PROVE PlanOK(q)' /\ ServedOK(q)'
  <2>1. PlanOK(q) /\ ServedOK(q) /\ \A k \in Memories : ItemOK(q, k)
    BY <1>14, StoreFacts
  <2>2. CASE q # p
    <3>1. ckpt'[q] = ckpt[q]
      BY <1>7, <2>2
    <3>2. \A k \in Memories : ItemOK(q, k)'
      BY <1>1, <2>1, <3>1, ItemStill
    <3> QED
      BY <1>1, <2>1, <3>1, <3>2, ServedStill, PlanStill
  <2>3. CASE q = p
    <3>1. /\ ckpt'[p].status = ckpt[p].status /\ ckpt'[p].sources = ckpt[p].sources
          /\ ckpt'[p].prints = ckpt[p].prints /\ ckpt'[p].cutover = ckpt[p].cutover
          /\ ckpt'[p].done[m] = input /\ \A k \in Memories : k # m => ckpt'[p].done[k] = ckpt[p].done[k]
      BY SMTT(15), ZenonT(30), <1>2, <1>4, <1>7, <1>12, <1>14
    <3>2. ASSUME NEW k \in Memories, k # m PROVE ItemOK(p, k)'
      BY <1>1, <2>1, <2>3, <3>1, <3>2, ItemStill
    <3>3. ItemOK(p, m)'
      <4>1. Staged(Shadow[p], m, ckpt[p].prints[m], VectorOf(p, input))'
        BY <1>1, <1>12, <1>14, <3>1 DEF Staged, VectorOf
      <4>2. Fresh(Shadow[p], m, ckpt[p].prints[m], VectorOf(p, input))'
        BY <1>1, <1>12, <1>14, <3>1 DEF Fresh, VectorOf
      <4>3. m \in ckpt[p].sources /\ ItemOK(p, m)
        BY <1>12, <1>14, <2>1, <2>3
      <4> QED
        BY <1>1, <3>1, <4>1, <4>2, <4>3 DEF ItemOK, Staged, Fresh, VectorOf
    <3>4. \A k \in Memories : ItemOK(p, k)'
      BY <3>2, <3>3
    <3>5. ~AllDone(ckpt[p]) /\ ckpt[p].status # "none" /\ ~(alias # Nobody /\ alias.coll = Shadow[p])
      BY <1>12, <1>14
    <3>6. PlanOK(p)'
      BY <1>1, <2>1, <2>3, <3>1, <3>4, <3>5 DEF PlanOK
    <3>7. ServedOK(p)'
      BY <1>1, <3>5 DEF ServedOK
    <3> QED
      BY <2>3, <3>6, <3>7
  <2> QED
    BY <2>2, <2>3
<1>15. ASSUME Undisturbed, NEW k \in Memories PROVE (Forward => IndexedOK(k)') /\ TraceOK(k)'
  <2>1. (Forward => IndexedOK(k)) /\ TraceOK(k)
    BY <1>15, StoreFacts
  <2> QED
    BY <1>1, <1>11, <2>1 DEF IndexedOK, TraceOK, Fresh
<1>16. Undisturbed => Stores'
  BY <1>1, <1>14, <1>15 DEF Stores, Forward
<1>17. ASSUME Undisturbed, Restorable PROVE Kept'
  <2>1. Kept
    BY <1>17, CallerFacts
  <2>2. ~(OnePlan /\ alias # Nobody)
    BY <1>12, <1>17, <2>1 DEF Kept, Settled
  <2>3. \A d \in Collections, k \in Memories : ModelsAt(d, k)'
    BY SMTT(40), <1>1, <2>1 DEF Kept, ModelsAt, ModelOf
  <2> QED
    BY <1>1, <1>11, <2>1, <2>2, <2>3 DEF Kept, ModelOf, Settled
<1>18. ModelsOf(w)'
  BY <1>6, Elsewhere
<1> QED
  BY <1>1, <1>6, <1>8, <1>9, <1>10, <1>13, <1>16, <1>17, <1>18, WriteKeeps

\* A plan begins, over the memories active then, or goes on.
LEMMA ReembedLoadKeeps ==
  ASSUME IInv, NEW w \in Workers, ReembedLoad(w)
  PROVE  IInv'
<1>1. /\ pc[w] = "load" /\ pc[w] \in Leasing /\ TypeOK /\ CallOK(w) /\ my[w] \in Locals
      /\ UNCHANGED <<canonical, pts, forgotten, count>> /\ CountKept
      /\ UNCHANGED <<mem, events, alias, staged>>
  BY CallerFacts, CountTyped DEF ReembedLoad, ReembedPcs, Leasing, canonical
<1> SUFFICES ASSUME NEW p \in Plans, p = my[w].p, NEW input \in Inputs, input = my[w].input
             PROVE  IInv'
  BY <1>1 DEF CallOK, ReembedPcs
<1> DEFINE ck == IF ckpt[p].status = "none" THEN NewCheckpoint ELSE ckpt[p]
           l == [my[w] EXCEPT !.ck = ck, !.todo = ck.sources]
<1>2. CASE Leave(w) /\ UNCHANGED ckpt
  BY <1>1, <1>2, LeaveKeeps DEF StoresStill
<1>3. /\ NewCheckpoint \in Checkpoint /\ NewCheckpoint.status = "running" /\ NewCheckpoint.sources = Active
      /\ NewCheckpoint.prints = [m \in Memories |-> IF m \in Active THEN mem[m].rev ELSE 0]
      /\ NewCheckpoint.done = [m \in Memories |-> 0] /\ NewCheckpoint.cutover = FALSE
  <2>1. [m \in Memories |-> IF m \in Active THEN mem[m].rev ELSE 0] \in [Memories -> Nat]
    BY <1>1, TypeNow, RowFields
  <2> QED
    BY <2>1 DEF NewCheckpoint, NoCheckpoint, Checkpoint, Active
<1>4. CASE /\ Replayable(ck) /\ ckpt' = [ckpt EXCEPT ![p] = ck] /\ my' = [my EXCEPT ![w] = l]
           /\ Goto(w, "item") /\ UNCHANGED lease
  <2>1. ck \in Checkpoint /\ ck.status \notin {"none", "rolled_back"}
    BY <1>1, <1>3, <1>4, TypeNow DEF Replayable
  <2>2. /\ l \in Locals /\ l.p = p /\ l.input = input /\ l.ck = ck /\ l.todo = ck.sources
    BY <1>1, <2>1, CheckpointFields DEF Locals
  <2>3. ckpt[p].status = "none" => ck = NewCheckpoint
    OBVIOUS
  <2>4. ckpt[p].status # "none" => ck = ckpt[p]
    OBVIOUS
  <2> HIDE DEF ck, l
  <2>5. /\ pc' \in [Workers -> Labels] /\ my' \in [Workers -> Locals]
        /\ Others(w) /\ pc'[w] = "item" /\ my'[w] = l
    BY <1>1, <1>4, <2>2, MovesTyped DEF Labels, ReembedPcs
  <2>6. ckpt' \in [Plans -> Checkpoint] /\ ckpt'[p] = ck /\ \A q \in Plans : q # p => ckpt'[q] = ckpt[q]
    BY <1>1, <1>4, <2>1, SavedTyped
  <2>7. TypeOK'
    BY <1>1, <1>4, <2>5, <2>6, TypeNow, TypeNext DEF CountKept
  <2>8. CallOK(w)'
    BY <1>1, <2>2, <2>5 DEF CallOK, SyncPcs, ForgetPcs, ReembedPcs, RollbackPcs, RepairPcs, Staging
  <2>9. Grows /\ \A e \in events' : e[2] <= mem'[e[1]].rev
    BY <1>1, CallerFacts, TypeNow, RowFields DEF Grows
  <2>10. CurrentRoute' = CurrentRoute /\ Active' = Active
    BY <1>1 DEF CurrentRoute, Active
  <2>11. ASSUME Undisturbed PROVE LeasedOK(w)' /\ RepairOK(w)'
    <3>1. ck = [ck EXCEPT !.status = ck.status]
      BY <2>1 DEF Checkpoint
    <3>2. CopyOK(w)'
      BY <2>1, <2>2, <2>5, <2>6, <3>1 DEF CopyOK
    <3>3. Holds(w)'
      BY <1>1, <1>4, <2>11, CallerFacts DEF Holds
    <3> QED
      BY <2>5, <3>2, <3>3 DEF LeasedOK, SyncOK, ForgetOK, ForgetPcs, StagingOK, Staging, RepairOK
  <2>12. ASSUME Undisturbed, NEW q \in Plans PROVE PlanOK(q)' /\ ServedOK(q)'
    <3>1. PlanOK(q) /\ ServedOK(q) /\ \A k \in Memories : ItemOK(q, k)
      BY <2>12, StoreFacts
    <3>2. CASE ckpt'[q] = ckpt[q]
      <4>1. \A k \in Memories : ItemOK(q, k)'
        BY <1>1, <3>1, <3>2, ItemStill
      <4> QED
        BY <1>1, <3>1, <3>2, <4>1, ServedStill, PlanStill
    <3>3. CASE q = p /\ ckpt[p].status = "none"
      <4>1. ckpt'[p] = NewCheckpoint /\ ckpt[p] = NoCheckpoint
        BY <2>3, <2>6, <3>1, <3>3 DEF PlanOK
      <4>2. ASSUME NEW k \in Memories PROVE ItemOK(p, k)'
        <5>1. staged'[Shadow[p]][k] = Nobody
          BY <1>1, <3>1, <3>3, <4>1 DEF ItemOK, NoCheckpoint
        <5>2. ckpt'[p].done[k] = 0 /\ ckpt'[p].prints[k] <= mem'[k].rev
          BY <1>1, <1>3, <4>1, TypeNow, RowFields
        <5>3. k \in ckpt'[p].sources => mem'[k].status # "absent"
          BY <1>1, <1>3, <4>1 DEF Active
        <5> QED
          BY <5>1, <5>2, <5>3 DEF ItemOK
      <4>3. PlanOK(p)'
        BY <1>3, <4>1, <4>2 DEF PlanOK
      <4>4. ServedOK(p)'
        BY <1>1, <3>1, <3>3 DEF ServedOK
      <4> QED
        BY <3>3, <4>3, <4>4
    <3> QED
      BY <2>4, <2>6, <3>2, <3>3
  <2>13. ASSUME Undisturbed, NEW k \in Memories PROVE (Forward => IndexedOK(k)') /\ TraceOK(k)'
    <3>1. (Forward => IndexedOK(k)) /\ TraceOK(k)
      BY <2>13, StoreFacts
    <3> QED
      BY <1>1, <2>10, <3>1 DEF IndexedOK, TraceOK, Fresh
  <2>14. Undisturbed => Stores'
    BY <1>1, <2>12, <2>13 DEF Stores, Forward
  <2>15. ASSUME Undisturbed, Restorable PROVE Kept'
    <3>1. Kept
      BY <2>15, CallerFacts
    <3>2. Settled'
      <4>1. (OnePlan /\ alias # Nobody) => \A q \in Plans : ckpt'[q] = ckpt[q]
        BY <2>4, <2>6, <3>1 DEF Kept, Settled
      <4> QED
        BY <1>1, <2>10, <3>1, <4>1 DEF Kept, Settled, AllDone
    <3>3. \A d \in Collections, k \in Memories : ModelsAt(d, k)'
      BY <1>1, <3>1 DEF Kept, ModelsAt, ModelOf
    <3> QED
      BY <1>1, <2>10, <3>1, <3>2, <3>3 DEF Kept, ModelOf
  <2>16. ModelsOf(w)'
    BY <2>5, Elsewhere
  <2> QED
    BY <1>1, <2>5, <2>7, <2>8, <2>9, <2>11, <2>14, <2>15, <2>16, WriteKeeps
<1> QED
  BY <1>2, <1>4 DEF ReembedLoad

-----------------------------------------------------------------------------
(* Cutover and rollback.                                                   *)

\* What the transaction of a cutover does where it is allowed.
LEMMA CutoverFacts ==
  ASSUME TypeOK, NEW c \in Collections, CutoverAllowed(c), Cutover(c)
  PROVE  /\ mem' \in [Memories -> Row] /\ alias' \in Route /\ alias' # Nobody /\ alias'.coll = c
         /\ CurrentRoute' = alias' /\ Active' = Active /\ Grows
         /\ \E m \in Active : alias'.model = staged[c][m].vec.model
         /\ \A m \in Memories : mem'[m].rev = mem[m].rev /\ mem'[m].status = mem[m].status
         /\ \A m \in Active : /\ staged[c][m] # Nobody /\ staged[c][m].rev = mem[m].rev
                              /\ mem'[m].vec = staged[c][m].vec
<1>1. mem \in [Memories -> Row] /\ staged[c] \in [Memories -> Snapshot \cup {Nobody}]
  BY TypeNow
<1>2. \A m \in Active : /\ m \in Memories /\ staged[c][m] # Nobody /\ staged[c][m].rev = mem[m].rev
                        /\ staged[c][m] \in Snapshot /\ staged[c][m].vec \in Vector
  BY <1>1 DEF CutoverAllowed, StagedIn, Active, Snapshot
<1>3. mem' = [m \in Memories |-> IF m \in Active THEN [mem[m] EXCEPT !.vec = staged[c][m].vec] ELSE mem[m]]
  BY <1>2 DEF Cutover
<1>4. PICK first \in Active : alias' = [coll |-> c, model |-> staged[c][first].vec.model]
  BY DEF Cutover, CutoverAllowed
<1>5. staged[c][first].vec.model \in Models
  BY <1>2, <1>4 DEF Vector
<1>6. alias' \in Route /\ alias' # Nobody /\ alias'.coll = c /\ alias'.model = staged[c][first].vec.model
  BY <1>4, <1>5, Something DEF Route
<1>7. ASSUME NEW m \in Memories
      PROVE  /\ mem'[m] \in Row /\ mem'[m].rev = mem[m].rev /\ mem'[m].status = mem[m].status
             /\ m \in Active => mem'[m].vec = staged[c][m].vec
  <2>1. CASE m \in Active
    <3>1. mem'[m] = [mem[m] EXCEPT !.vec = staged[c][m].vec] /\ mem[m] \in Row
      BY <1>1, <1>3, <2>1
    <3> QED
      BY <1>2, <2>1, <3>1 DEF Row
  <2>2. CASE m \notin Active
    BY <1>1, <1>3, <2>2
  <2> QED
    BY <2>1, <2>2
<1>8. mem' \in [Memories -> Row]
  BY <1>3, <1>7
<1>9. Active' = Active
  BY <1>7 DEF Active
<1>10. Grows
  BY <1>1, <1>6, <1>7, RowFields DEF Grows
<1>11. CurrentRoute' = alias'
  BY <1>6 DEF CurrentRoute
<1> QED
  BY <1>2, <1>4, <1>6, <1>7, <1>8, <1>9, <1>10, <1>11

\* Items are as they were, whatever vectors the rows take.
LEMMA CutoverItems ==
  ASSUME NEW q \in Plans, NEW m \in Memories, ItemOK(q, m), alias' # Nobody,
         mem'[m].rev = mem[m].rev, mem'[m].status = mem[m].status, UNCHANGED <<staged, ckpt, pts>>
  PROVE  ItemOK(q, m)'
  BY DEF ItemOK, Staged, Fresh, VectorOf

\* The route moves to a shadow: every active memory is there as it is, with the vector
\* that its row takes.
LEMMA ReembedCutoverKeeps ==
  ASSUME IInv, NEW w \in Workers, ReembedCutover(w)
  PROVE  IInv'
<1>1. /\ pc[w] = "verify" /\ pc[w] \in Leasing /\ pc[w] \in Running \ {"finish"} /\ TypeOK /\ CallOK(w)
      /\ my[w] \in Locals /\ UNCHANGED <<events, staged, ckpt, pts, forgotten, count>> /\ CountKept
  BY CallerFacts, CountTyped DEF ReembedCutover, ReembedPcs, Leasing, Running
<1>2. Undisturbed => my[w].ck = ckpt[my[w].p] /\ AllDone(my[w].ck) /\ ckpt[my[w].p].status # "none"
  BY <1>1, CallerFacts DEF LeasedOK, CopyOK
<1> SUFFICES ASSUME NEW p \in Plans, p = my[w].p, NEW ck \in Checkpoint, ck = my[w].ck
             PROVE  IInv'
  BY <1>1, CopyFacts
<1>3. CASE /\ Goto(w, "finish") /\ UNCHANGED <<mem, alias, lease>>
           /\ my' = [my EXCEPT ![w].ck.status = IF my[w].ck.cutover THEN "completed" ELSE "validated"]
  <2> DEFINE s == IF my[w].ck.cutover THEN "completed" ELSE "validated"
             new == [ck EXCEPT !.status = s]
             l == [my[w] EXCEPT !.ck = new]
  <2>1. new \in Checkpoint /\ new.status = s /\ new.sources = ck.sources /\ new.done = ck.done
        /\ s \in {"completed", "validated"}
    BY DEF Checkpoint
  <2>2. my' = [my EXCEPT ![w] = l]
    BY <1>3
  <2>3. l \in Locals /\ l.p = my[w].p /\ l.input = my[w].input /\ l.ck = new
    BY <1>1, <2>1 DEF Locals
  <2>4. l.ck = [my[w].ck EXCEPT !.status = l.ck.status]
    BY <2>1, <2>3
  <2> HIDE DEF new, s, l
  <2>5. Undisturbed => AllDone(l.ck)
    BY <1>2, <2>1, <2>3 DEF AllDone
  <2>6. StoresStill
    BY <1>1, <1>3 DEF StoresStill, canonical
  <2>7. l.ck.status \in {my[w].ck.status, "awaiting_vectors", "completed", "validated"}
    BY <2>1, <2>3
  <2> QED
    BY <1>1, <1>3, <2>2, <2>3, <2>4, <2>5, <2>6, <2>7, PlanStepKeeps
<1>4. CASE /\ Goto(w, "fail") /\ UNCHANGED <<mem, alias, my>>
           /\ UNCHANGED lease \/ (Hold(w) /\ MayHold(w))
  BY <1>1, <1>4, FailKeeps DEF StoresStill, canonical
<1>5. CASE /\ CutoverAllowed(Shadow[p]) /\ Cutover(Shadow[p]) /\ Goto(w, "save_cutover")
           /\ MayHold(w) /\ Hold(w) /\ my' = my
  <2> DEFINE c == Shadow[p]
  <2>1. c \in Collections /\ c # Logical /\ ModelOf(c) = Target[p]
    BY ShadowModel
  <2>2. /\ mem' \in [Memories -> Row] /\ alias' \in Route /\ alias' # Nobody /\ alias'.coll = c
        /\ CurrentRoute' = alias' /\ Active' = Active /\ Grows
        /\ \E m \in Active : alias'.model = staged[c][m].vec.model
        /\ \A m \in Memories : mem'[m].rev = mem[m].rev /\ mem'[m].status = mem[m].status
        /\ \A m \in Active : /\ staged[c][m] # Nobody /\ staged[c][m].rev = mem[m].rev
                             /\ mem'[m].vec = staged[c][m].vec
    BY <1>1, <1>5, <2>1, CutoverFacts
  <2>3. /\ pc' \in [Workers -> Labels] /\ my' \in [Workers -> Locals]
        /\ Others(w) /\ pc'[w] = "save_cutover" /\ my'[w] = my[w]
    BY <1>1, <1>5, MovesTyped DEF Labels, ReembedPcs
  <2>4. lease' \in Leases /\ Holds(w)'
    BY <1>1, <1>5, HoldTyped
  <2>5. TypeOK'
    BY <1>1, <2>2, <2>3, <2>4, TypeNow, TypeNext DEF CountKept
  <2>6. CallOK(w)'
    BY <1>1, <2>3 DEF CallOK, SyncPcs, ForgetPcs, ReembedPcs, RollbackPcs, RepairPcs, Staging
  <2>7. \A e \in events' : e[2] <= mem'[e[1]].rev
    BY <1>1, <2>2, CallerFacts, TypeNow
  <2> HIDE DEF c
  <2>8. ASSUME Undisturbed, NEW m \in Active
        PROVE  /\ Fresh(c, m, mem[m].rev, mem'[m].vec)
               /\ mem'[m].vec = VectorOf(p, ckpt[p].done[m])
    <3>1. m \in Memories /\ mem[m].status = "active" /\ staged[c][m] # Nobody
          /\ staged[c][m].rev = mem[m].rev /\ mem'[m].vec = staged[c][m].vec
      BY <2>2, <2>8 DEF Active
    <3>2. ItemOK(p, m)
      BY <2>8, <3>1, StoreFacts
    <3>3. m \in ckpt[p].sources /\ ckpt[p].done[m] # 0
      BY <1>2, <2>8, <3>1, <3>2 DEF ItemOK, AllDone, c
    <3>4. Staged(c, m, ckpt[p].prints[m], VectorOf(p, ckpt[p].done[m]))
      BY <3>1, <3>2, <3>3 DEF ItemOK, c
    <3>5. mem[m].rev = ckpt[p].prints[m] /\ mem'[m].vec = VectorOf(p, ckpt[p].done[m])
      BY <3>1, <3>4 DEF Staged
    <3>6. Fresh(c, m, ckpt[p].prints[m], VectorOf(p, ckpt[p].done[m]))
      BY <3>1, <3>2, <3>3, <3>5 DEF ItemOK, c
    <3> QED
      BY <3>5, <3>6
  <2>9. ASSUME NEW q \in Plans, AllDone(ckpt[q]) PROVE AllDone(ckpt[q])'
    BY <1>1, <2>2, <2>9 DEF AllDone
  <2>10. ASSUME Undisturbed PROVE LeasedOK(w)' /\ RepairOK(w)'
    <3>1. CopyOK(w)
      BY <2>10, CallerFacts DEF LeasedOK
    <3>2. CopyOK(w)'
      <4>1. my[w].ck = ckpt[p] /\ my[w].ck = [my[w].ck EXCEPT !.status = my[w].ck.status]
            /\ ckpt[p].status \notin {"none", "rolled_back"}
        BY <1>1, <1>2, <2>10, <3>1 DEF CopyOK, Checkpoint
      <4>2. AllDone(ckpt[p])'
        BY <1>2, <2>9, <2>10
      <4> QED
        BY <1>1, <2>2, <2>3, <4>1, <4>2 DEF CopyOK, Staging, AllDone
    <3> QED
      BY <2>3, <2>4, <3>2 DEF LeasedOK, SyncOK, ForgetOK, ForgetPcs, StagingOK, Staging, RepairOK
  <2>11. ASSUME Undisturbed, NEW q \in Plans PROVE PlanOK(q)' /\ ServedOK(q)'
    <3>1. PlanOK(q) /\ \A k \in Memories : ItemOK(q, k)
      BY <2>11, StoreFacts
    <3>2. \A k \in Memories : ItemOK(q, k)'
      BY <1>1, <2>2, <3>1, CutoverItems
    <3>3. PlanOK(q)'
      BY <1>1, <2>2, <2>9, <3>1, <3>2 DEF PlanOK, NoCheckpoint
    <3>4. ServedOK(q)'
      <4>1. CASE q # p
        <5>1. Shadow[q] # Shadow[p]
          BY <4>1, ShadowModel
        <5> QED
          BY <2>2, <5>1 DEF ServedOK, c
      <4>2. CASE q = p
        <5>1. ckpt'[p].status # "none" /\ AllDone(ckpt[p])'
          BY <1>1, <1>2, <2>9, <2>11
        <5>2. ASSUME NEW k \in Active PROVE mem'[k].vec = VectorOf(p, ckpt'[p].done[k])
          <6>1. mem'[k].vec = VectorOf(p, ckpt[p].done[k])
            BY <2>8, <2>11, <5>2
          <6> QED
            BY <1>1, <6>1
        <5> QED
          BY <2>2, <4>2, <5>1, <5>2 DEF ServedOK, VectorOf
      <4> QED
        BY <4>1, <4>2
    <3> QED
      BY <3>3, <3>4
  <2>12. ASSUME Undisturbed, NEW k \in Memories PROVE IndexedOK(k)' /\ TraceOK(k)'
    <3>1. TraceOK(k)
      BY <2>12, StoreFacts
    <3>2. TraceOK(k)'
      BY <1>1, <2>2, <3>1 DEF TraceOK
    <3>3. mem'[k].status = "active" => k \in Active
      BY <2>2 DEF Active
    <3>4. k \in Active => Fresh(c, k, mem[k].rev, mem'[k].vec)
      BY <2>8, <2>12
    <3>5. IndexedOK(k)'
      BY <1>1, <2>2, <3>3, <3>4 DEF IndexedOK, Fresh
    <3> QED
      BY <3>2, <3>5
  <2>13. Undisturbed => Stores'
    BY <2>11, <2>12 DEF Stores
  <2>14. ASSUME Undisturbed, Restorable PROVE Kept'
    <3>1. Kept
      BY <2>14, CallerFacts
    <3>2. ASSUME NEW k \in Active PROVE mem'[k].vec.model = Target[p]
      <4>1. mem'[k].vec = VectorOf(p, ckpt[p].done[k])
        BY <2>8, <2>14, <3>2
      <4> QED
        BY <4>1 DEF VectorOf
    <3>3. alias'.model = Target[p] /\ CurrentRoute'.model = Target[p]
      BY <2>2, <3>2
    <3>4. \A d \in Collections, k \in Memories : ModelsAt(d, k)'
      BY <1>1, <3>1 DEF Kept, ModelsAt, ModelOf
    <3>5. Settled'
      <4>1. OnePlan => \A q \in Plans : q = p
        BY DEF OnePlan
      <4>2. ckpt'[p].status # "none" /\ AllDone(ckpt[p])'
        BY <1>1, <1>2, <2>9, <2>14
      <4> QED
        BY <4>1, <4>2 DEF Settled
    <3>6. \A k \in Memories : mem'[k].status = "active" => k \in Active
      BY <2>2 DEF Active
    <3>7. alias'.model = ModelOf(alias'.coll)
      BY <2>1, <2>2, <3>3
    <3> QED
      BY <3>2, <3>3, <3>4, <3>5, <3>6, <3>7 DEF Kept, ModelOf
  <2>15. ModelsOf(w)'
    BY <2>3, Elsewhere
  <2> QED
    BY <1>1, <2>2, <2>3, <2>5, <2>6, <2>7, <2>10, <2>13, <2>14, <2>15, WriteKeeps
<1> QED
  BY <1>3, <1>4, <1>5 DEF ReembedCutover, Renewing

\* The route moves back to the configured collection, to the snapshot staged for it.
LEMMA RollbackApplyKeeps ==
  ASSUME IInv, NEW w \in Workers, RollbackApply(w)
  PROVE  IInv'
<1>1. /\ pc[w] = "rollback" /\ pc[w] \in Leasing /\ TypeOK /\ CallOK(w) /\ "rollback" \in Operations
      /\ my[w] \in Locals /\ UNCHANGED <<events, staged, ckpt, pts, forgotten>>
  BY CallerFacts DEF RollbackApply, RollbackPcs, Leasing, CallOK
<1> SUFFICES ASSUME NEW p \in Plans, p = my[w].p PROVE IInv'
  BY <1>1 DEF CallOK, RollbackPcs
<1>2. CASE Leave(w) /\ UNCHANGED <<mem, alias, count>>
  BY <1>1, <1>2, CountTyped, LeaveKeeps DEF StoresStill, canonical
<1>3. CASE /\ ckpt[p].cutover /\ CutoverAllowed(Logical) /\ Cutover(Logical)
           /\ my' = [my EXCEPT ![w].ck = ckpt[p]] /\ Goto(w, "save_rollback") /\ UNCHANGED lease
           /\ count' = IF OriginalSnapshot THEN count ELSE [count EXCEPT !.foreign = @ + 1]
  <2> DEFINE l == [my[w] EXCEPT !.ck = ckpt[p]]
  <2>1. l \in Locals /\ l.p = p /\ l.ck = ckpt[p] /\ my' = [my EXCEPT ![w] = l]
    BY <1>1, <1>3, TypeNow DEF Locals
  <2> HIDE DEF l
  <2>2. /\ mem' \in [Memories -> Row] /\ alias' \in Route /\ alias' # Nobody /\ alias'.coll = Logical
        /\ CurrentRoute' = alias' /\ Active' = Active /\ Grows
        /\ \E m \in Active : alias'.model = staged[Logical][m].vec.model
        /\ \A m \in Memories : mem'[m].rev = mem[m].rev /\ mem'[m].status = mem[m].status
        /\ \A m \in Active : /\ staged[Logical][m] # Nobody
                             /\ mem'[m].vec = staged[Logical][m].vec
    <3>1. Logical \in Collections /\ CutoverAllowed(Logical) /\ Cutover(Logical)
      BY <1>3, NothingTyped
    <3> QED
      BY <1>1, <3>1, CutoverFacts
  <2>3. /\ pc' \in [Workers -> Labels] /\ my' \in [Workers -> Locals]
        /\ Others(w) /\ pc'[w] = "save_rollback" /\ my'[w] = l
    <3>1. Goto(w, "save_rollback") /\ "save_rollback" \in Labels
      BY <1>3 DEF Labels, RollbackPcs
    <3> QED
      BY <1>1, <2>1, <3>1, MovesTyped
  <2>14. /\ count' \in Counts /\ count'.lapses = count.lapses
         /\ Restorable' <=> Restorable /\ OriginalSnapshot
    <3>1. count \in Counts
      BY <1>1, TypeNow
    <3> QED
      BY <1>3, <3>1 DEF Counts, Restorable
  <2>4. TypeOK'
    BY <1>1, <1>3, <2>2, <2>3, <2>14, TypeNow, TypeNext
  <2>5. CallOK(w)'
    BY <1>1, <2>1, <2>3 DEF CallOK, SyncPcs, ForgetPcs, ReembedPcs, RollbackPcs, RepairPcs, Staging
  <2>6. \A e \in events' : e[2] <= mem'[e[1]].rev
    BY <1>1, <2>2, CallerFacts, TypeNow
  <2>7. ASSUME Undisturbed PROVE LeasedOK(w)' /\ RepairOK(w)'
    <3>1. Holds(w)'
      BY <1>1, <1>3, <2>7, CallerFacts DEF Holds
    <3> QED
      BY <1>1, <2>1, <2>3, <3>1
      DEF LeasedOK, SyncOK, ForgetOK, ForgetPcs, CopyOK, Running, ReembedPcs, StagingOK, Staging, RepairOK
  <2>8. ASSUME NEW q \in Plans, AllDone(ckpt[q]) PROVE AllDone(ckpt[q])'
    BY <1>1, <2>2, <2>8 DEF AllDone
  <2>9. ASSUME Undisturbed, NEW q \in Plans PROVE PlanOK(q)' /\ ServedOK(q)'
    <3>1. PlanOK(q) /\ \A k \in Memories : ItemOK(q, k)
      BY <2>9, StoreFacts
    <3>2. \A k \in Memories : ItemOK(q, k)'
      BY <1>1, <2>2, <3>1, CutoverItems
    <3>3. PlanOK(q)'
      BY <1>1, <2>2, <2>8, <3>1, <3>2 DEF PlanOK, NoCheckpoint
    <3>4. ServedOK(q)'
      BY <2>2, ShadowModel DEF ServedOK
    <3> QED
      BY <3>3, <3>4
  <2>10. ASSUME Undisturbed, NEW k \in Memories PROVE TraceOK(k)'
    <3>1. TraceOK(k)
      BY <2>10, StoreFacts
    <3> QED
      BY <1>1, <2>2, <3>1 DEF TraceOK
  <2>11. Undisturbed => Stores'
    BY <2>2, <2>9, <2>10 DEF Stores, Forward
  <2>12. ASSUME Undisturbed, Restorable, OriginalSnapshot PROVE Kept'
    <3>1. Kept
      BY <2>12, CallerFacts
    <3>2. ModelOf(Logical) = BaseModel /\ Logical \in Collections
      BY NothingTyped DEF ModelOf
    <3>3. \A k \in Active : staged[Logical][k].vec.model = BaseModel /\ mem'[k].vec.model = BaseModel
      <4> SUFFICES ASSUME NEW k \in Active
                   PROVE  staged[Logical][k].vec.model = BaseModel /\ mem'[k].vec.model = BaseModel
        OBVIOUS
      <4>1. k \in Memories /\ staged[Logical][k] # Nobody /\ mem'[k].vec = staged[Logical][k].vec
        BY <2>2 DEF Active
      <4> QED
        BY <2>12, <4>1 DEF OriginalSnapshot, StagedIn
    <3>4. alias'.model = BaseModel /\ CurrentRoute'.model = BaseModel
      BY <2>2, <3>3
    <3>5. \A d \in Collections, k \in Memories : ModelsAt(d, k)'
      BY <1>1, <3>1 DEF Kept, ModelsAt, ModelOf
    <3>6. Settled'
      <4>1. alias # Nobody
        BY <1>3, <2>12, StoreFacts DEF PlanOK
      <4> QED
        BY <1>1, <2>8, <3>1, <4>1 DEF Kept, Settled
    <3>7. \A k \in Memories : mem'[k].status = "active" => k \in Active
      BY <2>2 DEF Active
    <3>8. alias'.model = ModelOf(alias'.coll)
      BY <2>2, <3>2, <3>4
    <3> QED
      BY <3>3, <3>4, <3>5, <3>6, <3>7, <3>8 DEF Kept, ModelOf
  <2>13. ModelsOf(w)'
    BY <2>3, Elsewhere
  <2>15. ASSUME Undisturbed, OnePlan PROVE Restorable'
    <3>1. Restorable
      BY <2>15 DEF IInv
    <3>2. \A m \in Memories : ModelsAt(Logical, m)
      BY <2>15, <3>1, NothingTyped, CallerFacts DEF Kept
    <3>3. OriginalSnapshot
      BY <2>15, <3>2 DEF ModelsAt, ModelOf, OriginalSnapshot, StagedIn
    <3> QED
      BY <2>14, <3>1, <3>3
  <2>16. Undisturbed => \A v \in Workers : v # w => LeasedOK(v)'
    BY <1>1, <2>3, CallerFacts, OthersAlone
  <2> QED
    BY <2>2, <2>3, <2>4, <2>5, <2>6, <2>7, <2>11, <2>12, <2>13, <2>14, <2>15, <2>16, RestoreKeeps
<1> QED
  BY <1>2, <1>3 DEF RollbackApply

-----------------------------------------------------------------------------
(* The invariant.                                                          *)

\* The state of a user with an index that was never re-embedded.
LEMMA InitHolds ==
  ASSUME Init
  PROVE  IInv
<1>1. /\ MaxCalls \in Nat /\ MaxCrashes \in Nat /\ MaxLapses \in Nat /\ Existing \subseteq Memories
  BY RouteAssumption
<1>2. ASSUME NEW m \in Memories
      PROVE  /\ mem[m] \in Row /\ mem[m].rev \in Nat /\ mem[m].vec = NoVector
             /\ mem[m].status = IF m \in Existing THEN "active" ELSE "absent"
             /\ m \in Existing => mem[m].rev = 1
  BY <1>2, NothingTyped DEF Init, NoRow, Row
<1>3. mem \in [Memories -> Row]
  BY <1>2 DEF Init
<1> DEFINE x == [rev |-> 1, vec |-> NoVector, fresh |-> FALSE]
<1>4. x \in Point /\ x # Nobody /\ x.rev = 1 /\ x.vec = NoVector
  BY NothingTyped, Something DEF Point
<1>5. pts = [c \in Collections |-> [m \in Memories |-> IF c = Logical /\ m \in Existing THEN x ELSE Nobody]]
  BY DEF Init
<1> HIDE DEF x
<1>6. pts \in [Collections -> [Memories -> Point \cup {Nobody}]]
  BY <1>4, <1>5
<1>7. \A c \in Collections, m \in Memories :
        /\ staged[c][m] = Nobody
        /\ pts[c][m] = IF c = Logical /\ m \in Existing THEN x ELSE Nobody
  <2>1. \A c \in Collections, m \in Memories : staged[c][m] = Nobody
    BY DEF Init
  <2>2. \A c \in Collections, m \in Memories :
          pts[c][m] = IF c = Logical /\ m \in Existing THEN x ELSE Nobody
    BY <1>5
  <2> QED
    BY <2>1, <2>2
<1>8. staged \in [Collections -> [Memories -> Snapshot \cup {Nobody}]]
  BY DEF Init
<1>9. /\ ckpt \in [Plans -> Checkpoint] /\ \A p \in Plans : ckpt[p] = NoCheckpoint
      /\ pc \in [Workers -> Labels] /\ my \in [Workers -> Locals] /\ \A w \in Workers : pc[w] = "idle"
  BY NothingTyped DEF Init, Labels
<1>10. lease \in Leases /\ count \in Counts
  BY <1>1 DEF Init, Leases, Counts
<1>11. TypeOK
  BY <1>3, <1>6, <1>8, <1>9, <1>10 DEF Init, TypeOK, Leases, Counts, Labels
<1>12. ASSUME NEW w \in Workers PROVE CallOK(w) /\ LeasedOK(w) /\ RepairOK(w) /\ ModelsOf(w)
  BY <1>9, <1>12
  DEF CallOK, LeasedOK, SyncOK, ForgetOK, CopyOK, StagingOK, RepairOK, ModelsOf, Leasing, Running,
      SyncPcs, ForgetPcs, ReembedPcs, RollbackPcs, RepairPcs, Staging
<1>13. Base
  BY <1>11, <1>12 DEF Base, Init
<1>14. CurrentRoute = [coll |-> Logical, model |-> BaseModel] /\ alias = Nobody /\ forgotten = {}
  BY DEF Init, CurrentRoute
<1>15. ASSUME NEW p \in Plans PROVE PlanOK(p) /\ ServedOK(p)
  <2>1. ASSUME NEW m \in Memories PROVE ItemOK(p, m)
    <3>1. /\ ckpt[p].prints[m] = 0 /\ ckpt[p].done[m] = 0 /\ ckpt[p].sources = {}
          /\ staged[Shadow[p]][m] = Nobody
      BY <1>7, <1>9, NothingTyped DEF NoCheckpoint
    <3> QED
      BY <1>2, <3>1 DEF ItemOK
  <2>2. PlanOK(p)
    BY <1>9, <2>1 DEF PlanOK, NoCheckpoint
  <2> QED
    BY <1>14, <2>2 DEF ServedOK
<1>16. ASSUME NEW m \in Memories PROVE IndexedOK(m) /\ TraceOK(m)
  <2>1. IndexedOK(m)
    BY <1>2, <1>4, <1>7, <1>14, NothingTyped DEF IndexedOK, Fresh
  <2> QED
    BY <1>2, <1>7, <1>14, <2>1 DEF TraceOK
<1>17. Calm
  BY <1>12, <1>15, <1>16 DEF Calm, Stores
<1>18. Uniform
  <2>1. NoVector.model = BaseModel /\ ModelOf(Logical) = BaseModel
    BY DEF NoVector, ModelOf
  <2>2. \A c \in Collections, m \in Memories : ModelsAt(c, m)
    BY <1>4, <1>7, <2>1 DEF ModelsAt
  <2>3. \A m \in Memories : mem[m].vec.model = CurrentRoute.model
    BY <1>2, <1>14, <2>1
  <2> QED
    BY <1>12, <1>14, <2>2, <2>3 DEF Uniform, Kept, Settled
<1>19. Restorable
  BY DEF Init, Restorable
<1> QED
  BY <1>13, <1>17, <1>18, <1>19 DEF IInv

\* Nothing happens.
LEMMA StutterKeeps ==
  ASSUME IInv, UNCHANGED vars
  PROVE  IInv'
<1>1. /\ TypeOK /\ Base /\ UNCHANGED <<mem, events, alias, staged, ckpt, pts, lease, forgotten, pc, my, count>>
  BY DEF IInv, Base, vars, canonical
<1>2. StoresStill
  BY <1>1 DEF StoresStill, canonical
<1>3. TypeOK'
  BY <1>1, TypeNow, TypeNext
<1>4. Base'
  BY <1>1, <1>3 DEF Base, CallOK
<1>5. ASSUME Undisturbed' PROVE Calm'
  <2>1. Undisturbed /\ Calm
    BY <1>1, <1>5 DEF Undisturbed, IInv
  <2>2. ASSUME NEW w \in Workers PROVE LeasedOK(w)' /\ RepairOK(w)'
    <3>1. LeasedOK(w)'
      <4>1. Others(Nobody) /\ Leaves(Nobody) /\ w # Nobody
        BY <1>1, Something DEF Others, Leaves, Holds
      <4> QED
        BY <1>2, <2>1, <4>1, OthersStill
    <3>2. RepairOK(w)'
      BY <1>1, <2>1, <2>2 DEF Calm, RepairOK
    <3> QED
      BY <3>1, <3>2
  <2> QED
    BY <1>1, <1>2, <2>1, <2>2, StillGood DEF Calm
<1>6. ASSUME Undisturbed', Restorable' PROVE Uniform'
  <2>1. Undisturbed /\ Uniform
    BY <1>1, <1>6 DEF Undisturbed, IInv, Restorable
  <2>2. \A w \in Workers : ModelsOf(w)'
    BY <1>1, <2>1 DEF Uniform, ModelsOf
  <2> QED
    BY <1>1, <1>2, <2>1, <2>2, StillGood DEF Uniform
<1>7. Undisturbed' /\ OnePlan => Restorable'
  BY <1>1 DEF Undisturbed, IInv, Restorable
<1> QED
  BY <1>4, <1>5, <1>6, <1>7 DEF IInv, OnePlan

\* Every step.
LEMMA NextKeeps ==
  ASSUME IInv, [Next]_vars
  PROVE  IInv'
<1>1. CASE UNCHANGED vars
  BY <1>1, StutterKeeps
<1>2. CASE Expire
  BY <1>2, ExpireKeeps
<1>3. ASSUME NEW w \in Workers, Sync(w) PROVE IInv'
  BY <1>3, SyncClaimKeeps, SyncReadKeeps, SyncDeleteKeeps, SyncWriteKeeps, SyncDoneKeeps DEF Sync
<1>4. ASSUME NEW w \in Workers, Forget(w) PROVE IInv'
  BY <1>4, ForgetClaimKeeps, ForgetCommitKeeps, ForgetDeleteKeeps, ForgetScrubKeeps DEF Forget
<1>5. ASSUME NEW w \in Workers, Reembed(w) PROVE IInv'
  <2>1. CASE \E p \in Plans, supply \in SUBSET Memories, input \in Inputs, cutover \in BOOLEAN :
               ReembedClaim(w, p, supply, input, cutover)
    BY <2>1, ReembedClaimKeeps
  <2>2. CASE ReembedLoad(w) \/ ReembedItem(w) \/ StageOriginal(w) \/ StageShadow(w)
             \/ StageRecord(w) \/ SaveItem(w)
    BY <2>2, ReembedLoadKeeps, ReembedItemKeeps, StageOriginalKeeps, StageShadowKeeps,
       StageRecordKeeps, SaveItemKeeps
  <2>3. CASE ReembedMeasure(w) \/ ReembedVerify(w) \/ ReembedCutover(w) \/ SaveCutover(w)
             \/ ReembedFinish(w) \/ ReembedFail(w)
    BY <2>3, ReembedMeasureKeeps, ReembedVerifyKeeps, ReembedCutoverKeeps, SaveCutoverKeeps,
       ReembedFinishKeeps, ReembedFailKeeps
  <2> QED
    BY <1>5, <2>1, <2>2, <2>3 DEF Reembed
<1>6. ASSUME NEW w \in Workers, Rollback(w) PROVE IInv'
  BY <1>6, RollbackClaimKeeps, RollbackApplyKeeps, SaveRollbackKeeps DEF Rollback
<1>7. ASSUME NEW w \in Workers, Repair(w) PROVE IInv'
  BY <1>7, RepairClaimKeeps, RepairScrollKeeps, RepairReadKeeps, RepairApplyKeeps, RepairReleaseKeeps
  DEF Repair
<1>8. ASSUME NEW w \in Workers,
             \/ \E m \in Memories : IngestPrepare(w, m)
             \/ IngestCommit(w) \/ SearchPrepare(w) \/ SearchVectors(w) \/ SearchRecords(w) \/ Crash(w)
      PROVE  IInv'
  BY <1>8, IngestPrepareKeeps, IngestCommitKeeps, SearchPrepareKeeps, SearchVectorsKeeps,
     SearchRecordsKeeps, CrashKeeps
<1> QED
  BY <1>1, <1>2, <1>3, <1>4, <1>5, <1>6, <1>7, <1>8 DEF Next

-----------------------------------------------------------------------------
(* Theorems.                                                               *)

\* The invariant behind the others: what a call under the lease has found is so until
\* the call is over, what a checkpoint acknowledges is staged and in the shadow, and
\* the collection of the route lacks no active memory.  The callers of ingest, search
\* and index_repair, which do not share the lease, are in it too.
THEOREM InductiveInvariant == Spec => []IInv
<1>1. Init => IInv
  BY InitHolds
<1>2. IInv /\ [Next]_vars => IInv'
  BY NextKeeps
<1> QED
  BY <1>1, <1>2, PTL DEF Spec

\* For any plans and any interleaving of calls and crashes: a cutover loses no active
\* memory, a forget leaves nothing behind it, and a validated plan staged what it
\* reports (execute_reembed, lifecycle_reembed_write, index_repair, lifecycle_forget).
THEOREM IndexStaysExact == Spec => []IndexExact
<1>1. ASSUME IInv PROVE IndexExact
  <2>1. IndexComplete
    BY <1>1, StoreFacts DEF IndexComplete, IndexedOK, Fresh, Active
  <2>2. ForgottenEverywhere
    <3>1. forgotten \subseteq Memories
      BY <1>1, TypeNow DEF IInv, Base
    <3> QED
      BY <1>1, <3>1, StoreFacts DEF ForgottenEverywhere, TraceOK
  <2>3. ValidatedReal
    <3> SUFFICES ASSUME Undisturbed, NEW p \in Plans, ckpt[p].status = "validated",
                        NEW m \in ckpt[p].sources \cap Active,
                        alias = Nobody \/ mem[m].rev = ckpt[p].prints[m]
                 PROVE  LET point == pts[Shadow[p]][m]
                        IN  /\ point # Nobody /\ point.rev = ckpt[p].prints[m]
                            /\ point.vec = [model |-> Target[p], input |-> ckpt[p].done[m]]
      BY DEF ValidatedReal
    <3>1. m \in Memories /\ mem[m].status = "active" /\ ItemOK(p, m) /\ PlanOK(p)
      BY <1>1, StoreFacts DEF Active
    <3>2. ckpt[p].done[m] # 0
      BY <3>1 DEF PlanOK, AllDone
    <3>3. Fresh(Shadow[p], m, ckpt[p].prints[m], VectorOf(p, ckpt[p].done[m]))
      BY <3>1, <3>2 DEF ItemOK
    <3> QED
      BY <3>3 DEF Fresh, VectorOf
  <2> QED
    BY <2>1, <2>2, <2>3 DEF IndexExact
<1> QED
  BY <1>1, InductiveInvariant, PTL

\* A plan that was rolled back is over: whatever its caller, or another's, still does,
\* the route does not come back to its shadow (execute_reembed, execute_rollback).
THEOREM RollbackIsFinal == Spec => RolledBackFinal
<1> DEFINE Final ==
      Undisturbed =>
        \A p \in Plans :
          ckpt[p].status = "rolled_back" /\ CurrentRoute.coll # Shadow[p]
            => CurrentRoute'.coll # Shadow[p]
<1>1. ASSUME IInv, [Next]_vars PROVE Final
  <2> SUFFICES ASSUME Undisturbed, NEW p \in Plans, ckpt[p].status = "rolled_back",
                      CurrentRoute.coll # Shadow[p]
               PROVE  CurrentRoute'.coll # Shadow[p]
    OBVIOUS
  <2>1. CASE UNCHANGED alias
    BY <2>1 DEF CurrentRoute
  <2>2. ASSUME NEW w \in Workers, ReembedCutover(w), alias' # alias PROVE CurrentRoute'.coll # Shadow[p]
    <3>1. /\ pc[w] = "verify" /\ pc[w] \in Running /\ my[w].p \in Plans /\ TypeOK
          /\ CutoverAllowed(Shadow[my[w].p]) /\ Cutover(Shadow[my[w].p])
      BY <1>1, <2>2, CopyFacts, CallerFacts DEF ReembedCutover, Renewing, Running, ReembedPcs
    <3>2. CurrentRoute'.coll = Shadow[my[w].p]
      BY <3>1, ShadowModel, CutoverFacts
    <3>3. ckpt[my[w].p].status # "rolled_back"
      BY <1>1, <3>1, CallerFacts DEF LeasedOK, CopyOK
    <3> QED
      BY <3>1, <3>2, <3>3, ShadowModel
  <2>3. ASSUME NEW w \in Workers, RollbackApply(w), alias' # alias PROVE CurrentRoute'.coll # Shadow[p]
    <3>1. CutoverAllowed(Logical) /\ Cutover(Logical) /\ TypeOK /\ Logical \in Collections
      BY <1>1, <2>3, NothingTyped DEF RollbackApply, IInv, Base
    <3>2. CurrentRoute'.coll = Logical
      BY <3>1, CutoverFacts
    <3> QED
      BY <3>2, ShadowModel
  <2>4. ASSUME NEW w \in Workers, Sync(w) \/ Forget(w) PROVE UNCHANGED alias
    <3>1. Sync(w) => UNCHANGED alias
      BY DEF Sync, SyncClaim, SyncRead, SyncDelete, SyncWrite, SyncDone, canonical
    <3>2. Forget(w) => UNCHANGED alias
      BY DEF Forget, ForgetClaim, ForgetCommit, ForgetDelete, ForgetScrub, canonical
    <3> QED
      BY <2>4, <3>1, <3>2
  <2>5. ASSUME NEW w \in Workers, Reembed(w), ~ReembedCutover(w) PROVE UNCHANGED alias
    BY <2>5 DEF Reembed, ReembedClaim, ReembedLoad, ReembedItem, StageOriginal, StageShadow, StageRecord,
       SaveItem, ReembedMeasure, ReembedVerify, SaveCutover, ReembedFinish, ReembedFail, canonical
  <2>6. ASSUME NEW w \in Workers, Rollback(w), ~RollbackApply(w) PROVE UNCHANGED alias
    BY <2>6 DEF Rollback, RollbackClaim, SaveRollback, canonical
  <2>7. ASSUME NEW w \in Workers, Repair(w) PROVE UNCHANGED alias
    BY <2>7 DEF Repair, RepairClaim, RepairScroll, RepairRead, RepairApply, RepairRelease, canonical
  <2>8. ASSUME NEW w \in Workers,
               \/ \E m \in Memories : IngestPrepare(w, m)
               \/ IngestCommit(w) \/ SearchPrepare(w) \/ SearchVectors(w) \/ SearchRecords(w) \/ Crash(w)
        PROVE  UNCHANGED alias
    BY <2>8 DEF IngestPrepare, IngestCommit, SearchPrepare, SearchVectors, SearchRecords, Crash, canonical
  <2>9. Expire \/ UNCHANGED vars => UNCHANGED alias
    BY DEF Expire, vars, canonical
  <2> QED
    BY <1>1, <2>1, <2>2, <2>3, <2>4, <2>5, <2>6, <2>7, <2>8, <2>9 DEF Next
<1> QED
  BY <1>1, InductiveInvariant, PTL DEF Spec, RolledBackFinal

\* Route, rows, collections and answers stay of one embedding model, for any plans and
\* any interleaving of calls and crashes, as long as no rollback restored a snapshot
\* that another plan had replaced (lifecycle_reembed_write, cutover, memory_write).
THEOREM RouteStaysConsistent == Spec => []RouteConsistent
<1>1. ASSUME IInv PROVE RouteConsistent
  <2>1. TypeOK
    BY <1>1 DEF IInv, Base
  <2>2. Intact => Kept /\ \A w \in Workers : ModelsOf(w)
    BY <1>1 DEF IInv, Uniform, Intact, Restorable
  <2>3. CurrentRoute.coll \in Collections
    BY <2>1, RouteNow
  <2>4. RouteCompatible
    <3>1. Intact => CurrentRoute.model = ModelOf(CurrentRoute.coll)
      BY <2>2 DEF Kept, CurrentRoute, ModelOf
    <3> QED
      BY <2>2, <2>3, <3>1 DEF RouteCompatible, Kept, ModelsAt
  <2>5. EmbeddingsMatchRoute
    BY <2>2 DEF EmbeddingsMatchRoute, Kept, Active
  <2>6. HitsComparable
    BY <2>2 DEF HitsComparable, ModelsOf
  <2> QED
    BY <2>1, <2>4, <2>5, <2>6 DEF RouteConsistent
<1> QED
  BY <1>1, InductiveInvariant, PTL

\* Of a user with one plan, every rollback restores what the plan replaced, vectors of
\* the configured model (lifecycle_reembed_write, execute_rollback): where no lease
\* lapses under its owner, the condition of RouteStaysConsistent always holds.
THEOREM OnePlanIsRestored ==
  ASSUME OnePlan
  PROVE  Spec => [](Undisturbed => Intact)
<1>1. IInv => (Undisturbed => Intact)
  BY DEF IInv, Intact, Restorable
<1> QED
  BY <1>1, InductiveInvariant, PTL

=============================================================================
