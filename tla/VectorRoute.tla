----------------------------- MODULE VectorRoute -----------------------------
(***************************************************************************)
(* The vectors of one user: PostgreSQL holds every memory with its         *)
(* embedding and the route, the Qdrant collection that reads and writes    *)
(* use; a re-embedding plan fills a shadow collection, validates it and    *)
(* moves the route, and may move it back.  Models src/runtime/reembed.rs,  *)
(* the production store's route, re-embedding, synchronisation and index   *)
(* repair in src/runtime/storage.rs, the transactions behind them in       *)
(* src/adapters/postgres.rs and the vector path of                         *)
(* src/runtime/retrieval.rs.                                               *)
(*                                                                         *)
(* A vector is the embedding model it was made with and the host's choice  *)
(* of input; rev stands for both the content and updated_at of a record.   *)
(* Everything but ingest, update and search holds the user's lease         *)
(* "privacy/<user>".  Tombstones of sources and the graph are in           *)
(* MemoryPropagation.                                                      *)
(***************************************************************************)
EXTENDS Naturals, FiniteSets

CONSTANTS
  Memories,    \* memory ids
  Existing,    \* those ingested and indexed before the runs start
  Plans,       \* re-embedding plans of the user
  Shadow,      \* shadow_collection of each plan
  Target,      \* embedding model of each plan
  Logical,     \* the configured collection
  BaseModel,   \* the configured embedding model
  Dim,         \* dimension of each model
  Inputs,      \* the vectors a host may supply for one memory
  Workers,     \* callers
  Repairer,    \* "index_repair", the owner every repair claims with
  Nobody,      \* no owner, no route, no point
  Operations,  \* what callers do
  MaxCalls,    \* bound on calls
  MaxCrashes,  \* bound on callers that stop in the middle of a call
  MaxLapses    \* bound on leases that expire under a working owner

Collections == {Logical} \cup {Shadow[p] : p \in Plans}
Models == {BaseModel} \cup {Target[p] : p \in Plans}

ASSUME RouteAssumption ==
  /\ Memories # {} /\ Existing \subseteq Memories
  /\ \A p \in Plans : Shadow[p] # Logical
  /\ \A p, q \in Plans : p # q => Shadow[p] # Shadow[q]
  /\ Dim \in [Models -> Nat]
  /\ 0 \notin Inputs /\ Inputs \subseteq Nat
  /\ Repairer \notin Workers /\ Nobody \notin Workers \cup {Repairer} \cup Collections
  /\ MaxCalls \in Nat /\ MaxCrashes \in Nat /\ MaxLapses \in Nat

VARIABLES
  mem,       \* nextral_memories
  events,    \* pending memory.sync events: <<memory, rev>>
  alias,     \* alias/<logical>/<user>, Nobody when there is no row
  staged,    \* collection-record/<collection>/<user>/<id>
  ckpt,      \* reembed/<user>/<plan>: the checkpoint
  pts,       \* Qdrant: the user's points of each collection
  lease,     \* the user lease
  forgotten, \* memories whose forget answered "completed"
  pc,        \* control point of each worker
  my,        \* locals of each worker
  count      \* calls, crashes and lapses so far, and the rollbacks to another model's vectors

canonical == <<mem, events, alias, staged>>
vars == <<canonical, ckpt, pts, lease, forgotten, pc, my, count>>

Vector == [model: Models, input: Inputs \cup {0}]
Row == [status: {"absent", "active", "deleted"}, rev: Nat, vec: Vector]
Route == [coll: Collections, model: Models]
Snapshot == [rev: Nat, vec: Vector]                       \* a staged record
Point == [rev: Nat, vec: Vector, fresh: BOOLEAN]          \* fresh: metadata_version = 1
Checkpoint == [status: {"none", "running", "awaiting_vectors", "validated", "completed",
                        "failed", "rolled_back"},
               sources: SUBSET Memories, prints: [Memories -> Nat],
               done: [Memories -> Inputs \cup {0}], cutover: BOOLEAN]

NoVector == [model |-> BaseModel, input |-> 0]
NoRow == [status |-> "absent", rev |-> 0, vec |-> NoVector]
NoCheckpoint == [status |-> "none", sources |-> {}, prints |-> [m \in Memories |-> 0],
                 done |-> [m \in Memories |-> 0], cutover |-> FALSE]
Locals ==
  [p: Plans \cup {Nobody}, m: Memories \cup {Nobody}, rev: Nat, row: Row,
   route: Route \cup {Nobody}, todo: SUBSET (Memories \cup Collections), supply: SUBSET Memories,
   input: Inputs \cup {0}, cutover: BOOLEAN, ck: Checkpoint, hits: SUBSET (Memories \X Models)]
NoLocals == [p |-> Nobody, m |-> Nobody, rev |-> 0, row |-> NoRow, route |-> Nobody,
             todo |-> {}, supply |-> {}, input |-> 0, cutover |-> FALSE,
             ck |-> NoCheckpoint, hits |-> {}]

\* What is missing is not taken for something.
ASSUME NothingAssumption == Nobody \notin Memories \cup Plans \cup Route \cup Snapshot \cup Point

SyncPcs == {"sync", "sync_delete", "sync_write", "sync_done"}
ForgetPcs == {"forget", "forget_delete"}
ReembedPcs == {"load", "item", "original", "shadow", "stage", "save_item", "verify",
               "save_cutover", "finish", "fail"}
RollbackPcs == {"rollback", "save_rollback"}
RepairPcs == {"scroll", "repair", "apply"}

Active == {m \in Memories : mem[m].status = "active"}

TypeOK ==
  /\ mem \in [Memories -> Row]
  /\ events \subseteq Memories \X Nat
  /\ alias \in Route \cup {Nobody}
  /\ staged \in [Collections -> [Memories -> Snapshot \cup {Nobody}]]
  /\ ckpt \in [Plans -> Checkpoint]
  /\ pts \in [Collections -> [Memories -> Point \cup {Nobody}]]
  /\ lease \in [owner: Workers \cup {Repairer, Nobody}, live: BOOLEAN, fence: Nat]
  /\ forgotten \subseteq Memories
  /\ pc \in [Workers -> {"idle", "commit", "search", "records"} \cup SyncPcs \cup ForgetPcs
                         \cup ReembedPcs \cup RollbackPcs \cup RepairPcs]
  /\ my \in [Workers -> Locals]
  /\ count \in [calls: 0 .. MaxCalls, crashes: 0 .. MaxCrashes, lapses: 0 .. MaxLapses, foreign: Nat]

Init ==
  /\ mem = [m \in Memories |-> IF m \in Existing
                              THEN [NoRow EXCEPT !.status = "active", !.rev = 1] ELSE NoRow]
  /\ events = {}
  /\ alias = Nobody
  /\ staged = [c \in Collections |-> [m \in Memories |-> Nobody]]
  /\ ckpt = [p \in Plans |-> NoCheckpoint]
  /\ pts = [c \in Collections |-> [m \in Memories |->
              IF c = Logical /\ m \in Existing
              THEN [rev |-> 1, vec |-> NoVector, fresh |-> FALSE] ELSE Nobody]]
  /\ lease = [owner |-> Nobody, live |-> FALSE, fence |-> 0]
  /\ forgotten = {}
  /\ pc = [w \in Workers |-> "idle"]
  /\ my = [w \in Workers |-> NoLocals]
  /\ count = [calls |-> 0, crashes |-> 0, lapses |-> 0, foreign |-> 0]

-----------------------------------------------------------------------------
(* The route, the lease and the two stores.                                *)

\* route: the alias row, or what the configuration says.
CurrentRoute == IF alias = Nobody THEN [coll |-> Logical, model |-> BaseModel] ELSE alias

Goto(w, label) == pc' = [pc EXCEPT ![w] = label]

Begin(w, operation, locals) ==
  /\ operation \in Operations
  /\ pc[w] = "idle" /\ count.calls < MaxCalls
  /\ count' = [count EXCEPT !.calls = @ + 1]
  /\ my' = [my EXCEPT ![w] = locals]

\* lifecycle_claim, and renew_lease, which is the same call.
MayHold(o) == ~lease.live \/ lease.owner = o
Hold(o) == lease' = [lease EXCEPT !.owner = o, !.live = TRUE]
Free == [lease EXCEPT !.owner = Nobody, !.live = FALSE]
Drop(o) == lease' = IF lease.owner = o THEN Free ELSE lease

Done(w) == Goto(w, "idle") /\ my' = [my EXCEPT ![w] = NoLocals]

\* A call that ends where it is, releasing the lease.
Leave(w) == Drop(w) /\ Done(w)

\* A step under the lease, or the end of the call when the lease is another's.
Renewing(w, refusal, step) ==
  IF MayHold(w) THEN Hold(w) /\ step ELSE refusal

Upsert(c, m, rev, vec) ==
  pts' = [pts EXCEPT ![c][m] = [rev |-> rev, vec |-> vec, fresh |-> FALSE]]

Delete(c, m) == pts' = [pts EXCEPT ![c][m] = Nobody]

-----------------------------------------------------------------------------
(* Ingest and update: the embedding is prepared for the route of the       *)
(* moment, and the transaction looks at the route again.                   *)

IngestPrepare(w, m) ==
  /\ mem[m].status # "deleted"
  /\ Begin(w, "ingest", [NoLocals EXCEPT !.m = m, !.route = CurrentRoute])
  /\ Goto(w, "commit")
  /\ UNCHANGED <<canonical, ckpt, pts, lease, forgotten>>

\* Mutant: the transaction trusts the route the embedding was prepared for.
RouteHoldsAlways(route) == TRUE

\* commit_memory: with an alias row, the record must be of its model.
RouteHolds(route) == alias = Nobody \/ alias.model = route.model

IngestCommit(w) ==
  /\ pc[w] = "commit"
  /\ LET m == my[w].m
     IN  IF RouteHolds(my[w].route) /\ mem[m].status # "deleted"
         THEN /\ mem' = [mem EXCEPT ![m] =
                  [status |-> "active", rev |-> @.rev + 1,
                   vec |-> [model |-> my[w].route.model, input |-> 0]]]
              /\ events' = events \cup {<<m, mem[m].rev + 1>>}
         ELSE UNCHANGED <<mem, events>>
  /\ Done(w)
  /\ UNCHANGED <<alias, staged, ckpt, pts, lease, forgotten, count>>

-----------------------------------------------------------------------------
(* Outbox workers: sync_payload.                                           *)

SyncClaim(w, e) ==
  /\ e \in events
  /\ pc[w] = "idle" /\ ~lease.live
  /\ my' = [my EXCEPT ![w] = [NoLocals EXCEPT !.m = e[1], !.rev = e[2]]]
  /\ Hold(w)
  /\ Goto(w, "sync")
  /\ UNCHANGED <<canonical, ckpt, pts, forgotten, count>>

\* The record and the route as they are now, whatever the event says; a vector
\* of another dimension is an error and the event stays.
SyncRead(w) ==
  /\ pc[w] = "sync"
  /\ LET r == mem[my[w].m]
     IN  \/ /\ r.status = "deleted"
            /\ my' = [my EXCEPT ![w].todo = Collections]
            /\ Goto(w, "sync_delete")
            /\ UNCHANGED lease
         \/ /\ r.status = "active" /\ Dim[r.vec.model] = Dim[CurrentRoute.model]
            /\ my' = [my EXCEPT ![w].route = CurrentRoute, ![w].row = r]
            /\ Goto(w, "sync_write")
            /\ UNCHANGED lease
         \/ /\ r.status = "active" /\ Dim[r.vec.model] # Dim[CurrentRoute.model]
            /\ Leave(w)
  /\ UNCHANGED <<canonical, ckpt, pts, forgotten, count>>

\* Renewed before every external write; a lost lease or a failing write ends the
\* call and leaves the event.
SyncDelete(w) ==
  /\ pc[w] = "sync_delete"
  /\ IF my[w].todo = {}
     THEN /\ events' = events \ {<<my[w].m, my[w].rev>>}
          /\ Leave(w)
          /\ UNCHANGED pts
     ELSE /\ \/ Leave(w) /\ UNCHANGED pts
             \/ /\ MayHold(w) /\ Hold(w)
                /\ \E c \in my[w].todo : /\ Delete(c, my[w].m)
                                         /\ my' = [my EXCEPT ![w].todo = @ \ {c}]
                /\ UNCHANGED pc
          /\ UNCHANGED events
  /\ UNCHANGED <<mem, alias, staged, ckpt, forgotten, count>>

SyncWrite(w) ==
  /\ pc[w] = "sync_write"
  /\ \/ Leave(w) /\ UNCHANGED pts
     \/ /\ MayHold(w) /\ Hold(w)
        /\ Upsert(my[w].route.coll, my[w].m, my[w].row.rev, my[w].row.vec)
        /\ Goto(w, "sync_done")
        /\ UNCHANGED my
  /\ UNCHANGED <<canonical, ckpt, forgotten, count>>

SyncDone(w) ==
  /\ pc[w] = "sync_done"
  /\ events' = IF MayHold(w) THEN events \ {<<my[w].m, my[w].rev>>} ELSE events
  /\ Leave(w)
  /\ UNCHANGED <<mem, alias, staged, ckpt, pts, forgotten, count>>

-----------------------------------------------------------------------------
(* Forget, as far as vectors and re-embedding go.                          *)

ForgetClaim(w, m) ==
  /\ mem[m].status = "active" /\ ~lease.live
  /\ Begin(w, "forget", [NoLocals EXCEPT !.m = m, !.todo = Collections])
  /\ Hold(w)
  /\ Goto(w, "forget")
  /\ UNCHANGED <<canonical, ckpt, pts, forgotten>>

ForgetCommit(w) ==
  /\ pc[w] = "forget"
  /\ LET m == my[w].m
     IN  /\ mem' = [mem EXCEPT ![m].status = "deleted", ![m].rev = @ + 1]
         /\ events' = events \cup {<<m, mem[m].rev + 1>>}
  /\ Goto(w, "forget_delete")
  /\ UNCHANGED <<alias, staged, ckpt, pts, lease, forgotten, my, count>>

\* The point goes from every collection, and with the last of them
\* scrub_lifecycle_state takes the staged records and fails the plans that name
\* the memory.
ForgetDelete(w) ==
  /\ pc[w] = "forget_delete" /\ my[w].todo # {}
  /\ \E c \in my[w].todo : /\ Delete(c, my[w].m)
                           /\ my' = [my EXCEPT ![w].todo = @ \ {c}]
  /\ UNCHANGED <<canonical, ckpt, lease, forgotten, pc, count>>

\* Mutant: the staged copies stay.
ScrubStagedNone(m) == staged

ScrubStaged(m) == [c \in Collections |-> [staged[c] EXCEPT ![m] = Nobody]]

ScrubCheckpoint(ck, m) ==
  IF m \in ck.sources
  THEN [ck EXCEPT !.status = "failed", !.prints[m] = 0, !.done[m] = 0]
  ELSE ck

ForgetScrub(w) ==
  /\ pc[w] = "forget_delete" /\ my[w].todo = {}
  /\ staged' = ScrubStaged(my[w].m)
  /\ ckpt' = [p \in Plans |-> ScrubCheckpoint(ckpt[p], my[w].m)]
  /\ forgotten' = forgotten \cup {my[w].m}
  /\ Leave(w)
  /\ UNCHANGED <<mem, events, alias, pts, count>>

-----------------------------------------------------------------------------
(* Re-embedding: execute_reembed under the lease.                          *)

\* The lease of the user; what the plan names was validated before.
ReembedClaim(w, p, supply, input, cutover) ==
  /\ ~lease.live
  /\ Begin(w, "reembed", [NoLocals EXCEPT !.p = p, !.supply = supply,
                                          !.input = input, !.cutover = cutover])
  /\ Hold(w)
  /\ Goto(w, "load")
  /\ UNCHANGED <<canonical, ckpt, pts, forgotten>>

\* Mutant: a checkpoint starts in the status of its plan.
NewCheckpointPlanned ==
  [NoCheckpoint EXCEPT !.status = "planned", !.sources = Active]

NewCheckpoint ==
  [NoCheckpoint EXCEPT !.status = "running", !.sources = Active,
     !.prints = [m \in Memories |-> IF m \in Active THEN mem[m].rev ELSE 0]]

\* Mutant: a plan that was rolled back may be run again.
ReplayableAlways(ck) == TRUE

Replayable(ck) == ck.status # "rolled_back"

ShadowEmpty(p) == \A m \in Memories : pts[Shadow[p]][m] = Nobody

\* The checkpoint, or a new one over the active memories; nothing is saved when
\* the request does not fit it.
ReembedLoad(w) ==
  /\ pc[w] = "load"
  /\ LET p == my[w].p
         ck == IF ckpt[p].status = "none" THEN NewCheckpoint ELSE ckpt[p]
     IN  IF /\ ckpt[p].status = "none" => Active # {} /\ ShadowEmpty(p)
            /\ Replayable(ck)
            /\ my[w].supply \subseteq ck.sources
         THEN /\ ckpt' = [ckpt EXCEPT ![p] = ck]
              /\ my' = [my EXCEPT ![w].ck = ck, ![w].todo = ck.sources]
              /\ Goto(w, "item")
              /\ UNCHANGED lease
         ELSE Leave(w) /\ UNCHANGED ckpt
  /\ UNCHANGED <<canonical, pts, forgotten, count>>

\* Active, and with the content of the snapshot.
SourceUnchanged(w, m) == mem[m].status = "active" /\ mem[m].rev = my[w].ck.prints[m]

\* One source: unchanged, and its vector the one acknowledged before if any.
ReembedItem(w) ==
  /\ pc[w] = "item" /\ my[w].todo # {}
  /\ Renewing(w, Goto(w, "fail") /\ UNCHANGED <<my, lease>>,
       \E m \in my[w].todo :
         LET done == my[w].ck.done[m]
         IN  \/ /\ \/ ~SourceUnchanged(w, m)
                   \/ m \in my[w].supply /\ done \notin {0, my[w].input}
                /\ Goto(w, "fail")
                /\ UNCHANGED my
             \/ /\ SourceUnchanged(w, m)
                /\ m \in my[w].supply => done = my[w].input
                /\ my' = [my EXCEPT ![w].todo = @ \ {m}]
                /\ UNCHANGED pc
             \/ /\ SourceUnchanged(w, m)
                /\ m \in my[w].supply /\ done = 0
                /\ my' = [my EXCEPT ![w].m = m, ![w].row = mem[m]]
                /\ Goto(w, "original"))
  /\ UNCHANGED <<canonical, ckpt, pts, forgotten, count>>

NewVector(w) == [model |-> Target[my[w].p], input |-> my[w].input]

\* lifecycle_reembed_write: the record as it is now becomes the snapshot of the
\* configured collection,
StageOriginal(w) ==
  /\ pc[w] = "original"
  /\ LET m == my[w].m
     IN  staged' = [staged EXCEPT ![Logical][m] = [rev |-> mem[m].rev, vec |-> mem[m].vec]]
  /\ Goto(w, "shadow")
  /\ UNCHANGED <<mem, events, alias, ckpt, pts, lease, forgotten, my, count>>

\* the vector goes to the shadow collection, unless the store fails,
StageShadow(w) ==
  /\ pc[w] = "shadow"
  /\ \/ /\ Upsert(Shadow[my[w].p], my[w].m, my[w].row.rev, NewVector(w))
        /\ Goto(w, "stage")
     \/ Goto(w, "fail") /\ UNCHANGED pts
  /\ UNCHANGED <<canonical, ckpt, lease, forgotten, my, count>>

\* and the record with its new vector becomes the snapshot of the shadow.
StageRecord(w) ==
  /\ pc[w] = "stage"
  /\ staged' = [staged EXCEPT ![Shadow[my[w].p]][my[w].m] =
                  [rev |-> my[w].row.rev, vec |-> NewVector(w)]]
  /\ Goto(w, "save_item")
  /\ UNCHANGED <<mem, events, alias, ckpt, pts, lease, forgotten, my, count>>

\* The working checkpoint is saved whole, over whatever the row says.
SaveItem(w) ==
  /\ pc[w] = "save_item"
  /\ my' = [my EXCEPT ![w].ck.done[my[w].m] = my[w].input, ![w].todo = @ \ {my[w].m}]
  /\ ckpt' = [ckpt EXCEPT ![my[w].p] = my'[w].ck]
  /\ Goto(w, "item")
  /\ UNCHANGED <<canonical, pts, lease, forgotten, count>>

\* The active memories and their content are those of the snapshot.
SnapshotCurrent(ck) ==
  \A m \in Memories : ck.prints[m] = IF m \in Active THEN mem[m].rev ELSE 0

InShadow(p) == {m \in Memories : pts[Shadow[p]][m] # Nobody}

\* Mutant: a partial set of vectors is taken for a complete one.
ReembedMeasurePartial(w) ==
  /\ pc[w] = "item" /\ my[w].todo = {}
  /\ my' = [my EXCEPT ![w].todo = {m \in my[w].ck.sources : my[w].ck.done[m] # 0}]
  /\ Goto(w, "verify")
  /\ UNCHANGED <<canonical, ckpt, pts, lease, forgotten, count>>

\* All sources seen: wait for more vectors, or count and compare.
ReembedMeasure(w) ==
  /\ pc[w] = "item" /\ my[w].todo = {}
  /\ LET ck == my[w].ck
     IN  IF \E m \in ck.sources : ck.done[m] = 0
         THEN /\ my' = [my EXCEPT ![w].ck.status = "awaiting_vectors"]
              /\ Goto(w, "finish")
         ELSE IF Cardinality(InShadow(my[w].p)) = Cardinality(ck.sources) /\ SnapshotCurrent(ck)
         THEN /\ my' = [my EXCEPT ![w].todo = ck.sources]
              /\ Goto(w, "verify")
         ELSE Goto(w, "fail") /\ UNCHANGED my
  /\ UNCHANGED <<canonical, ckpt, pts, lease, forgotten, count>>

\* What the shadow holds is what the host supplied.
Measured(w, m) ==
  LET point == pts[Shadow[my[w].p]][m]
  IN  point # Nobody /\ point.vec = [model |-> Target[my[w].p], input |-> my[w].ck.done[m]]

ReembedVerify(w) ==
  /\ pc[w] = "verify" /\ my[w].todo # {}
  /\ Renewing(w, Goto(w, "fail") /\ UNCHANGED <<my, lease>>,
       \E m \in my[w].todo :
         IF Measured(w, m)
         THEN my' = [my EXCEPT ![w].todo = @ \ {m}] /\ UNCHANGED pc
         ELSE Goto(w, "fail") /\ UNCHANGED my)
  /\ UNCHANGED <<canonical, ckpt, pts, forgotten, count>>

StagedIn(c) == {m \in Memories : staged[c][m] # Nobody}

\* The staged records are the active ones, at their present content.
CutoverAllowed(c) ==
  /\ StagedIn(c) # {} /\ StagedIn(c) = Active
  /\ \A m \in Active : staged[c][m].rev = mem[m].rev

\* Mutant: the route keeps the model it had.
CutoverKeepsModel(c) ==
  /\ mem' = [m \in Memories |-> IF m \in Active /\ staged[c][m] # Nobody
                                THEN [mem[m] EXCEPT !.vec = staged[c][m].vec] ELSE mem[m]]
  /\ alias' = [coll |-> c, model |-> CurrentRoute.model]

\* The transaction of cutover: every record takes the vector of the snapshot and
\* the route its collection and the model of one of them.
Cutover(c) ==
  /\ mem' = [m \in Memories |-> IF m \in Active /\ staged[c][m] # Nobody
                                THEN [mem[m] EXCEPT !.vec = staged[c][m].vec] ELSE mem[m]]
  /\ \E first \in StagedIn(c) :
       alias' = [coll |-> c, model |-> staged[c][first].vec.model]

ReembedCutover(w) ==
  /\ pc[w] = "verify" /\ my[w].todo = {}
  /\ IF my[w].cutover /\ ~my[w].ck.cutover
     THEN Renewing(w, Goto(w, "fail") /\ UNCHANGED <<mem, alias, lease>>,
            IF CutoverAllowed(Shadow[my[w].p])
            THEN Cutover(Shadow[my[w].p]) /\ Goto(w, "save_cutover")
            ELSE Goto(w, "fail") /\ UNCHANGED <<mem, alias>>)
     ELSE Goto(w, "finish") /\ UNCHANGED <<mem, alias, lease>>
  /\ my' = IF my[w].cutover /\ ~my[w].ck.cutover THEN my
           ELSE [my EXCEPT ![w].ck.status =
                   IF my[w].ck.cutover THEN "completed" ELSE "validated"]
  /\ UNCHANGED <<events, staged, ckpt, pts, forgotten, count>>

SaveCutover(w) ==
  /\ pc[w] = "save_cutover"
  /\ ckpt' = [ckpt EXCEPT ![my[w].p] = [my[w].ck EXCEPT !.cutover = TRUE]]
  /\ my' = [my EXCEPT ![w].ck.cutover = TRUE, ![w].ck.status = "completed"]
  /\ Goto(w, "finish")
  /\ UNCHANGED <<canonical, pts, lease, forgotten, count>>

\* The last renewal and save; without the lease the report is not saved.
ReembedFinish(w) ==
  /\ pc[w] = "finish"
  /\ ckpt' = IF MayHold(w) THEN [ckpt EXCEPT ![my[w].p] = my[w].ck] ELSE ckpt
  /\ Leave(w)
  /\ UNCHANGED <<canonical, pts, forgotten, count>>

\* An error is saved without looking at the lease.
ReembedFail(w) ==
  /\ pc[w] = "fail"
  /\ ckpt' = [ckpt EXCEPT ![my[w].p] = [my[w].ck EXCEPT !.status = "failed"]]
  /\ Leave(w)
  /\ UNCHANGED <<canonical, pts, forgotten, count>>

RollbackClaim(w, p) ==
  /\ ~lease.live
  /\ Begin(w, "rollback", [NoLocals EXCEPT !.p = p, !.ck = ckpt[p]])
  /\ Hold(w)
  /\ Goto(w, "rollback")
  /\ UNCHANGED <<canonical, ckpt, pts, forgotten>>

\* The snapshot staged for the configured collection is of the configured model.
OriginalSnapshot ==
  \A m \in StagedIn(Logical) : staged[Logical][m].vec.model = BaseModel

\* Only an acknowledged cutover is rolled back: to the configured collection and
\* the snapshot staged for it.  A refusal of the transaction is saved.
RollbackApply(w) ==
  /\ pc[w] = "rollback"
  /\ LET ck == ckpt[my[w].p]
     IN  IF ck.cutover /\ CutoverAllowed(Logical)
         THEN /\ Cutover(Logical)
              /\ my' = [my EXCEPT ![w].ck = ck]
              /\ Goto(w, "save_rollback")
              /\ count' = IF OriginalSnapshot THEN count ELSE [count EXCEPT !.foreign = @ + 1]
              /\ UNCHANGED lease
         ELSE Leave(w) /\ UNCHANGED <<mem, alias, count>>
  /\ UNCHANGED <<events, staged, ckpt, pts, forgotten>>

SaveRollback(w) ==
  /\ pc[w] = "save_rollback"
  /\ ckpt' = [ckpt EXCEPT ![my[w].p] =
                [my[w].ck EXCEPT !.cutover = FALSE, !.status = "rolled_back"]]
  /\ Leave(w)
  /\ UNCHANGED <<canonical, pts, forgotten, count>>

-----------------------------------------------------------------------------
(* Search: the vector path of retrieve.                                    *)

\* prepare_retrieval: the host's vector has the dimension of the route.
SearchPrepare(w) ==
  /\ Begin(w, "search", [NoLocals EXCEPT !.route = CurrentRoute])
  /\ Goto(w, "search")
  /\ UNCHANGED <<canonical, ckpt, pts, lease, forgotten>>

\* Mutant: vector_candidates does not measure the vector against the route again.
ComparableAlways(query) == TRUE

Comparable(query) == Dim[query.model] = Dim[CurrentRoute.model]

\* vector_candidates reads the route again; a vector of another dimension is an
\* error of this path, and the answer a degraded one.
SearchVectors(w) ==
  /\ pc[w] = "search"
  /\ LET points == pts[CurrentRoute.coll]
     IN  my' = [my EXCEPT ![w].hits =
           IF Comparable(my[w].route)
           THEN {<<m, points[m].vec.model>> : m \in {n \in Memories : points[n] # Nobody}}
           ELSE {}]
  /\ Goto(w, "records")
  /\ UNCHANGED <<canonical, ckpt, pts, lease, forgotten, count>>

\* get_active_memories drops the hits whose record is no longer active.
SearchRecords(w) ==
  /\ pc[w] = "records"
  /\ Done(w)
  /\ UNCHANGED <<canonical, ckpt, pts, lease, forgotten, count>>

-----------------------------------------------------------------------------
(* index_repair.  Every repair claims as Repairer, so a second one enters   *)
(* beside the first and its release, of the newer fence, frees the lease.   *)

\* The route is read before the lease is claimed.
RepairClaim(w) ==
  /\ MayHold(Repairer)
  /\ Begin(w, "repair", [NoLocals EXCEPT !.route = CurrentRoute, !.rev = lease.fence + 1])
  /\ lease' = [owner |-> Repairer, live |-> TRUE, fence |-> lease.fence + 1]
  /\ Goto(w, "scroll")
  /\ UNCHANGED <<canonical, ckpt, pts, forgotten>>

RepairScroll(w) ==
  /\ pc[w] = "scroll"
  /\ LET points == pts[my[w].route.coll]
     IN  my' = [my EXCEPT ![w].todo =
           {m \in Memories : points[m] # Nobody /\ ~points[m].fresh}]
  /\ Goto(w, "repair")
  /\ UNCHANGED <<canonical, ckpt, pts, lease, forgotten, count>>

\* A legacy point: the canonical record is read,
RepairRead(w) ==
  /\ pc[w] = "repair" /\ my[w].todo # {}
  /\ \E m \in my[w].todo :
       my' = [my EXCEPT ![w].m = m, ![w].row = mem[m], ![w].todo = @ \ {m}]
  /\ Goto(w, "apply")
  /\ UNCHANGED <<canonical, ckpt, pts, lease, forgotten, count>>

\* Mutant: the point of an active record is removed, not updated.
RepairedRemoved(point, row) == Nobody

\* the metadata of an active one written to the point, any other point removed.
Repaired(point, row) ==
  IF row.status # "active" \/ point = Nobody THEN Nobody ELSE [point EXCEPT !.fresh = TRUE]

RepairApply(w) ==
  /\ pc[w] = "apply"
  /\ pts' = [pts EXCEPT ![my[w].route.coll][my[w].m] = Repaired(@, my[w].row)]
  /\ Goto(w, "repair")
  /\ UNCHANGED <<canonical, ckpt, lease, forgotten, my, count>>

\* After the last point of the page, or when a store fails.
RepairRelease(w) ==
  /\ pc[w] = "repair"
  /\ lease' = IF lease.owner = Repairer /\ lease.fence = my[w].rev THEN Free ELSE lease
  /\ Done(w)
  /\ UNCHANGED <<canonical, ckpt, pts, forgotten, count>>

-----------------------------------------------------------------------------
Working(o) ==
  \E w \in Workers : /\ pc[w] # "idle"
                     /\ w = o \/ (o = Repairer /\ pc[w] \in RepairPcs)

\* locked_until passes: under a caller that stopped, or under a working one.
Expire ==
  /\ lease.live
  /\ lease' = [lease EXCEPT !.live = FALSE]
  /\ IF Working(lease.owner)
     THEN count.lapses < MaxLapses /\ count' = [count EXCEPT !.lapses = @ + 1]
     ELSE UNCHANGED count
  /\ UNCHANGED <<canonical, ckpt, pts, forgotten, pc, my>>

Crash(w) ==
  /\ pc[w] # "idle" /\ count.crashes < MaxCrashes
  /\ count' = [count EXCEPT !.crashes = @ + 1]
  /\ Done(w)
  /\ UNCHANGED <<canonical, ckpt, pts, lease, forgotten>>

Sync(w) ==
  \/ \E e \in events : SyncClaim(w, e)
  \/ SyncRead(w) \/ SyncDelete(w) \/ SyncWrite(w) \/ SyncDone(w)

Forget(w) ==
  \/ \E m \in Memories : ForgetClaim(w, m)
  \/ ForgetCommit(w) \/ ForgetDelete(w) \/ ForgetScrub(w)

Reembed(w) ==
  \/ \E p \in Plans, supply \in SUBSET Memories, input \in Inputs, cutover \in BOOLEAN :
       ReembedClaim(w, p, supply, input, cutover)
  \/ ReembedLoad(w) \/ ReembedItem(w) \/ StageOriginal(w) \/ StageShadow(w)
  \/ StageRecord(w) \/ SaveItem(w) \/ ReembedMeasure(w) \/ ReembedVerify(w)
  \/ ReembedCutover(w) \/ SaveCutover(w) \/ ReembedFinish(w) \/ ReembedFail(w)

Rollback(w) ==
  \/ \E p \in Plans : RollbackClaim(w, p)
  \/ RollbackApply(w) \/ SaveRollback(w)

Repair(w) ==
  RepairClaim(w) \/ RepairScroll(w) \/ RepairRead(w) \/ RepairApply(w) \/ RepairRelease(w)

Next ==
  \/ \E w \in Workers :
       \/ \E m \in Memories : IngestPrepare(w, m)
       \/ IngestCommit(w)
       \/ Sync(w) \/ Forget(w) \/ Reembed(w) \/ Rollback(w) \/ Repair(w)
       \/ SearchPrepare(w) \/ SearchVectors(w) \/ SearchRecords(w)
       \/ Crash(w)
  \/ Expire

Spec == Init /\ [][Next]_vars

-----------------------------------------------------------------------------
(* Properties.                                                             *)

Undisturbed == count.lapses = 0
Intact == Undisturbed /\ count.foreign = 0

\* A route that was never moved back: the configuration's, or a shadow's.
Forward == alias = Nobody \/ alias.coll # Logical

\* The effective route names the model its collection was filled with: a query
\* with a vector for the route is compared with vectors of that model only.
\* cutover takes collection and model from the staged snapshot, ingest and sync
\* from the route of the moment.  The code lets a second plan replace the snapshot of
\* the configured collection by vectors of the first one's model
\* (lifecycle_reembed_write); a rollback that restored those is not Intact.
RouteCompatible ==
  Intact =>
    \A m \in Memories :
      LET point == pts[CurrentRoute.coll][m]
      IN  point # Nobody => point.vec.model = CurrentRoute.model

\* Every active record is of the effective route's model, although an embedding
\* is prepared long before it is committed: what is committed after a cutover or
\* a rollback was prepared after it, or is refused.  Without this no event of the
\* record can ever be applied.
EmbeddingsMatchRoute ==
  Intact => \A m \in Active : mem[m].vec.model = CurrentRoute.model

\* No cutover loses a memory: an active one without a pending event is in the
\* collection reads use, with its present content and the vector PostgreSQL
\* records for it, whatever was ingested, updated, repaired or interrupted while
\* the plan ran.
IndexComplete ==
  Undisturbed /\ Forward =>
    \A m \in Active :
      (\A e \in events : e[1] # m) =>
         LET point == pts[CurrentRoute.coll][m]
         IN  point # Nobody /\ point.rev = mem[m].rev /\ point.vec = mem[m].vec

\* A forgotten memory is in no collection, the shadow of an unfinished plan
\* included, and no staged copy of it can come back by a cutover or a rollback.
ForgottenEverywhere ==
  Undisturbed =>
    \A m \in forgotten, c \in Collections : pts[c][m] = Nobody /\ staged[c][m] = Nobody

\* A plan reported as validated holds the acknowledged vector of every source in
\* its shadow, at the content of the snapshot, until the source is forgotten or,
\* the route having been moved, updated.
ValidatedReal ==
  Undisturbed =>
    \A p \in Plans : ckpt[p].status = "validated" =>
      \A m \in ckpt[p].sources \cap Active :
        alias = Nobody \/ mem[m].rev = ckpt[p].prints[m] =>
        LET point == pts[Shadow[p]][m]
        IN  /\ point # Nobody /\ point.rev = ckpt[p].prints[m]
            /\ point.vec = [model |-> Target[p], input |-> ckpt[p].done[m]]

\* A search that a cutover overtakes between its two looks at the route never
\* ranks vectors of another dimension than the query's.
HitsComparable ==
  Intact => \A w \in Workers : pc[w] = "records" =>
    \A h \in my[w].hits : Dim[h[2]] = Dim[my[w].route.model]

\* A plan that was rolled back is over: no step moves the route to its shadow
\* again, unless a caller that lost its lease does.
RolledBackFinal ==
  [][Undisturbed =>
       \A p \in Plans :
         ckpt[p].status = "rolled_back" /\ CurrentRoute.coll # Shadow[p]
            => CurrentRoute'.coll # Shadow[p]]_vars

\* Route, rows, collection and answers are of one embedding model, although each is
\* read and written in a step of its own (cutover, memory_write, retrieve).
RouteConsistent == TypeOK /\ RouteCompatible /\ EmbeddingsMatchRoute /\ HitsComparable

\* The collection of the route lacks no active memory, no collection or snapshot keeps
\* a forgotten one, and a validated plan staged what it reports (execute_reembed,
\* index_repair, lifecycle_forget).
IndexExact == IndexComplete /\ ForgottenEverywhere /\ ValidatedReal

=============================================================================
