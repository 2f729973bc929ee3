----------------------------- MODULE MemoryReads -----------------------------
(***************************************************************************)
(* Reading memories while they change: retrieval over the vector and the   *)
(* graph path, assembly of a working context, and paged listing, against   *)
(* concurrent ingest, update, forget and outbox propagation.  PostgreSQL   *)
(* holds the rows and the tombstones of forgotten sources; the two indexes *)
(* follow later and may be stale in either direction.  Models              *)
(* src/runtime/retrieval.rs, assemble_working_context of                   *)
(* src/runtime/session.rs, memory.update and memory.list of                *)
(* src/package/mod.rs and the store operations behind them.  How forget    *)
(* and the outbox recover from crashes is the subject of                   *)
(* MemoryPropagation; here each of their writes is one step.               *)
(***************************************************************************)
EXTENDS GraphEvidence, MemoryListing, SetSums

CONSTANTS
  Memories,       \* memory ids, ordered as numbers; ids of all kinds are told apart
  Messages,       \* the session's messages by age, which are the memories' sources
  SourceOf,       \* the source message of each memory
  Levels,         \* privacy levels
  Tokens,         \* token estimate of each memory, message, policy and the summary
  Similarity,     \* vector score of each memory for the query
  Lexical,        \* its lexical score
  Tags,           \* tags and entities a record may carry
  Given,          \* the tags each memory is ingested with
  Hints,          \* the graph hints it is ingested with
  Inferred,       \* what heuristic_hints makes of a record's tags
  QueryEntities,  \* the entities the query names
  Policies,       \* procedural policies, by their ids
  PolicyLevel,    \* privacy level of each policy and message
  Summary,        \* [id, source, level] of the session summary
  MaxBudget,      \* retrieval_policy.token_budget
  MaxTopK,        \* retrieval_policy.top_k_vector
  MaxHops,        \* retrieval_policy.max_graph_hops
  AllowedLevels,  \* retrieval_policy.privacy_scope
  Settled,        \* memories ingested and propagated before, with their levels
  Patches,        \* [level, add, remove] an update may ask for
  Requests,       \* [op, scope, budget, hops, filter] readers may ask with
  Queries,        \* [scope, tag, statuses, limit] a listing may use
  StoresFail,     \* whether calls of the stores may fail
  MaxWrites       \* bound on ingests, updates and forgets

Parts == Memories \cup Messages \cup Policies \cup {Summary.id}
ListedStatuses == {"active", "soft_deleted", "redacted"}
Cursors == [created: {CreatedAt[m] : m \in Memories}, id: Memories,
            fingerprint: {Fingerprint(q) : q \in Queries}]

ASSUME ReadsAssumption ==
  /\ IsFiniteSet(Memories) /\ IsFiniteSet(Messages) /\ IsFiniteSet(Policies)
  /\ Memories \subseteq Nat /\ Messages \subseteq Nat /\ Policies \subseteq Nat
  /\ Memories \cap Messages = {} /\ Policies \cap (Memories \cup Messages) = {}
  /\ Summary.id \notin Memories \cup Messages \cup Policies /\ Summary.source \in Messages
  /\ SourceOf \in [Memories -> Messages] /\ CreatedAt \in [Memories -> Nat]
  /\ \A x \in Parts : Tokens[x] \in Nat
  /\ \A m \in Memories : Tokens[m] > 0 /\ Similarity[m] \in Nat /\ Lexical[m] \in Nat
  /\ AllowedLevels \subseteq Levels /\ "private" \in Levels /\ Null \notin Levels
  /\ MaxBudget \in Nat /\ MaxTopK \in Nat /\ MaxHops \in 0 .. 10 /\ MaxWrites \in Nat
  /\ DOMAIN Settled \subseteq Memories /\ \A m \in DOMAIN Settled : Settled[m] \in Levels
  /\ \A r \in Requests : /\ r.op \in {"retrieve", "context"} /\ r.scope \subseteq Levels
                         /\ r.budget \in Nat /\ r.hops \in Nat
  /\ Given \in [Memories -> SUBSET Tags] /\ MaxLinked \in Nat
  /\ \A p \in Patches : p.level \in Levels \cup {Null} /\ p.add \subseteq Tags
  /\ \A q \in Queries : q.statuses \subseteq ListedStatuses
  /\ Null \notin Cursors

VARIABLES
  row,       \* nextral_memories
  tomb,      \* forgotten-source rows
  points,    \* level and tags in the payload of each vector, Null without one
  edges,     \* relationships of the graph store
  plan,      \* the contribution in the graph plan of each memory
  fresh,     \* memories whose graph plan is the one applied last
  behind,    \* memories with a pending outbox event
  sync,      \* the record an outbox worker is propagating
  applied,   \* the contribution last written to the graph for each memory
  edit,      \* the copy an update is working on
  writes,    \* ingests, updates and forgets so far
  reader,    \* the reader's request and progress
  walk,      \* a listing's progress
  seen       \* how each memory looked since the reader or the listing began

stores == <<row, tomb, points, edges, plan, fresh, behind, sync, applied>>
readsVars == <<stores, edit, writes, reader, walk, seen>>

-----------------------------------------------------------------------------
(* Rows.                                                                   *)

NoRow == [status |-> "absent", level |-> "private", tags |-> {}, text |-> "none"]
Inactive == {"soft_deleted", "redacted"}

Tombed(m) == tomb[SourceOf[m]] # "none"

\* get_active_memories: the row is active and none of its sources forgotten.
Visible(m) == row[m].status = "active" /\ ~Tombed(m)

\* The effective status of a listed row.
EffectiveStatus(m) ==
  IF row[m].status = "active" /\ Tombed(m) THEN "soft_deleted" ELSE row[m].status

\* The preview of a listed row.  The statement looks for the field status of
\* the tombstone; forget writes memory_id and redact, so it is never there.
TombstoneStatus(m) == Null
Preview(m) == IF TombstoneStatus(m) = "redacted" THEN "[redacted]" ELSE row[m].text

\* What the properties compare answers with: how a memory looks to a listing,
\* and to a retrieval in the rows, the vectors and the graph.
AsListed(m) == [status |-> EffectiveStatus(m), level |-> row[m].level, tags |-> row[m].tags,
                redact |-> tomb[SourceOf[m]] = "redact"]
AsFound(m) == [level |-> IF Visible(m) THEN row[m].level ELSE Null, tags |-> row[m].tags,
               point |-> points[m],
               linked |-> LET all == Related(edges, QueryEntities, reader.hops)
                          IN  m \in fresh /\ m \in all /\ Cardinality(all) <= MaxLinked]
View(m) == IF walk.pc = "idle" THEN AsFound(m) ELSE AsListed(m)

Ended == reader.pc = "answered" \/ walk.pc \in {"listed", "refused"}
Idle == reader.pc = "idle" /\ walk.pc = "idle"

\* The history of a call: every step of anyone while it is under way.
Watch == seen' = [m \in Memories |-> IF Idle' THEN {} ELSE seen[m] \cup {View(m)'}]

-----------------------------------------------------------------------------
(* Writers.                                                                *)

\* graphify_record: without hints the record's own entities give some.
Contribution(record, hints) == Graphify(IF hints = {} THEN Inferred[record.tags] ELSE hints)

\* A row is written with its graph plan and an outbox event.
Write(m, record, hints) ==
  /\ row' = [row EXCEPT ![m] = record]
  /\ plan' = [plan EXCEPT ![m] = Contribution(record, hints)]
  /\ behind' = behind \cup {m}
  /\ fresh' = fresh \ {m}

\* memory_write: an active record may replace an active row only, and no source
\* of it may be forgotten.
MayWrite(m, record) ==
  record.status = "active" => row[m].status \in {"absent", "active"} /\ ~Tombed(m)

Ingest(m) ==
  /\ writes < MaxWrites /\ writes' = writes + 1 /\ row[m].status = "absent"
  /\ \E level \in Levels :
       LET record == [status |-> "active", level |-> level, tags |-> Given[m], text |-> "content"]
       IN MayWrite(m, record) /\ Write(m, record, Hints[m])
  /\ UNCHANGED <<tomb, points, edges, sync, applied, edit, reader, walk>>

\* protect_record: what memory.update reads of a row.
Protected(m) ==
  [row[m] EXCEPT !.status = EffectiveStatus(m),
                 !.tags = IF tomb[SourceOf[m]] = "redact" THEN {} ELSE @,
                 !.text = IF tomb[SourceOf[m]] = "redact" THEN "[redacted]" ELSE @]

\* patch, add_tag and remove_tag.
Patched(record, p) ==
  [record EXCEPT !.level = IF p.level = Null THEN @ ELSE p.level,
                 !.tags = (@ \cup p.add) \ p.remove]

\* memory.update reads the record, patches its copy and writes it back.
UpdateRead(m) ==
  /\ edit = Null /\ row[m].status # "absent" /\ writes < MaxWrites /\ writes' = writes + 1
  /\ \E p \in Patches : edit' = [m |-> m, record |-> Patched(Protected(m), p)]
  /\ UNCHANGED <<stores, reader, walk>>

UpdateWrite ==
  /\ edit # Null /\ edit' = Null
  /\ IF MayWrite(edit.m, edit.record) THEN Write(edit.m, edit.record, {})
     ELSE UNCHANGED <<row, plan, behind, fresh>>
  /\ UNCHANGED <<tomb, points, edges, sync, applied, writes, reader, walk>>

\* forget: the tombstone of the source precedes every other effect.
ForgetTomb(m, kind) ==
  /\ writes < MaxWrites /\ writes' = writes + 1
  /\ row[m].status = "active" /\ tomb[SourceOf[m]] = "none"
  /\ tomb' = [tomb EXCEPT ![SourceOf[m]] = kind]
  /\ UNCHANGED <<row, points, edges, plan, fresh, behind, sync, applied, edit, reader, walk>>

\* The transition of the record itself and of those derived from its source.
ForgetRow(m) ==
  /\ Tombed(m) /\ row[m].status \in {"active", "soft_deleted"}
  /\ tomb[SourceOf[m]] = "soft" => row[m].status = "active"
  /\ Write(m, [row[m] EXCEPT
       !.status = IF tomb[SourceOf[m]] = "redact" THEN "redacted" ELSE "soft_deleted",
       !.tags = IF tomb[SourceOf[m]] = "redact" THEN {} ELSE @,
       !.text = IF tomb[SourceOf[m]] = "redact" THEN "[redacted]" ELSE @], {})
  /\ UNCHANGED <<tomb, points, edges, sync, applied, edit, writes, reader, walk>>

\* sync_payload reads the record once, writes the vector, then the graph if the
\* plan is still one of that record.
SyncRead(m) ==
  /\ sync = Null /\ m \in behind
  /\ behind' = behind \ {m} /\ sync' = [m |-> m, record |-> Protected(m), vector |-> TRUE]
  /\ UNCHANGED <<row, tomb, points, edges, plan, fresh, applied, edit, writes, reader, walk>>

SyncVector ==
  /\ sync # Null /\ sync.vector /\ sync' = [sync EXCEPT !.vector = FALSE]
  /\ points' = [points EXCEPT ![sync.m] =
       IF sync.record.status = "active"
       THEN [level |-> sync.record.level, tags |-> sync.record.tags] ELSE Null]
  /\ UNCHANGED <<row, tomb, edges, plan, fresh, behind, applied, edit, writes, reader, walk>>

SyncGraph ==
  /\ sync # Null /\ ~sync.vector /\ sync' = Null
  /\ LET m == sync.m
         active == sync.record.status = "active"
     IN \/ /\ ~active
           /\ edges' = Without(edges, m) /\ applied' = [applied EXCEPT ![m] = << >>]
           /\ UNCHANGED fresh
        \/ /\ active /\ sync.record = row[m]
           /\ edges' = Replaced(edges, m, plan[m]) /\ applied' = [applied EXCEPT ![m] = plan[m]]
           /\ fresh' = fresh \cup {m}
        \* A later write shows in updated_at, but only from one second to the next.
        \/ /\ active /\ (sync.record # row[m] \/ m \in behind)
           /\ UNCHANGED <<edges, applied, fresh>>
  /\ UNCHANGED <<row, tomb, points, plan, behind, edit, writes, reader, walk>>

Writers ==
  \/ \E m \in Memories : \/ Ingest(m) \/ UpdateRead(m) \/ ForgetRow(m)
                         \/ SyncRead(m)
                         \/ \E kind \in {"soft", "redact"} : ForgetTomb(m, kind)
  \/ UpdateWrite \/ SyncVector \/ SyncGraph

-----------------------------------------------------------------------------
(* Budgets: consume_budget and the loop of retrieve_impl, applied to the   *)
(* members of a set in an order: one is taken if it fits beside those      *)
(* taken before it.                                                        *)

Cost(S) == SumOver(Tokens, S)

Fit(S, order, budget) ==
  LET Before(x, T) == {y \in T : <<y, x>> \in order}
      taken == CHOOSE T \in SUBSET S :
                 \A x \in S : x \in T <=> Tokens[x] + Cost(Before(x, T)) <= budget
  IN  [taken |-> taken, passed |-> S \ taken, left |-> budget - Cost(taken)]

-----------------------------------------------------------------------------
(* Retrieval.                                                              *)

Todo == [state |-> "todo", ids |-> {}]
Failed == [state |-> "failed", ids |-> {}]

NoCall == [op |-> "none", pc |-> "idle", scope |-> {}, asked |-> {}, gone |-> {}, total |-> 0,
           budget |-> 0, left |-> 0, hops |-> 0, filter |-> Null, vector |-> Todo, graph |-> Todo, items |-> {},
           served |-> {}, passed |-> {}, dropped |-> {}, todo |-> {}, status |-> "none",
           reasons |-> {}]

Least(a, b) == IF a < b THEN a ELSE b

\* Mutant: the configured privacy scope is not applied.
PreparedUnscoped(c) ==
  [c EXCEPT !.scope = IF @ = {} THEN {"private"} ELSE @,
            !.budget = Least(@, MaxBudget), !.hops = Least(@, MaxHops)]

\* prepare_retrieval, after an empty scope was filled in.
Prepared(c) ==
  [c EXCEPT !.scope = (IF @ = {} THEN {"private"} ELSE @) \cap AllowedLevels,
            !.budget = Least(@, MaxBudget), !.hops = Least(@, MaxHops)]

Begin ==
  /\ Idle
  /\ \E r \in Requests :
       LET asked == (IF r.scope = {} THEN {"private"} ELSE r.scope) \cap AllowedLevels
           c == [NoCall EXCEPT !.op = r.op, !.scope = r.scope, !.asked = asked,
                   !.budget = r.budget, !.hops = r.hops, !.filter = r.filter,
                   !.total = Least(r.budget, MaxBudget),
                   !.gone = {s \in Messages : tomb[s] # "none"}]
       IN reader' = IF r.op = "retrieve" THEN [c EXCEPT !.pc = "prepare"]
                  ELSE [c EXCEPT !.pc = "policies"]
  /\ UNCHANGED <<stores, edit, writes, walk>>

RetrievePrepare ==
  /\ reader.pc = "prepare"
  /\ reader' = [Prepared(reader) EXCEPT !.pc = "paths"]
  /\ UNCHANGED <<stores, edit, writes, walk>>

\* The search of the vector store: the closest top_k points in scope.
Hits ==
  LET found == {m \in Memories : points[m] # Null /\ points[m].level \in reader.scope
                                 /\ HasTag(reader.filter, points[m].tags)}
  IN {m \in found : Cardinality({x \in found : Similarity[x] > Similarity[m]}) < MaxTopK}

VectorPath ==
  /\ reader.pc = "paths" /\ reader.vector = Todo
  /\ \/ MaxTopK > 0 /\ reader' = [reader EXCEPT !.vector = [state |-> "done", ids |-> Hits]]
     \/ StoresFail /\ reader' = [reader EXCEPT !.vector = Failed]
  /\ UNCHANGED <<stores, edit, writes, walk>>

\* The graph path: ids from the graph store, then the gate in PostgreSQL.
GraphIds ==
  /\ reader.pc = "paths" /\ reader.graph = Todo
  /\ \/ \E ids \in RelatedIds(edges, QueryEntities, reader.hops) :
          reader' = [reader EXCEPT !.graph = [state |-> "gate", ids |-> ids]]
     \/ StoresFail /\ reader.hops > 0 /\ reader' = [reader EXCEPT !.graph = Failed]
  /\ UNCHANGED <<stores, edit, writes, walk>>

\* current_graph_memory_ids.
GraphGate ==
  /\ reader.pc = "paths" /\ reader.graph.state = "gate"
  /\ reader' = [reader EXCEPT !.graph =
       [state |-> "done",
        ids |-> {m \in @.ids : Visible(m) /\ row[m].level \in reader.scope /\ m \in fresh}]]
  /\ UNCHANGED <<stores, edit, writes, walk>>

PathsDone == {reader.vector.state, reader.graph.state} \subseteq {"done", "failed"}
AllPathsFailed ==
  reader.vector.state = "failed" /\ (reader.hops = 0 \/ reader.graph.state = "failed")

\* Mutant: only a failed graph path counts as degradation.
DegradedReasonsGraph == {p \in {"graph"} : reader.graph.state = "failed"}

DegradedReasons == {p \in {"vector", "graph"} : reader[p].state = "failed"}

Score(m) == IF m \in reader.vector.ids THEN Similarity[m] ELSE Lexical[m]

\* The order of the merged candidates.
Ranking == {p \in Memories \X Memories :
              Score(p[1]) > Score(p[2]) \/ (Score(p[1]) = Score(p[2]) /\ p[1] < p[2])}

\* The merged candidates that are active, in scope and match the filter.
Hydrated == {m \in reader.vector.ids \cup reader.graph.ids :
               /\ Visible(m) /\ row[m].level \in reader.scope
               /\ HasTag(reader.filter, row[m].tags)}

Merge ==
  /\ reader.pc = "paths" /\ PathsDone
  /\ LET fit == Fit(Hydrated, Ranking, reader.budget)
     IN reader' = IF AllPathsFailed
                THEN [reader EXCEPT !.pc = "finish", !.status = "error"]
                ELSE [reader EXCEPT !.pc = "access", !.items = fit.taken, !.passed = @ \cup fit.passed,
                        !.status = IF DegradedReasons = {} THEN "ok" ELSE "degraded"]
  /\ UNCHANGED <<stores, edit, writes, walk>>

\* record_accesses touches nothing but the counters, which are left out; a
\* store error there fails the call (StoreError).
RecordAccesses ==
  /\ reader.pc = "access" /\ reader' = [reader EXCEPT !.pc = "finish"]
  /\ UNCHANGED <<stores, edit, writes, walk>>

\* A retrieval is answered; a context charges the items to what it has left.
Finish ==
  /\ reader.pc = "finish"
  /\ LET fit == Fit(reader.items, Ranking, reader.left)
     IN reader' = IF reader.op = "retrieve"
                THEN [reader EXCEPT !.pc = "answered", !.served = reader.items,
                        !.left = reader.budget - Cost(reader.items)]
                ELSE [reader EXCEPT !.pc = "answered", !.served = @ \cup fit.taken,
                        !.dropped = fit.passed, !.left = fit.left]
  /\ UNCHANGED <<stores, edit, writes, walk>>

-----------------------------------------------------------------------------
(* Working context: policies, summary and session tail come before the     *)
(* memories, each charged to what is left of the budget.                   *)

\* Mutant: what a part costs is not deducted.
ChargeFree(c, x) ==
  IF Tokens[x] <= c.left THEN [c EXCEPT !.served = @ \cup {x}]
  ELSE [c EXCEPT !.passed = @ \cup {x}]

Charge(c, x) ==
  IF Tokens[x] <= c.left THEN [c EXCEPT !.left = @ - Tokens[x], !.served = @ \cup {x}]
  ELSE [c EXCEPT !.passed = @ \cup {x}]

ContextPolicies ==
  /\ reader.pc = "policies"
  /\ LET c == Prepared(reader)
         fit == Fit({p \in Policies : PolicyLevel[p] \in c.scope}, Ascending(Policies), c.budget)
     IN reader' = IF c.budget = 0 THEN [c EXCEPT !.pc = "answered", !.status = "refused"]
                ELSE [c EXCEPT !.pc = "summary", !.left = fit.left, !.served = fit.taken,
                        !.passed = fit.passed]
  /\ UNCHANGED <<stores, edit, writes, walk>>

ContextSummary ==
  /\ reader.pc = "summary"
  /\ LET c == [reader EXCEPT !.pc = "tail"]
     IN reader' = IF tomb[Summary.source] = "none" /\ Summary.level \in c.scope
                THEN Charge(c, Summary.id) ELSE c
  /\ UNCHANGED <<stores, edit, writes, walk>>

\* The tail is read newest first; a cache that is stale or down is reported.
ContextTail ==
  /\ reader.pc = "tail"
  /\ \E reasons \in SUBSET {p \in {"tail"} : StoresFail} :
       reader' = [reader EXCEPT !.pc = "messages", !.reasons = reasons,
                  !.todo = Messages]
  /\ UNCHANGED <<stores, edit, writes, walk>>

\* One message: its tombstone is looked up before it is charged.
ContextMessage ==
  /\ reader.pc = "messages" /\ reader.todo # {}
  /\ LET message == Max(reader.todo)
         c == [reader EXCEPT !.todo = @ \ {message}]
     IN reader' = IF PolicyLevel[message] \in c.scope /\ tomb[message] = "none"
                THEN Charge(c, message) ELSE c
  /\ UNCHANGED <<stores, edit, writes, walk>>

\* Mutant: an empty scope goes on to retrieve.
MayRetrieveAnyScope == reader.left > 0

MayRetrieve == reader.left > 0 /\ reader.scope # {}

\* Mutant: the retrieval gets the whole budget.
RetrievalBudgetWhole == reader.budget

RetrievalBudget == reader.left

ContextMemories ==
  /\ reader.pc = "messages" /\ reader.todo = {}
  /\ reader' = IF MayRetrieve THEN [reader EXCEPT !.pc = "prepare", !.budget = RetrievalBudget]
             ELSE [reader EXCEPT !.pc = "answered", !.status = "ok"]
  /\ UNCHANGED <<stores, edit, writes, walk>>

\* Any statement of a call may fail, which fails the call.
StoreError ==
  /\ StoresFail /\ reader.pc \notin {"idle", "answered"}
  /\ reader' = [NoCall EXCEPT !.pc = "answered", !.status = "failed"]
  /\ UNCHANGED <<stores, edit, writes, walk>>

Readers ==
  \/ Begin \/ RetrievePrepare \/ VectorPath \/ GraphIds \/ GraphGate \/ Merge
  \/ RecordAccesses \/ Finish \/ ContextPolicies \/ ContextSummary \/ ContextTail
  \/ ContextMessage \/ ContextMemories \/ StoreError

-----------------------------------------------------------------------------
(* Listing.                                                                *)

NoWalk == [pc |-> "idle", query |-> Null, cursor |-> Null, listed |-> <<>>]

ListedRows == [m \in {x \in Memories : row[x].status # "absent"} |-> AsListed(m)]

WalkBegin ==
  /\ Idle /\ walk' = [NoWalk EXCEPT !.pc = "page"]
  /\ UNCHANGED <<stores, edit, writes, reader>>

\* The next page, asked with the cursor of the last one and with any query:
\* another scope or filter is refused, another limit is not.
WalkPage ==
  /\ walk.pc = "page"
  /\ \E q \in Queries :
       LET page == Page(ListedRows, q, walk.cursor)
       IN walk' =
            IF ~ValidQuery(q, walk.cursor) THEN [walk EXCEPT !.pc = "refused"]
            ELSE [query |-> IF walk.cursor = Null THEN q ELSE walk.query,
                  listed |-> walk.listed \o [i \in DOMAIN page.items |->
                    [m |-> page.items[i], text |-> Preview(page.items[i])]],
                  cursor |-> page.next, pc |-> IF page.next = Null THEN "listed" ELSE "page"]
  /\ UNCHANGED <<stores, edit, writes, reader>>

-----------------------------------------------------------------------------
\* What the graph holds when the settled memories were propagated in turn.
SettledRow(m) ==
  [status |-> "active", level |-> Settled[m], tags |-> Given[m], text |-> "content"]
SettledPlan(m) == Contribution(SettledRow(m), Hints[m])

SettledEdges ==
  [r \in Relations |->
     LET givers == {m \in DOMAIN Settled : r \in DOMAIN SettledPlan(m)}
         at == InOrder(givers, Ascending(givers))
     IN  [k \in DOMAIN at |-> [memory |-> at[k], confidence |-> SettledPlan(at[k])[r]]]]

ReadsInit ==
  /\ row = [m \in Memories |-> IF m \in DOMAIN Settled THEN SettledRow(m) ELSE NoRow]
  /\ tomb = [s \in Messages |-> "none"]
  /\ points = [m \in Memories |->
       IF m \in DOMAIN Settled THEN [level |-> Settled[m], tags |-> Given[m]] ELSE Null]
  /\ plan = [m \in Memories |-> IF m \in DOMAIN Settled THEN SettledPlan(m) ELSE << >>]
  /\ applied = plan
  /\ edges = SettledEdges
  /\ fresh = DOMAIN Settled /\ behind = {} /\ sync = Null
  /\ edit = Null /\ writes = 0 /\ reader = NoCall /\ walk = NoWalk
  /\ seen = [m \in Memories |-> {}]

\* One call of a reader is followed to its answer.
ReadsNext == ~Ended /\ (Writers \/ Readers \/ WalkBegin \/ WalkPage) /\ Watch

ReadsSpec == ReadsInit /\ [][ReadsNext]_readsVars

-----------------------------------------------------------------------------
Row == [status: {"absent", "active"} \cup Inactive, level: Levels, tags: SUBSET Tags,
        text: {"none", "content", "[redacted]"}]

ReadsTypeOK ==
  /\ row \in [Memories -> Row] /\ tomb \in [Messages -> {"none", "soft", "redact"}]
  /\ points \in [Memories -> [level: Levels, tags: SUBSET Tags] \cup {Null}]
  /\ fresh \subseteq Memories /\ behind \subseteq Memories
  /\ sync = Null \/ sync.record \in Row
  /\ edit = Null \/ edit.record \in Row
  /\ writes \in 0 .. MaxWrites
  /\ reader.scope \subseteq Levels /\ reader.left <= MaxBudget
  /\ reader.pc \notin {"idle", "prepare", "policies"} => reader.scope \subseteq AllowedLevels

Answered == reader.pc = "answered" /\ reader.status \notin {"failed", "refused"}

\* Whatever a retrieval or a context serves was, at some moment of the call,
\* active, in the scope asked for and of no forgotten source, however stale the
\* indexes and the copies it was found through; a message or a summary whose
\* source was forgotten before the call is not served.
ServedWasVisible ==
  Answered =>
    /\ \A m \in reader.served \cap Memories : \E v \in seen[m] : v.level \in reader.asked
    /\ reader.served \cap reader.gone = {}
    /\ Summary.source \in reader.gone => Summary.id \notin reader.served

\* The parts of an answer are paid for from one budget, which is the least of
\* the one asked for and the configured one, and nothing that was passed over
\* would still fit.
BudgetKept ==
  Answered =>
    /\ Cost(reader.served) + reader.left = reader.total
    /\ \A x \in reader.passed : Tokens[x] > reader.left

\* An answer that is not marked degraded is complete: a memory visible in scope
\* and matching the filter all along, and all along among the nearest vectors or
\* linked to the query in a graph that links no more than the traversal returns,
\* is served unless it does not fit.
CompleteWhenOk ==
  Answered /\ reader.status = "ok" =>
    \A m \in Memories :
      /\ \A v \in seen[m] : v.level \in reader.asked /\ HasTag(reader.filter, v.tags)
      /\ \/ /\ \A v \in seen[m] : /\ v.point # Null /\ v.point.level \in reader.asked
                                    /\ HasTag(reader.filter, v.point.tags)
            /\ Cardinality({x \in Memories : Similarity[x] > Similarity[m]}) < MaxTopK
         \/ \A v \in seen[m] : v.linked
      => m \in reader.served \/ Tokens[m] > reader.left

\* A context serves every memory its retrieval counted as accessed.
AccessedServed == reader.dropped = {}

Listed == {walk.listed[i].m : i \in DOMAIN walk.listed}

\* A listing walked to its end names no memory twice, every memory that matched
\* its scope and filters all along, and none that never did, whatever was
\* ingested, updated out of or into them, or forgotten between two pages.
WalkConsistent ==
  walk.pc = "listed" =>
    /\ Cardinality(Listed) = Len(walk.listed)
    /\ \A m \in Memories :
         /\ (\A v \in seen[m] : Matches(walk.query, v)) => m \in Listed
         /\ m \in Listed => \E v \in seen[m] : Matches(walk.query, v)

\* A relationship exists exactly for the memories that contribute to it, each
\* once, and is as confident as the most confident of them.
EdgesMatchContributions ==
  \A r \in Relations :
    LET givers == {m \in Memories : r \in DOMAIN applied[m]}
    IN /\ SourcesOfEdge(edges[r]) = givers /\ Len(edges[r]) = Cardinality(givers)
       /\ Confidence(edges[r]) = Max({0} \cup {applied[m][r] : m \in givers})

\* tests/memory_query.rs: a redacted source replaces the preview of what is
\* derived from it.
RedactedPreviewHidden ==
  \A i \in DOMAIN walk.listed :
    walk.listed[i].text = "content" => \E v \in seen[walk.listed[i].m] : ~v.redact

\* docs/memory/pipeline/retrieval-pipeline.md: a retrieval that failed is not
\* presented as success.
FailureReported ==
  Answered /\ reader.op = "context" /\ reader.status \in {"error", "degraded"} => reader.reasons # {}

\* An answer of retrieval holds nothing the caller could not see and, unless it says
\* degraded, lacks nothing it could (retrieve).
AnswersTrue == ReadsTypeOK /\ ServedWasVisible /\ CompleteWhenOk

\* Retrieval and context assembly charge one budget alike: it is kept, and what was
\* counted as accessed was served (assemble_working_context).
BudgetShared == BudgetKept /\ AccessedServed

=============================================================================
