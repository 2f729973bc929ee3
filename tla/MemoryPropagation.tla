-------------------------- MODULE MemoryPropagation --------------------------
(***************************************************************************)
(* Memories of one user: clients ingest, replay graph evidence and forget; *)
(* outbox workers carry every change to the vector store and to the graph. *)
(* PostgreSQL holds the record, its graph plan, the outbox, the tombstones *)
(* of forgotten sources and the progress of forget.  Models                *)
(* src/runtime/governance.rs, the production store of                      *)
(* src/runtime/storage.rs and the transactions of                          *)
(* src/adapters/postgres.rs behind them.                                   *)
(*                                                                         *)
(* Forget and outbox workers take the user's lease "privacy/<user>";       *)
(* ingest and replay only take the tenant's advisory lock inside their     *)
(* transaction, and tombstones are written without it.  Every commit gets  *)
(* the next value of clock, which serves as the record's updated_at, the   *)
(* plan's revision and the identity of the outbox event.                   *)
(***************************************************************************)
EXTENDS Naturals, FiniteSets

CONSTANTS
  Memories,     \* memory ids
  Sources,      \* source message ids
  SourcesOf,    \* source_message_ids of each memory
  Clients,      \* callers of ingest, replay and forget
  Workers,      \* callers of drain_outbox
  Nobody,       \* locked_by IS NULL, advisory lock free
  Operations,   \* what clients do: subset of {"ingest", "replay", "forget", "redact"}
  MaxAttempts,  \* attempts after which finish_outbox gives an event up (10)
  StoresFail,   \* whether calls of the vector and graph store may fail
  MaxCalls,     \* bound on the calls of clients
  MaxClock,     \* bound on commits
  MaxCrashes,   \* bound on crashes
  MaxLapses     \* bound on leases that expire under a working owner

Actors == Clients \cup Workers

ASSUME PropagationAssumption ==
  /\ Memories # {}
  /\ SourcesOf \in [Memories -> SUBSET Sources]
  /\ Clients \cap Workers = {} /\ Nobody \notin Actors
  /\ Memories \cap Sources = {}
  /\ Operations \subseteq {"ingest", "replay", "forget", "redact"}
  /\ MaxAttempts \in Nat \ {0} /\ StoresFail \in BOOLEAN
  /\ MaxCalls \in Nat /\ MaxClock \in Nat /\ MaxCrashes \in Nat /\ MaxLapses \in Nat

Events == 1 .. MaxClock

VARIABLES
  mem,       \* nextral_memories
  tomb,      \* forgotten-source rows: "none", "soft" or "redact"
  plan,      \* graph/<user>/<id>: the plan and the revision applied last
  events,    \* nextral_outbox_events
  forget,    \* forget/<user>/<id>: progress of forget
  vec,       \* Qdrant: updated_at of the record each point was made from, 0 for none
  graph,     \* Neo4j: revision of the plan its edges come from, 0 for none
  lease,     \* the user lease
  tx,        \* holder of the tenant advisory lock
  clock,     \* commits so far
  promised,  \* <<memory, redact>> of the forget calls that answered "completed"
  pc,        \* control point of each actor
  my,        \* locals of each actor
  count      \* calls, crashes and lapses so far

canonical == <<mem, tomb, plan, forget>>
indexes == <<vec, graph>>
vars == <<canonical, events, indexes, lease, tx, clock, promised, pc, my, count>>

Inactive == {"soft_deleted", "redacted"}
Row == [status: {"absent", "active"} \cup Inactive, rev: Nat, clear: BOOLEAN]
Plan == [source: Nat, revision: Nat, applied: Nat]
Event == [mem: Memories, kind: {"sync", "replay"},
          status: {"none", "pending", "processing", "retry", "completed", "failed"},
          attempts: Nat, owner: Actors \cup {Nobody}, live: BOOLEAN]
Progress == [status: {"none", "incomplete", "completed"}, redaction: BOOLEAN]
Locals == [m: Memories, e: Nat, redact: BOOLEAN, rows: [Memories -> Row],
           todo: SUBSET (Memories \cup Sources), affected: SUBSET Memories,
           plan: Plan, ok: BOOLEAN]

AnyMemory == CHOOSE m \in Memories : TRUE
NoRow == [status |-> "absent", rev |-> 0, clear |-> FALSE]
NoPlan == [source |-> 0, revision |-> 0, applied |-> 0]
NoEvent == [mem |-> AnyMemory, kind |-> "sync", status |-> "none", attempts |-> 0,
            owner |-> Nobody, live |-> FALSE]
NoLocals == [m |-> AnyMemory, e |-> 0, redact |-> FALSE,
             rows |-> [m \in Memories |-> NoRow], todo |-> {}, affected |-> {},
             plan |-> NoPlan, ok |-> TRUE]

TypeOK ==
  /\ mem \in [Memories -> Row]
  /\ tomb \in [Sources -> {"none", "soft", "redact"}]
  /\ plan \in [Memories -> Plan]
  /\ events \in [Events -> Event]
  /\ forget \in [Memories -> Progress]
  /\ vec \in [Memories -> Nat] /\ graph \in [Memories -> Nat]
  /\ lease \in [owner: Actors \cup {Nobody}, live: BOOLEAN]
  /\ tx \in Clients \cup {Nobody}
  /\ clock \in 0 .. MaxClock
  /\ promised \in SUBSET (Memories \X BOOLEAN)
  /\ pc \in [Actors -> {"idle", "commit", "replay", "replay_commit", "load",
                        "tomb", "mark", "update", "list", "cascade", "vectors",
                        "graph", "scrub", "answer", "release", "lease", "read",
                        "delete_vec", "delete_graph", "write_vec", "read_plan",
                        "write_graph", "ack", "invalidate", "unlock", "finish"}]
  /\ my \in [Actors -> Locals]
  /\ count \in [calls: Nat, crashes: Nat, lapses: Nat]

Init ==
  /\ mem = [m \in Memories |-> NoRow]
  /\ tomb = [s \in Sources |-> "none"]
  /\ plan = [m \in Memories |-> NoPlan]
  /\ events = [e \in Events |-> NoEvent]
  /\ forget = [m \in Memories |-> [status |-> "none", redaction |-> FALSE]]
  /\ vec = [m \in Memories |-> 0] /\ graph = [m \in Memories |-> 0]
  /\ lease = [owner |-> Nobody, live |-> FALSE]
  /\ tx = Nobody
  /\ clock = 0
  /\ promised = {}
  /\ pc = [a \in Actors |-> "idle"]
  /\ my = [a \in Actors |-> NoLocals]
  /\ count = [calls |-> 0, crashes |-> 0, lapses |-> 0]

Goto(a, label) == pc' = [pc EXCEPT ![a] = label]

EndCall(a) == Goto(a, "idle") /\ my' = [my EXCEPT ![a] = NoLocals]

-----------------------------------------------------------------------------
(* Transactions on the canonical store.                                    *)

Tombstoned(m) == \E s \in SourcesOf[m] : tomb[s] # "none"

\* protect_record: what get_memory returns for a row.
Protected(m) ==
  [mem[m] EXCEPT
     !.status = IF @ = "active" /\ Tombstoned(m) THEN "soft_deleted" ELSE @,
     !.clear = @ /\ \A s \in SourcesOf[m] : tomb[s] # "redact"]

\* The end of commit_memory: the row, a new plan for it and the event.
CommitMemory(m, status, clear) ==
  /\ clock < MaxClock
  /\ clock' = clock + 1
  /\ mem' = [mem EXCEPT ![m] = [status |-> status, rev |-> clock + 1, clear |-> clear]]
  /\ plan' = [plan EXCEPT ![m] = [source |-> clock + 1, revision |-> clock + 1, applied |-> 0]]
  /\ events' = [events EXCEPT ![clock + 1] =
                  [NoEvent EXCEPT !.mem = m, !.status = "pending"]]

BeginCall(c, m, redact) ==
  /\ pc[c] = "idle" /\ count.calls < MaxCalls
  /\ count' = [count EXCEPT !.calls = @ + 1]
  /\ my' = [my EXCEPT ![c].m = m, ![c].redact = redact]

\* Mutant: neither the status of the row nor the tombstones are looked at.
IngestUnchecked(c, m) ==
  /\ "ingest" \in Operations
  /\ tx = Nobody
  /\ BeginCall(c, m, FALSE)
  /\ tx' = c
  /\ Goto(c, "commit")
  /\ UNCHANGED <<canonical, events, indexes, lease, clock, promised>>

\* memory_write of an active record: the row may not be inactive and no source
\* forgotten.  The advisory lock is held until the commit.
IngestCheck(c, m) ==
  /\ "ingest" \in Operations
  /\ tx = Nobody
  /\ mem[m].status \notin Inactive
  /\ ~Tombstoned(m)
  /\ BeginCall(c, m, FALSE)
  /\ tx' = c
  /\ Goto(c, "commit")
  /\ UNCHANGED <<canonical, events, indexes, lease, clock, promised>>

IngestCommit(c) ==
  /\ pc[c] = "commit"
  /\ CommitMemory(my[c].m, "active", TRUE)
  /\ tx' = Nobody
  /\ EndCall(c)
  /\ UNCHANGED <<tomb, forget, indexes, lease, promised, count>>

\* graphify_memory: the record it will replay.
ReplayRead(c, m) ==
  /\ "replay" \in Operations
  /\ Protected(m).status = "active"
  /\ pc[c] = "idle" /\ count.calls < MaxCalls
  /\ count' = [count EXCEPT !.calls = @ + 1]
  /\ my' = [my EXCEPT ![c].m = m, ![c].rows = [@ EXCEPT ![m] = Protected(m)]]
  /\ Goto(c, "replay")
  /\ UNCHANGED <<canonical, events, indexes, lease, tx, clock, promised>>

\* commit_graph_replay refuses a leased user and a source that changed or was
\* forgotten.
ReplayCheck(c) ==
  /\ pc[c] = "replay" /\ tx = Nobody
  /\ LET m == my[c].m
     IN  IF /\ ~lease.live
            /\ mem[m].status = "active" /\ mem[m].rev = my[c].rows[m].rev
            /\ ~Tombstoned(m)
         THEN tx' = c /\ Goto(c, "replay_commit") /\ UNCHANGED my
         ELSE EndCall(c) /\ UNCHANGED tx
  /\ UNCHANGED <<canonical, events, indexes, lease, clock, promised, count>>

ReplayCommit(c) ==
  /\ pc[c] = "replay_commit"
  /\ clock < MaxClock
  /\ clock' = clock + 1
  /\ plan' = [plan EXCEPT ![my[c].m].revision = clock + 1,
                          ![my[c].m].source = mem[my[c].m].rev,
                          ![my[c].m].applied = 0]
  /\ events' = [events EXCEPT ![clock + 1] =
       [NoEvent EXCEPT !.mem = my[c].m, !.kind = "replay", !.status = "pending"]]
  /\ tx' = Nobody
  /\ EndCall(c)
  /\ UNCHANGED <<mem, tomb, forget, indexes, lease, promised, count>>

-----------------------------------------------------------------------------
(* Forget.                                                                 *)

\* The unfenced claim of the user lease; a leased user is an error, and so is an
\* absent memory, found once the lease is held.
StartForget(c, m, redact) ==
  /\ (IF redact THEN "redact" ELSE "forget") \in Operations
  /\ mem[m].status # "absent"
  /\ ~lease.live
  /\ BeginCall(c, m, redact)
  /\ lease' = [owner |-> c, live |-> TRUE]
  /\ Goto(c, "load")
  /\ UNCHANGED <<canonical, events, indexes, tx, clock, promised>>

\* What an earlier forget of this memory already answered is answered again.
AlreadyForgotten(c) ==
  LET m == my[c].m
  IN  /\ forget[m].status = "completed"
      /\ \/ ~my[c].redact
         \/ forget[m].redaction
         \/ Protected(m).status = "redacted"

\* Otherwise the intent is saved before every destructive effect.
ForgetLoad(c) ==
  /\ pc[c] = "load"
  /\ LET m == my[c].m
     IN  IF AlreadyForgotten(c)
         THEN /\ promised' = promised \cup {<<m, my[c].redact>>}
              /\ Goto(c, "release")
              /\ UNCHANGED <<forget, my>>
         ELSE /\ forget' = [forget EXCEPT ![m].status = "incomplete"]
              /\ my' = [my EXCEPT ![c].rows = [@ EXCEPT ![m] = Protected(m)],
                                  ![c].todo = SourcesOf[m]]
              /\ Goto(c, "tomb")
              /\ UNCHANGED promised
  /\ UNCHANGED <<mem, tomb, plan, events, indexes, lease, tx, clock, count>>

\* One tombstone per source; state_save does not take the advisory lock.
ForgetTomb(c) ==
  /\ pc[c] = "tomb"
  /\ IF my[c].todo = {}
     THEN Goto(c, "mark") /\ UNCHANGED <<tomb, my>>
     ELSE \E s \in my[c].todo :
            /\ tomb' = [tomb EXCEPT ![s] = IF my[c].redact THEN "redact" ELSE "soft"]
            /\ my' = [my EXCEPT ![c].todo = @ \ {s}]
            /\ UNCHANGED pc
  /\ UNCHANGED <<mem, plan, forget, events, indexes, lease, tx, clock, promised, count>>

\* Mutant: the record is archived instead of soft deleted.
ForgottenArchived(row, redact) == [row EXCEPT !.status = "archived"]

\* Soft deletion, and redaction of what is soft deleted.
Forgotten(row, redact) ==
  IF redact \/ row.status = "redacted" THEN [row EXCEPT !.status = "redacted", !.clear = FALSE]
                                       ELSE [row EXCEPT !.status = "soft_deleted"]

\* The second save records the redaction before the row is changed.
ForgetMark(c) ==
  /\ pc[c] = "mark"
  /\ LET m == my[c].m
     IN  /\ forget' = [forget EXCEPT ![m].redaction =
              @ \/ (my[c].redact /\ my[c].rows[m].status # "redacted")]
         /\ my' = [my EXCEPT ![c].rows[m] = Forgotten(@, my[c].redact)]
  /\ Goto(c, "update")
  /\ UNCHANGED <<mem, tomb, plan, events, indexes, lease, tx, clock, promised, count>>

\* update_memory waits for the advisory lock, and so for every ingest that saw
\* no tombstone.
ForgetUpdate(c) ==
  /\ pc[c] = "update" /\ tx = Nobody
  /\ LET r == my[c].rows[my[c].m] IN CommitMemory(my[c].m, r.status, r.clear)
  /\ Goto(c, "list")
  /\ UNCHANGED <<tomb, forget, indexes, lease, tx, promised, my, count>>

\* Mutant: only the memory itself is treated.
SharersNone(m) == {}

\* The memories that share a source with m.
Sharers(m) ==
  {d \in Memories \ {m} : mem[d].status # "absent" /\ SourcesOf[d] \cap SourcesOf[m] # {}}

\* lifecycle_forget lists the rows as they are.
ForgetList(c) ==
  /\ pc[c] = "list"
  /\ LET S == Sharers(my[c].m)
     IN  \/ /\ my' = [my EXCEPT ![c].rows = mem, ![c].todo = S,
                                ![c].affected = S \cup {my[c].m}]
            /\ Goto(c, "cascade")
         \/ /\ StoresFail
            /\ my' = [my EXCEPT ![c].ok = FALSE]
            /\ Goto(c, "answer")
  /\ UNCHANGED <<canonical, events, indexes, lease, tx, clock, promised, count>>

\* Each of them is forgotten too; an error, of the commit or of the drain that
\* follows it in mutate, is kept and reported at the end.
ForgetCascade(c) ==
  /\ pc[c] = "cascade"
  /\ \/ /\ my[c].todo = {}
        /\ Goto(c, "vectors")
        /\ UNCHANGED <<mem, plan, events, clock, my>>
     \/ /\ tx = Nobody
        /\ \E d \in my[c].todo, drained \in {TRUE, ~StoresFail} :
             LET r == Forgotten(my[c].rows[d], my[c].redact)
             IN  /\ CommitMemory(d, r.status, r.clear)
                 /\ my' = [my EXCEPT ![c].todo = @ \ {d}, ![c].ok = @ /\ drained]
        /\ UNCHANGED pc
     \/ /\ StoresFail
        /\ \E d \in my[c].todo : my' = [my EXCEPT ![c].todo = @ \ {d}, ![c].ok = FALSE]
        /\ UNCHANGED <<mem, plan, events, clock, pc>>
  /\ UNCHANGED <<tomb, forget, indexes, lease, tx, promised, count>>

\* Every store is asked although an earlier one failed.  A failure leaves some
\* of the affected memories untouched.
Reached(c) == {D \in SUBSET my[c].affected : StoresFail \/ D = my[c].affected}

\* The receipt of a backend: acknowledged only if it reached all of them.
Receipt(c, D, label) ==
  /\ my' = [my EXCEPT ![c].ok = @ /\ D = my[c].affected]
  /\ Goto(c, label)

ForgetVectors(c) ==
  /\ pc[c] = "vectors"
  /\ \E D \in Reached(c) :
       /\ vec' = [m \in Memories |-> IF m \in D THEN 0 ELSE vec[m]]
       /\ Receipt(c, D, "graph")
  /\ UNCHANGED <<canonical, events, graph, lease, tx, clock, promised, count>>

ForgetGraph(c) ==
  /\ pc[c] = "graph"
  /\ \E D \in Reached(c) :
       /\ graph' = [m \in Memories |-> IF m \in D THEN 0 ELSE graph[m]]
       /\ Receipt(c, D, "scrub")
  /\ UNCHANGED <<canonical, events, vec, lease, tx, clock, promised, count>>

\* scrub_sources deletes the graph plans.  Of the outbox payloads it rewrites
\* only the identity is ever used.
ForgetScrub(c) ==
  /\ pc[c] = "scrub" /\ tx = Nobody
  /\ \E D \in Reached(c) :
       /\ plan' = [m \in Memories |-> IF m \in D THEN NoPlan ELSE plan[m]]
       /\ Receipt(c, D, "answer")
  /\ UNCHANGED <<mem, tomb, forget, events, indexes, lease, tx, clock, promised, count>>

\* "completed" only if every store acknowledged.
ForgetAnswer(c) ==
  /\ pc[c] = "answer"
  /\ IF my[c].ok
     THEN /\ forget' = [forget EXCEPT ![my[c].m].status = "completed"]
          /\ promised' = promised \cup {<<my[c].m, my[c].redact>>}
     ELSE UNCHANGED <<forget, promised>>
  /\ Goto(c, "release")
  /\ UNCHANGED <<mem, tomb, plan, events, indexes, lease, tx, clock, my, count>>

\* An error of PostgreSQL, or of the drain after update_memory, ends the call
\* where it is.
ForgetError(c) ==
  /\ StoresFail
  /\ pc[c] \in {"load", "tomb", "mark", "update", "list", "answer"}
  /\ Goto(c, "release")
  /\ UNCHANGED <<canonical, events, indexes, lease, tx, clock, promised, my, count>>

FreeLease(a) ==
  lease' = IF lease.owner = a THEN [owner |-> Nobody, live |-> FALSE] ELSE lease

ForgetRelease(c) ==
  /\ pc[c] = "release"
  /\ FreeLease(c)
  /\ EndCall(c)
  /\ UNCHANGED <<canonical, events, indexes, tx, clock, promised, count>>

-----------------------------------------------------------------------------
(* Outbox workers: drain_outbox and sync_payload.                          *)

\* Mutant: an event left in processing is not taken over.
ClaimableFresh(e) == events[e].status \in {"pending", "retry"} /\ ~events[e].live

Claimable(e) == events[e].status \in {"pending", "retry", "processing"} /\ ~events[e].live

\* claim_outbox passes over events of a user whose lease is held.
ClaimEvent(w, e) ==
  /\ pc[w] = "idle" /\ Claimable(e) /\ ~lease.live
  /\ events' = [events EXCEPT ![e].status = "processing", ![e].attempts = @ + 1,
                              ![e].owner = w, ![e].live = TRUE]
  /\ my' = [my EXCEPT ![w].m = events[e].mem, ![w].e = e]
  /\ Goto(w, "lease")
  /\ UNCHANGED <<canonical, indexes, lease, tx, clock, promised, count>>

Fail(w, label) == my' = [my EXCEPT ![w].ok = FALSE] /\ Goto(w, label)

TakeLease(w) ==
  /\ pc[w] = "lease"
  /\ IF lease.live
     THEN Fail(w, "finish") /\ UNCHANGED lease
     ELSE lease' = [owner |-> w, live |-> TRUE] /\ Goto(w, "read") /\ UNCHANGED my
  /\ UNCHANGED <<canonical, events, indexes, tx, clock, promised, count>>

\* renew: the event's lease is still live, and the user lease is this call's or
\* can be taken again.
CanRenew(w) ==
  /\ events[my[w].e].owner = w /\ events[my[w].e].live
  /\ lease.owner = w \/ ~lease.live

Renewed(w, label) ==
  IF CanRenew(w)
  THEN /\ lease' = [owner |-> w, live |-> TRUE]
       /\ Goto(w, label)
       /\ UNCHANGED my
  ELSE Fail(w, "unlock") /\ UNCHANGED lease

\* The worker synchronises the canonical record, not the event's payload; it
\* renews before the first write (a replay of an active record has none yet).
ReadRecord(w) ==
  /\ pc[w] = "read"
  /\ LET r == Protected(my[w].m)
         next == IF r.status # "active" THEN "delete_vec"
                 ELSE IF events[my[w].e].kind = "sync" THEN "write_vec" ELSE "read_plan"
     IN  IF CanRenew(w) \/ next = "read_plan"
         THEN /\ my' = [my EXCEPT ![w].rows[my[w].m] = r]
              /\ Goto(w, next)
              /\ lease' = IF next = "read_plan" THEN lease ELSE [owner |-> w, live |-> TRUE]
         ELSE Fail(w, "unlock") /\ UNCHANGED lease
  /\ UNCHANGED <<canonical, events, indexes, tx, clock, promised, count>>

StoreError(w) == StoresFail /\ Fail(w, "unlock") /\ UNCHANGED <<indexes, lease>>

DeleteVector(w) ==
  /\ pc[w] = "delete_vec"
  /\ \/ /\ vec' = [vec EXCEPT ![my[w].m] = 0]
        /\ Renewed(w, "delete_graph")
        /\ UNCHANGED graph
     \/ StoreError(w)
  /\ UNCHANGED <<canonical, events, tx, clock, promised, count>>

DeleteGraph(w) ==
  /\ pc[w] = "delete_graph"
  /\ \/ /\ graph' = [graph EXCEPT ![my[w].m] = 0]
        /\ Renewed(w, "invalidate")
        /\ UNCHANGED vec
     \/ StoreError(w)
  /\ UNCHANGED <<canonical, events, tx, clock, promised, count>>

WriteVector(w) ==
  /\ pc[w] = "write_vec"
  /\ \/ /\ vec' = [vec EXCEPT ![my[w].m] = my[w].rows[my[w].m].rev]
        /\ Goto(w, "read_plan")
        /\ UNCHANGED <<graph, lease, my>>
     \/ StoreError(w)
  /\ UNCHANGED <<canonical, events, tx, clock, promised, count>>

\* The plan was made for the version of the record that was read.
PlanMatches(w) == /\ plan[my[w].m].revision # 0
                  /\ plan[my[w].m].source = my[w].rows[my[w].m].rev

ReadPlan(w) ==
  /\ pc[w] = "read_plan"
  /\ IF PlanMatches(w)
     THEN IF CanRenew(w)
          THEN /\ my' = [my EXCEPT ![w].plan = plan[my[w].m]]
               /\ lease' = [owner |-> w, live |-> TRUE]
               /\ Goto(w, "write_graph")
          ELSE Fail(w, "unlock") /\ UNCHANGED lease
     ELSE Renewed(w, "invalidate")
  /\ UNCHANGED <<canonical, events, indexes, tx, clock, promised, count>>

WriteGraph(w) ==
  /\ pc[w] = "write_graph"
  /\ \/ /\ graph' = [graph EXCEPT ![my[w].m] = my[w].plan.revision]
        /\ Renewed(w, "ack")
        /\ UNCHANGED vec
     \/ StoreError(w)
  /\ UNCHANGED <<canonical, events, tx, clock, promised, count>>

\* Mutant: the acknowledgement is not tied to the revision.
AcknowledgedAny(m, revision) == [plan EXCEPT ![m].applied = plan[m].revision]

\* acknowledge_graph: nothing if the plan has been replaced or deleted.
AcknowledgedPlan(m, revision) ==
  IF plan[m].revision = revision THEN [plan EXCEPT ![m].applied = revision] ELSE plan

AcknowledgeGraph(w) ==
  /\ pc[w] = "ack"
  /\ plan' = AcknowledgedPlan(my[w].m, my[w].plan.revision)
  /\ Renewed(w, "invalidate")
  /\ UNCHANGED <<mem, tomb, forget, events, indexes, tx, clock, promised, count>>

\* The Redis scope is invalidated last; that may fail as well.
Invalidate(w) ==
  /\ pc[w] = "invalidate"
  /\ \/ Goto(w, "unlock") /\ UNCHANGED my
     \/ StoresFail /\ Fail(w, "unlock")
  /\ UNCHANGED <<canonical, events, indexes, lease, tx, clock, promised, count>>

Unlock(w) ==
  /\ pc[w] = "unlock"
  /\ FreeLease(w)
  /\ Goto(w, "finish")
  /\ UNCHANGED <<canonical, events, indexes, tx, clock, promised, my, count>>

\* Mutant: an event whose synchronisation failed is completed as well.
FinishedAlways(ok, attempts) == "completed"

Finished(ok, attempts) ==
  IF ok THEN "completed" ELSE IF attempts >= MaxAttempts THEN "failed" ELSE "retry"

\* finish_outbox asks for the owner only; a claim lost to another worker ends
\* the drain with an error.
FinishEvent(w) ==
  /\ pc[w] = "finish"
  /\ LET e == my[w].e
     IN  events' = IF events[e].owner = w
                   THEN [events EXCEPT ![e].status = Finished(my[w].ok, events[e].attempts),
                                       ![e].owner = Nobody, ![e].live = FALSE]
                   ELSE events
  /\ EndCall(w)
  /\ UNCHANGED <<canonical, indexes, lease, tx, clock, promised, count>>

-----------------------------------------------------------------------------
(* Time and crashes.                                                       *)

\* locked_until of an event passes.  Under a working owner that is a lapse.
ExpireEvent(e) ==
  /\ events[e].live
  /\ LET w == events[e].owner
     IN  IF pc[w] = "idle" \/ my[w].e # e
         THEN UNCHANGED count
         ELSE /\ count.lapses < MaxLapses
              /\ count' = [count EXCEPT !.lapses = @ + 1]
  /\ events' = [events EXCEPT ![e].live = FALSE]
  /\ UNCHANGED <<canonical, indexes, lease, tx, clock, promised, pc, my>>

\* locked_until of the user lease passes.  A worker always extends the event's
\* lease before the user's by the same 300 seconds, so the event's ends first.
ExpireLease ==
  /\ lease.live
  /\ LET a == lease.owner
     IN  \/ /\ pc[a] \in {"idle", "finish"} \/ (a \in Workers /\ pc[a] = "lease")
            /\ UNCHANGED count
         \/ /\ pc[a] \notin {"idle", "finish", "lease"}
            /\ a \in Workers => ~events[my[a].e].live
            /\ count.lapses < MaxLapses
            /\ count' = [count EXCEPT !.lapses = @ + 1]
  /\ lease' = [lease EXCEPT !.live = FALSE]
  /\ UNCHANGED <<canonical, events, indexes, tx, clock, promised, pc, my>>

\* A process dies: its transaction is rolled back, its leases stay.
Crash(a) ==
  /\ pc[a] # "idle" /\ count.crashes < MaxCrashes
  /\ count' = [count EXCEPT !.crashes = @ + 1]
  /\ tx' = IF tx = a THEN Nobody ELSE tx
  /\ EndCall(a)
  /\ UNCHANGED <<canonical, events, indexes, lease, clock, promised>>

ClientStep(c) ==
  \/ IngestCommit(c) \/ ReplayCheck(c) \/ ReplayCommit(c)
  \/ ForgetLoad(c) \/ ForgetTomb(c) \/ ForgetMark(c) \/ ForgetUpdate(c)
  \/ ForgetList(c) \/ ForgetCascade(c) \/ ForgetVectors(c) \/ ForgetGraph(c)
  \/ ForgetScrub(c) \/ ForgetAnswer(c) \/ ForgetError(c) \/ ForgetRelease(c)

WorkerStep(w) ==
  \/ TakeLease(w) \/ ReadRecord(w) \/ DeleteVector(w) \/ DeleteGraph(w)
  \/ WriteVector(w) \/ ReadPlan(w) \/ WriteGraph(w) \/ AcknowledgeGraph(w)
  \/ Invalidate(w) \/ Unlock(w) \/ FinishEvent(w)

Next ==
  \/ \E c \in Clients, m \in Memories :
       \/ IngestCheck(c, m) \/ ReplayRead(c, m)
       \/ \E redact \in BOOLEAN : StartForget(c, m, redact)
  \/ \E c \in Clients : ClientStep(c)
  \/ \E w \in Workers : WorkerStep(w) \/ \E e \in Events : ClaimEvent(w, e)
  \/ \E e \in Events : ExpireEvent(e)
  \/ \E a \in Actors : Crash(a)
  \/ ExpireLease

Spec == Init /\ [][Next]_vars

\* drain_outbox is called by every mutation and by the worker thread, calls run
\* to their end, and leases of dead owners expire.
Fairness ==
  /\ \A w \in Workers : /\ WF_vars(WorkerStep(w))
                         /\ WF_vars(\E e \in Events : ClaimEvent(w, e))
  /\ \A c \in Clients : WF_vars(ClientStep(c))
  /\ \A e \in Events : WF_vars(ExpireEvent(e) /\ UNCHANGED count)
  /\ WF_vars(ExpireLease /\ UNCHANGED count)

FairSpec == Spec /\ Fairness
-----------------------------------------------------------------------------
(* Properties.                                                             *)

\* No lease has expired so far under an owner that was still at work: leases are
\* renewed before an external write, not during it.
LeasesLast == count.lapses = 0

\* A forgotten memory never becomes active again, and redacted content never comes
\* back as long as leases last, whatever snapshot a resumed forget, a cascade or a late
\* ingest writes (memory_write: "inactive memory cannot be resurrected").
NoResurrection ==
  [][\A m \in Memories : mem[m].status \in Inactive =>
       /\ mem'[m].status \in Inactive
       /\ LeasesLast /\ mem'[m].clear => mem[m].clear]_mem

\* Once forget answered "completed", no memory that shares a source with the
\* forgotten one is active or present in the vector store or the graph, also
\* one whose ingest had passed the tombstone check before (lifecycle_forget,
\* commit_memory).
ForgottenGone ==
  LeasesLast => \A p \in promised : \A d \in Memories :
    d = p[1] \/ SourcesOf[d] \cap SourcesOf[p[1]] # {} =>
      mem[d].status # "active" /\ vec[d] = 0 /\ graph[d] = 0

Settled(m) == \A e \in Events : events[e].mem = m => events[e].status \in {"none", "completed"}

\* When every event of a memory is completed, the indexes hold exactly what the
\* canonical store says: nothing for an inactive memory, the current version
\* and the current plan for an active one (sync_payload reads the canonical
\* record, so events may be handled in any order).
IndexConverges ==
  \A m \in Memories : LeasesLast /\ Settled(m) =>
    /\ mem[m].status \in Inactive => vec[m] = 0 /\ graph[m] = 0
    /\ mem[m].status = "active" /\ ~Tombstoned(m) =>
         /\ vec[m] = mem[m].rev
         /\ graph[m] = plan[m].revision

\* The gate of current_graph_memory_ids is sound: graph evidence that retrieval
\* accepts comes from the current plan of the current record.
GraphGateSound ==
  \A m \in Memories :
    /\ LeasesLast
    /\ mem[m].status = "active" /\ ~Tombstoned(m)
    /\ plan[m].revision # 0 /\ plan[m].applied = plan[m].revision
    => graph[m] = plan[m].revision /\ plan[m].source = mem[m].rev

\* Every outbox event is eventually completed or given up, also one whose worker
\* died and one that met a forget in progress (claim_outbox, finish_outbox).
OutboxSettles ==
  \A e \in Events : events[e].status = "pending" ~> events[e].status \in {"completed", "failed"}

\* What the indexes hold and what retrieval admits of it follows the canonical rows,
\* in whatever order events are handled (sync_payload, acknowledge_graph).
IndexesSound == TypeOK /\ IndexConverges /\ GraphGateSound

=============================================================================
