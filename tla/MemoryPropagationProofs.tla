----------------------- MODULE MemoryPropagationProofs -----------------------
(***************************************************************************)
(* Proofs about MemoryPropagation, for any memories, sources shared among  *)
(* them, clients and workers, and any crashes and failures of the stores:  *)
(* what was forgotten is gone for good, and the vector store and the graph *)
(* follow the canonical rows in whatever order events are handled.         *)
(***************************************************************************)
EXTENDS MemoryPropagation, TLAPS

ForgetPcs == {"load", "tomb", "mark", "update", "list", "cascade", "vectors", "graph", "scrub",
              "answer", "release"}
SyncPcs == {"read", "delete_vec", "delete_graph", "write_vec", "read_plan", "write_graph", "ack",
            "invalidate", "unlock"}
ClientPcs == {"idle", "commit", "replay", "replay_commit"} \cup ForgetPcs
WorkerPcs == {"idle", "lease", "finish"} \cup SyncPcs
Writing == {"commit", "replay_commit"}

\* Forgetting p concerns d.
Affected(d, p) == d = p \/ SourcesOf[d] \cap SourcesOf[p] # {}

\* The indexes are to show m.
Live(m) == mem[m].status = "active" /\ ~Tombstoned(m)

\* No ingest or replay of a memory that shares a source with p can pass any more, and none
\* that passed is still to be committed.
Closed(p) ==
  /\ mem[p].status \in Inactive
  /\ \A s \in SourcesOf[p] : tomb[s] # "none"
  /\ \A c \in Clients : pc[c] \in Writing => ~Affected(my[c].m, p)

\* What a completed forget of p promises.
Gone(p) ==
  /\ Closed(p)
  /\ \A d \in Memories : Affected(d, p) => mem[d].status # "active" /\ vec[d] = 0 /\ graph[d] = 0

IsPromised(p) == forget[p].status = "completed" \/ \E redact \in BOOLEAN : <<p, redact>> \in promised

\* A worker has done all its writes for e and will complete it.
Done(e) == \E w \in Workers : pc[w] \in {"unlock", "finish"} /\ my[w].e = e /\ my[w].ok

\* Event e still has to bring the indexes of m up to date.
Waits(e, m) ==
  events[e].mem = m /\ events[e].status \notin {"none", "completed"} /\ ~Done(e)

\* Some event other than the one w works on will.
OtherWaits(w) == \E e \in Events : e # my[w].e /\ Waits(e, my[w].m)
OtherSync(w) == \E e \in Events : e # my[w].e /\ Waits(e, my[w].m) /\ events[e].kind = "sync"

Synced(m) ==
  /\ mem[m].status \in Inactive => vec[m] = 0 /\ graph[m] = 0
  /\ Live(m) => vec[m] = mem[m].rev /\ graph[m] = plan[m].revision

\* The claim of a worker.
EventMine(w) ==
  /\ my[w].e \in Events
  /\ events[my[w].e].owner = w /\ events[my[w].e].live
  /\ events[my[w].e].status = "processing" /\ events[my[w].e].mem = my[w].m

-----------------------------------------------------------------------------
(* The inductive invariant: what holds always, and what holds while leases *)
(* last.                                                                   *)

ClientBase(c) ==
  LET m == my[c].m
  IN
  /\ pc[c] \in ClientPcs
  /\ pc[c] \in Writing => tx = c
  /\ pc[c] = "commit" => mem[m].status \notin Inactive
  /\ pc[c] = "replay_commit" => mem[m].status = "active"
  /\ pc[c] = "tomb" => \A s \in SourcesOf[m] : s \in my[c].todo \/ tomb[s] # "none"
  /\ pc[c] \in {"mark", "update"} => \A s \in SourcesOf[m] : tomb[s] # "none"
  /\ pc[c] = "update" => my[c].rows[m].status \in Inactive
  /\ pc[c] \in {"list", "cascade", "vectors", "graph", "scrub", "answer"} => Closed(m)
  /\ pc[c] \in {"cascade", "vectors", "graph", "scrub"} \/ (pc[c] = "answer" /\ my[c].ok) =>
       \A d \in my[c].affected : Affected(d, m)
  /\ pc[c] \in ForgetPcs => mem[m].status # "absent"
  /\ pc[c] = "cascade" => my[c].todo \subseteq my[c].affected /\ \A d \in my[c].todo : mem[d].status # "absent"

WorkerBase(w) ==
  /\ pc[w] \in WorkerPcs
  /\ pc[w] # "idle" => my[w].e \in Events /\ mem[my[w].m].status # "absent"

MemBase(m) ==
  /\ Live(m) => plan[m].source = mem[m].rev /\ plan[m].revision # 0
  /\ mem[m].status = "absent" => vec[m] = 0 /\ graph[m] = 0

EventBase(e) ==
  /\ e > clock => events[e].status = "none"
  /\ IF events[e].status = "none" THEN events[e].owner = Nobody
                                   ELSE mem[events[e].mem].status # "absent"

ClientLeased(c) ==
  LET m == my[c].m
  IN
  /\ pc[c] \in ForgetPcs => lease.live /\ lease.owner = c
  /\ pc[c] \in {"tomb", "mark", "update"} =>
       (mem[m].status \in Inactive /\ my[c].rows[m].clear => mem[m].clear)
  /\ pc[c] = "cascade" => \A d \in my[c].todo :
       mem[d].status \in Inactive /\ my[c].rows[d].clear => mem[d].clear
  /\ my[c].ok =>
     /\ pc[c] \in {"cascade", "vectors", "graph", "scrub", "answer"} =>
          \A d \in Memories : Affected(d, m) => d \in my[c].affected \/ mem[d].status = "absent"
     /\ pc[c] = "cascade" => \A d \in my[c].affected : d \in my[c].todo \/ mem[d].status # "active"
     /\ pc[c] \in {"vectors", "graph", "scrub", "answer"} => \A d \in my[c].affected : mem[d].status # "active"
     /\ pc[c] \in {"graph", "scrub", "answer"} => \A d \in my[c].affected : vec[d] = 0
     /\ pc[c] \in {"scrub", "answer"} => \A d \in my[c].affected : graph[d] = 0

WorkerLeased(w) ==
  LET m == my[w].m
  IN
  /\ pc[w] # "idle" => EventMine(w)
  /\ pc[w] \in SyncPcs => lease.live /\ lease.owner = w
  /\ pc[w] \in {"delete_vec", "delete_graph"} => ~Live(m)
  /\ pc[w] = "delete_graph" => vec[m] = 0
  /\ pc[w] \in {"write_vec", "read_plan", "write_graph", "ack"} => Live(m)
  /\ pc[w] = "write_vec" =>
       events[my[w].e].kind = "sync" /\ (OtherSync(w) \/ mem[m].rev = my[w].rows[m].rev)
  /\ pc[w] = "read_plan" =>
       OtherSync(w) \/ (mem[m].rev = my[w].rows[m].rev /\ vec[m] = mem[m].rev)
  /\ pc[w] \in {"write_graph", "ack"} =>
       /\ OtherSync(w) \/ vec[m] = mem[m].rev
       /\ my[w].plan.revision # 0
       /\ plan[m].revision = my[w].plan.revision \/ (OtherWaits(w) /\ plan[m].applied = 0)
  /\ pc[w] = "ack" => graph[m] = my[w].plan.revision
  /\ pc[w] = "invalidate" =>
       /\ OtherWaits(w) \/ Synced(m)
       /\ OtherSync(w) \/ ~Live(m) \/ vec[m] = mem[m].rev

MemLeased(m) ==
  /\ Synced(m) \/ \E e \in Events : Waits(e, m)
  /\ Live(m) => vec[m] = mem[m].rev \/ \E e \in Events : Waits(e, m) /\ events[e].kind = "sync"
  /\ Live(m) /\ plan[m].applied = plan[m].revision => graph[m] = plan[m].revision
  /\ IsPromised(m) => Gone(m)

Base ==
  /\ TypeOK
  /\ \A c \in Clients : ClientBase(c)
  /\ \A w \in Workers : WorkerBase(w)
  /\ \A m \in Memories : MemBase(m)
  /\ \A e \in Events : EventBase(e)

Leased ==
  /\ \A c \in Clients : ClientLeased(c)
  /\ \A w \in Workers : WorkerLeased(w)
  /\ \A m \in Memories : MemLeased(m)

IInv == Base /\ (LeasesLast => Leased)

-----------------------------------------------------------------------------
(* Types and fields.                                                       *)

PcValues == ClientPcs \cup WorkerPcs

\* The types of all variables, as the conjuncts that actions change.
LEMMA TypeNext ==
  ASSUME mem' \in [Memories -> Row], tomb' \in [Sources -> {"none", "soft", "redact"}],
         plan' \in [Memories -> Plan], events' \in [Events -> Event],
         forget' \in [Memories -> Progress],
         vec' \in [Memories -> Nat], graph' \in [Memories -> Nat],
         lease' \in [owner: Actors \cup {Nobody}, live: BOOLEAN],
         tx' \in Clients \cup {Nobody}, clock' \in 0 .. MaxClock,
         promised' \in SUBSET (Memories \X BOOLEAN),
         pc' \in [Actors -> PcValues], my' \in [Actors -> Locals],
         count' \in [calls: Nat, crashes: Nat, lapses: Nat]
  PROVE  TypeOK'
  BY DEF TypeOK, PcValues, ClientPcs, WorkerPcs, ForgetPcs, SyncPcs

\* The types, with control points named.
LEMMA TypePc == TypeOK => pc \in [Actors -> PcValues]
  BY DEF TypeOK, PcValues, ClientPcs, WorkerPcs, ForgetPcs, SyncPcs

\* What an actor that has nothing yet looks like.
LEMMA NothingTyped ==
  /\ AnyMemory \in Memories /\ NoRow \in Row /\ NoPlan \in Plan /\ NoEvent \in Event
  /\ NoLocals \in Locals
<1>1. AnyMemory \in Memories
  BY PropagationAssumption DEF AnyMemory
<1>2. NoRow \in Row /\ NoPlan \in Plan /\ NoEvent \in Event
  BY <1>1 DEF NoRow, NoPlan, NoEvent, Row, Plan, Event
<1> QED
  BY <1>1, <1>2 DEF NoLocals, Locals

\* The fields of an actor's locals.
LEMMA Fields ==
  ASSUME TypeOK, NEW a \in Actors
  PROVE  /\ my[a] \in Locals /\ my[a].m \in Memories /\ my[a].e \in Nat
         /\ my[a].rows \in [Memories -> Row] /\ my[a].affected \in SUBSET Memories
         /\ my[a].todo \in SUBSET (Memories \cup Sources)
         /\ my[a].plan \in Plan /\ my[a].ok \in BOOLEAN /\ my[a].redact \in BOOLEAN
         /\ mem[my[a].m] \in Row /\ plan[my[a].m] \in Plan
         /\ vec[my[a].m] \in Nat /\ graph[my[a].m] \in Nat
         /\ SourcesOf[my[a].m] \in SUBSET Sources
<1>1. my[a] \in Locals
  BY DEF TypeOK
<1>2. /\ my[a].m \in Memories /\ my[a].e \in Nat /\ my[a].rows \in [Memories -> Row]
      /\ my[a].affected \in SUBSET Memories /\ my[a].todo \in SUBSET (Memories \cup Sources)
      /\ my[a].plan \in Plan /\ my[a].ok \in BOOLEAN /\ my[a].redact \in BOOLEAN
  BY <1>1 DEF Locals
<1> QED
  BY <1>1, <1>2, PropagationAssumption DEF TypeOK

\* A move of one actor leaves the others where they are.
LEMMA GotoTyped ==
  ASSUME TypeOK, NEW a \in Actors, NEW label \in PcValues, Goto(a, label)
  PROVE  /\ pc' \in [Actors -> PcValues] /\ pc'[a] = label
         /\ \A b \in Actors : b # a => pc'[b] = pc[b]
  BY TypePc DEF Goto

-----------------------------------------------------------------------------
(* What a step of a means to everyone else.                                *)

\* The control points and locals of everyone but a are untouched.
Others(a) == \A b \in Actors : b # a => pc'[b] = pc[b] /\ my'[b] = my[b]

\* The tenant lock, rows and tombstones: rows change only under the lock, forgotten rows stay
\* forgotten, and what is closed stays closed.
CanonKept(a) ==
  /\ \A c \in Clients : c # a /\ tx = c => tx' = c /\ mem' = mem
  /\ \A s \in Sources : tomb[s] # "none" => tomb'[s] # "none"
  /\ \A m \in Memories : /\ mem[m].status # "absent" => mem'[m].status # "absent"
                         /\ mem[m].status \in Inactive => mem'[m].status \in Inactive
  /\ \A p \in Memories : Closed(p) =>
       /\ Closed(p)'
       /\ \A d \in Memories : Affected(d, p) =>
            /\ mem[d].status = "absent" => mem'[d].status = "absent"
            /\ mem[d].status # "active" => mem'[d].status # "active"

\* m has a new event.
News(m) == \E e \in Events : events[e].status = "none" /\ Waits(e, m)'
NewSync(m) == \E e \in Events : events[e].status = "none" /\ Waits(e, m)' /\ events'[e].kind = "sync"

\* While b holds the user lease, nobody else forgets or writes the indexes; rows and plans
\* change only with a new event.
LeaseKept(b) ==
  /\ lease'.live /\ lease'.owner = b /\ tomb' = tomb /\ vec' = vec /\ graph' = graph
  /\ \A m \in Memories : mem'[m] = mem[m] \/ (/\ mem[m].status \notin Inactive
                                             /\ mem'[m].status = "active" /\ NewSync(m))
  /\ \A m \in Memories : plan'[m] = plan[m] \/ (plan'[m].applied = 0 /\ News(m))

\* Events that wait go on waiting, and claims stand.
EventsKept(a) ==
  /\ \A e \in Events, m \in Memories : Waits(e, m) => Waits(e, m)' \/ (a \in Workers /\ pc[a] = "invalidate" /\ e = my[a].e)
  /\ \A e \in Events : events[e].status # "none" =>
       events'[e].kind = events[e].kind /\ events'[e].mem = events[e].mem /\ events'[e].status # "none"
  /\ \A w \in Workers : w # a /\ pc[w] # "idle" /\ EventMine(w) => events'[my[w].e] = events[my[w].e]

\* What is always true of a client's locals survives the steps of others.
LEMMA ClientBaseKept ==
  ASSUME IInv, NEW a, Others(a), CanonKept(a), NEW c \in Clients, c # a
  PROVE  ClientBase(c)'
<1>1. c \in Actors /\ TypeOK /\ ClientBase(c)
  BY DEF Actors, IInv, Base
<1>2. pc'[c] = pc[c] /\ my'[c] = my[c]
  BY <1>1 DEF Others
<1>3. PICK m \in Memories : m = my[c].m /\ SourcesOf[m] \in SUBSET Sources
  BY <1>1, Fields
<1>4. tx = c => tx' = c /\ mem' = mem
  BY DEF CanonKept
<1>5. \A s \in SourcesOf[m] : tomb[s] # "none" => tomb'[s] # "none"
  BY <1>3 DEF CanonKept
<1>6. Closed(m) => Closed(m)'
  BY <1>3 DEF CanonKept
<1>7. my'[c].m = m
  BY <1>2, <1>3
<1>8. \A d \in Memories : mem[d].status # "absent" => mem'[d].status # "absent"
  BY DEF CanonKept
<1>9. \A d \in my[c].affected : d \in Memories
  BY <1>1, Fields
<1> QED
  BY <1>1, <1>2, <1>3, <1>4, <1>5, <1>6, <1>7, <1>8, <1>9 DEF ClientBase, Writing, Affected

\* What is always true of a worker's locals survives the steps of others.
LEMMA WorkerBaseKept ==
  ASSUME IInv, NEW a, Others(a), CanonKept(a), NEW w \in Workers, w # a
  PROVE  WorkerBase(w)'
<1>1. w \in Actors /\ TypeOK /\ WorkerBase(w)
  BY DEF Actors, IInv, Base
<1>2. pc'[w] = pc[w] /\ my'[w] = my[w] /\ my[w].m \in Memories
  BY <1>1, Fields DEF Others
<1> QED
  BY <1>1, <1>2 DEF WorkerBase, CanonKept

\* What a client may rely on under the lease survives the steps of others.
LEMMA ClientLeasedKept ==
  ASSUME IInv, NEW a, Others(a), CanonKept(a), NEW c \in Clients, c # a, ClientLeased(c),
         lease.live /\ lease.owner = c /\ pc[c] \in ForgetPcs => LeaseKept(c)
  PROVE  ClientLeased(c)'
<1>1. c \in Actors /\ TypeOK /\ ClientBase(c)
  BY DEF Actors, IInv, Base
<1>2. pc'[c] = pc[c] /\ my'[c] = my[c]
  BY <1>1 DEF Others
<1>3. my[c].m \in Memories /\ my[c].affected \in SUBSET Memories
  BY <1>1, Fields
<1>4. CASE pc[c] \notin ForgetPcs
  BY <1>2, <1>4 DEF ClientLeased, ForgetPcs
<1>5. CASE pc[c] \in ForgetPcs
  <2>1. LeaseKept(c)
    BY <1>5 DEF ClientLeased
  <2>2. \A m \in Memories : mem'[m].status \in Inactive => mem'[m] = mem[m]
    BY <2>1 DEF LeaseKept, Inactive
  <2>3. lease'.live /\ lease'.owner = c /\ vec' = vec /\ graph' = graph
    BY <2>1 DEF LeaseKept
  <2>4. pc[c] \in {"cascade", "vectors", "graph", "scrub", "answer"} =>
          \A d \in Memories : Affected(d, my[c].m) =>
            /\ mem[d].status = "absent" => mem'[d].status = "absent"
            /\ mem[d].status # "active" => mem'[d].status # "active"
    BY <1>1, <1>3 DEF ClientBase, CanonKept
  <2>5. pc[c] = "cascade" => \A d \in my[c].todo : d \in Memories
    BY <1>1, <1>3 DEF ClientBase
  <2>6. pc[c] \in {"tomb", "mark", "update"} =>
          (mem'[my[c].m].status \in Inactive /\ my[c].rows[my[c].m].clear => mem'[my[c].m].clear)
    BY <1>3, <2>2 DEF ClientLeased
  <2>7. pc[c] = "cascade" => \A d \in my[c].todo :
          mem'[d].status \in Inactive /\ my[c].rows[d].clear => mem'[d].clear
    BY <2>2, <2>5 DEF ClientLeased
  <2>8. my[c].ok =>
        /\ pc[c] \in {"cascade", "vectors", "graph", "scrub", "answer"} =>
             \A d \in Memories : Affected(d, my[c].m) => d \in my[c].affected \/ mem'[d].status = "absent"
        /\ pc[c] \in {"graph", "scrub", "answer"} => \A d \in my[c].affected : vec'[d] = 0
        /\ pc[c] \in {"scrub", "answer"} => \A d \in my[c].affected : graph'[d] = 0
    BY <2>3, <2>4 DEF ClientLeased
  <2>9. my[c].ok /\ pc[c] \in {"cascade", "vectors", "graph", "scrub", "answer"} =>
          \A d \in my[c].affected : mem[d].status # "active" => mem'[d].status # "active"
    BY <1>1, <1>3, <2>4 DEF ClientBase
  <2>10. my[c].ok =>
        /\ pc[c] = "cascade" => \A d \in my[c].affected : d \in my[c].todo \/ mem'[d].status # "active"
        /\ pc[c] \in {"vectors", "graph", "scrub", "answer"} =>
             \A d \in my[c].affected : mem'[d].status # "active"
    BY <1>3, <2>9 DEF ClientLeased
  <2> QED
    BY <1>2, <2>3, <2>6, <2>7, <2>8, <2>10 DEF ClientLeased, Affected
<1> QED
  BY <1>4, <1>5

\* The worker that holds the lease: what is new is an event it does not work on.
LEMMA WorkerLeasedKept ==
  ASSUME IInv, NEW a, Others(a), CanonKept(a), EventsKept(a), NEW w \in Workers, w # a,
         WorkerLeased(w), a \in Workers => WorkerLeased(a),
         lease.live /\ lease.owner = w /\ pc[w] \in SyncPcs => LeaseKept(w)
  PROVE  WorkerLeased(w)'
<1>1. w \in Actors /\ TypeOK /\ WorkerBase(w)
  BY DEF Actors, IInv, Base
<1>2. pc'[w] = pc[w] /\ my'[w] = my[w]
  BY <1>1 DEF Others
<1>3. PICK m \in Memories : m = my[w].m /\ mem[m] \in Row /\ mem[m].status \in {"absent", "active"} \cup Inactive
  BY <1>1, Fields DEF Row
<1>4. pc[w] # "idle" => EventMine(w)'
  BY <1>2 DEF WorkerLeased, EventsKept, EventMine
<1>5. CASE pc[w] \notin SyncPcs
  BY <1>2, <1>4, <1>5 DEF WorkerLeased, SyncPcs
<1>6. CASE pc[w] \in SyncPcs
  <2>1. LeaseKept(w) /\ EventMine(w) /\ pc[w] # "idle"
    BY <1>6 DEF WorkerLeased, SyncPcs
  <2>2. PICK own \in Events : own = my[w].e /\ own = my'[w].e
    BY <1>2, <2>1 DEF EventMine
  <2>3. ~(a \in Workers /\ pc[a] = "invalidate")
    BY <1>6 DEF WorkerLeased, SyncPcs
  <2>4. \A e \in Events : Waits(e, m) => Waits(e, m)'
    BY <2>3 DEF EventsKept
  <2>5. OtherWaits(w) => OtherWaits(w)'
    BY <1>2, <1>3, <2>4 DEF OtherWaits
  <2>6. \A e \in Events : Waits(e, m) => events'[e].kind = events[e].kind
    BY DEF EventsKept, Waits
  <2>7. OtherSync(w) => OtherSync(w)'
    BY <1>2, <1>3, <2>4, <2>6 DEF OtherSync
  <2>8. events[own].status # "none"
    BY <2>1, <2>2 DEF EventMine
  <2>9. News(m) => OtherWaits(w)'
    BY <1>2, <1>3, <2>2, <2>8 DEF News, OtherWaits
  <2>10. NewSync(m) => OtherSync(w)'
    BY <1>2, <1>3, <2>2, <2>8 DEF NewSync, OtherSync
  <2>11. NewSync(m) => News(m)
    BY DEF NewSync, News
  <2>12. vec' = vec /\ graph' = graph /\ tomb' = tomb /\ lease'.live /\ lease'.owner = w
    BY <2>1 DEF LeaseKept
  <2>13. mem'[m] = mem[m] \/ (mem[m].status \notin Inactive /\ mem'[m].status = "active" /\ NewSync(m))
    BY <2>1 DEF LeaseKept
  <2>14. plan'[m] = plan[m] \/ (plan'[m].applied = 0 /\ News(m))
    BY <2>1 DEF LeaseKept
  <2>15. Tombstoned(m)' <=> Tombstoned(m)
    BY <2>12 DEF Tombstoned
  <2>16. mem[m].status # "absent"
    BY <1>1, <1>3, <2>1 DEF WorkerBase
  <2>17. Live(m)' <=> Live(m)
    BY <1>3, <2>13, <2>15, <2>16 DEF Live, Inactive
  <2>18. Synced(m) => Synced(m)' \/ News(m)
    BY <2>11, <2>12, <2>13, <2>14, <2>17 DEF Synced
  <2>19. events'[own].kind = events[own].kind
    BY <2>2, <2>8 DEF EventsKept
  <2>20. pc[w] \in {"delete_vec", "delete_graph"} => ~Live(m)'
    BY <1>3, <2>17 DEF WorkerLeased
  <2>21. pc[w] \in {"write_vec", "read_plan", "write_graph", "ack"} => Live(m)'
    BY <1>3, <2>17 DEF WorkerLeased
  <2>22. pc[w] = "write_vec" =>
           events'[own].kind = "sync" /\ (OtherSync(w)' \/ mem'[m].rev = my[w].rows[m].rev)
    BY <1>3, <2>2, <2>7, <2>10, <2>13, <2>19 DEF WorkerLeased
  <2>23. pc[w] = "read_plan" =>
           OtherSync(w)' \/ (mem'[m].rev = my[w].rows[m].rev /\ vec'[m] = mem'[m].rev)
    BY <1>3, <2>7, <2>10, <2>12, <2>13 DEF WorkerLeased
  <2>24. pc[w] \in {"write_graph", "ack"} =>
           /\ OtherSync(w)' \/ vec'[m] = mem'[m].rev
           /\ my[w].plan.revision # 0
           /\ plan'[m].revision = my[w].plan.revision \/ (OtherWaits(w)' /\ plan'[m].applied = 0)
    BY <1>3, <2>5, <2>7, <2>9, <2>10, <2>12, <2>13, <2>14 DEF WorkerLeased
  <2>25. pc[w] = "invalidate" =>
           /\ OtherWaits(w)' \/ Synced(m)'
           /\ OtherSync(w)' \/ ~Live(m)' \/ vec'[m] = mem'[m].rev
    BY <1>3, <2>5, <2>7, <2>9, <2>10, <2>12, <2>13, <2>17, <2>18 DEF WorkerLeased
  <2>26. (pc[w] = "delete_graph" => vec'[m] = 0) /\ (pc[w] = "ack" => graph'[m] = my[w].plan.revision)
    BY <1>3, <2>12 DEF WorkerLeased
  <2>27. my'[w].m = m
    BY <1>2, <1>3
  <2> HIDE DEF Live, Synced
  <2> QED
    BY <1>2, <1>3, <1>4, <2>2, <2>12, <2>20, <2>21, <2>22, <2>23, <2>24, <2>25, <2>26, <2>27 DEF WorkerLeased
<1> QED
  BY <1>5, <1>6

\* A step of a, given what it means to the others and to the memories.
LEMMA StepKeeps ==
  ASSUME IInv, NEW a, Others(a), TypeOK', CanonKept(a),
         LeasesLast' =>
           /\ LeasesLast /\ EventsKept(a)
           /\ \A b \in Actors : b # a /\ lease.live /\ lease.owner = b /\ pc[b] \in ForgetPcs \cup SyncPcs
                                => LeaseKept(b),
         a \in Clients => ClientBase(a)' /\ (LeasesLast' => ClientLeased(a)'),
         a \in Workers => WorkerBase(a)' /\ (LeasesLast' => WorkerLeased(a)'),
         \A m \in Memories : MemBase(m)' /\ (LeasesLast' => MemLeased(m)'),
         \A e \in Events : EventBase(e)'
  PROVE  IInv'
<1>1. ASSUME NEW c \in Clients PROVE ClientBase(c)' /\ (LeasesLast' => ClientLeased(c)')
  <2>1. CASE c = a
    BY <2>1
  <2>2. CASE c # a
    <3>1. ClientBase(c)'
      BY <2>2, ClientBaseKept
    <3>2. ASSUME LeasesLast' PROVE ClientLeased(c)'
      BY <2>2, <3>2, ClientLeasedKept DEF IInv, Leased, Actors
    <3> QED
      BY <3>1, <3>2
  <2> QED
    BY <2>1, <2>2
<1>2. ASSUME NEW w \in Workers PROVE WorkerBase(w)' /\ (LeasesLast' => WorkerLeased(w)')
  <2>1. CASE w = a
    BY <2>1
  <2>2. CASE w # a
    <3>1. WorkerBase(w)'
      BY <2>2, WorkerBaseKept
    <3>2. ASSUME LeasesLast' PROVE WorkerLeased(w)'
      <4>1. WorkerLeased(w) /\ (a \in Workers => WorkerLeased(a)) /\ EventsKept(a) /\ w \in Actors
        BY <3>2 DEF IInv, Leased, Actors
      <4>2. lease.live /\ lease.owner = w /\ pc[w] \in SyncPcs => LeaseKept(w)
        BY <2>2, <3>2, <4>1
      <4> QED
        BY <2>2, <4>1, <4>2, WorkerLeasedKept
    <3> QED
      BY <3>1, <3>2
  <2> QED
    BY <2>1, <2>2
<1>3. Base'
  BY <1>1, <1>2 DEF Base
<1>4. LeasesLast' => Leased'
  BY <1>1, <1>2 DEF Leased
<1> QED
  BY <1>3, <1>4 DEF IInv

-----------------------------------------------------------------------------
(* Steps that change no row, plan, tombstone or index.                     *)

StoresStill == UNCHANGED <<mem, tomb, plan, vec, graph, clock>>

\* Only a releases or takes the tenant lock for itself.
LockKept(a) == \A c \in Clients : c # a /\ tx = c => tx' = c

\* Only what is neither inactive nor tombstoned gets into a transaction.
WriteChecked(a) ==
  a \in Clients /\ pc'[a] \in Writing =>
    \/ pc[a] \in Writing /\ my'[a].m = my[a].m
    \/ mem[my'[a].m].status \notin Inactive /\ ~Tombstoned(my'[a].m)

EventsStay == \A e \in Events :
  IF events[e].status = "none" THEN events'[e].status = "none" /\ events'[e].owner = events[e].owner
  ELSE events'[e].kind = events[e].kind /\ events'[e].mem = events[e].mem /\ events'[e].status # "none"

\* Only what is done is completed, only after the last write is anything done, and claims
\* stand.
EventsOwn(a) ==
  /\ \A e \in Events : events'[e].status = "completed" => events[e].status = "completed" \/ Done(e)
  /\ a \in Workers /\ pc'[a] \in {"unlock", "finish"} /\ my'[a].ok =>
       pc[a] \in {"invalidate", "unlock", "finish"} /\ my[a].ok /\ my'[a].e = my[a].e
  /\ \A w \in Workers : w # a /\ pc[w] # "idle" /\ EventMine(w) => events'[my[w].e] = events[my[w].e]

LeaseStays(a) == \A b \in Actors :
  b # a /\ lease.live /\ lease.owner = b /\ pc[b] \in ForgetPcs \cup SyncPcs => lease' = lease

\* A forget is completed only if what it promises holds.
PromisesHold == \A p \in Memories : IsPromised(p)' => IsPromised(p) \/ Gone(p)

\* A step that leaves the events of others alone keeps every claim.
LEMMA EventsOwnKept ==
  ASSUME NEW a, Others(a), EventsStay, EventsOwn(a)
  PROVE  EventsKept(a)
<1>1. ASSUME NEW e \in Events, Done(e)'
      PROVE  Done(e) \/ (a \in Workers /\ pc[a] = "invalidate" /\ e = my[a].e)
  <2>1. PICK w \in Workers : pc'[w] \in {"unlock", "finish"} /\ my'[w].e = e /\ my'[w].ok
    BY <1>1 DEF Done
  <2>2. CASE w = a
    BY <2>1, <2>2 DEF EventsOwn, Done
  <2>3. CASE w # a
    BY <2>1, <2>3 DEF Others, Done, Actors
  <2> QED
    BY <2>2, <2>3
<1>2. ASSUME NEW e \in Events, NEW m \in Memories, Waits(e, m)
      PROVE  Waits(e, m)' \/ (a \in Workers /\ pc[a] = "invalidate" /\ e = my[a].e)
  <2>1. events[e].status # "none" /\ events[e].status # "completed" /\ ~Done(e) /\ events[e].mem = m
    BY <1>2 DEF Waits
  <2>2. events'[e].mem = m /\ events'[e].status # "none"
    BY <2>1 DEF EventsStay
  <2>3. events'[e].status # "completed"
    BY <2>1 DEF EventsOwn
  <2> QED
    BY <1>1, <2>1, <2>2, <2>3 DEF Waits
<1>3. \A e \in Events : events[e].status # "none" =>
        events'[e].kind = events[e].kind /\ events'[e].mem = events[e].mem /\ events'[e].status # "none"
  BY DEF EventsStay
<1> QED
  BY <1>2, <1>3 DEF EventsKept, EventsOwn

\* Nothing that is closed is entered again.
LEMMA ClosedStays ==
  ASSUME TypeOK, NEW a, Others(a), mem' = mem, tomb' = tomb, WriteChecked(a), a \in Clients => my'[a].m \in Memories,
         NEW p \in Memories, Closed(p)
  PROVE  Closed(p)'
<1>1. mem'[p].status \in Inactive /\ \A s \in SourcesOf[p] : tomb'[s] # "none"
  BY DEF Closed
<1>2. ASSUME NEW c \in Clients, pc'[c] \in Writing PROVE ~Affected(my'[c].m, p)
  <2>1. CASE c # a
    BY <1>2, <2>1 DEF Others, Closed, Actors
  <2>2. CASE c = a /\ pc[a] \in Writing /\ my'[a].m = my[a].m
    BY <2>2 DEF Closed
  <2>3. CASE c = a /\ mem[my'[a].m].status \notin Inactive /\ ~Tombstoned(my'[a].m)
    <3>1. PICK m \in Memories : m = my'[c].m
      BY <2>3
    <3>2. m # p
      BY <2>3, <3>1 DEF Closed
    <3>3. SourcesOf[m] \cap SourcesOf[p] = {}
      BY <2>3, <3>1 DEF Closed, Tombstoned
    <3> QED
      BY <3>1, <3>2, <3>3 DEF Affected
  <2> QED
    BY <1>2, <2>1, <2>2, <2>3 DEF WriteChecked
<1> QED
  BY <1>1, <1>2 DEF Closed, Affected

LEMMA LocalKeeps ==
  ASSUME IInv, NEW a, Others(a), TypeOK', StoresStill, LockKept(a), WriteChecked(a), EventsStay,
         LeasesLast' => LeasesLast /\ EventsOwn(a) /\ LeaseStays(a) /\ PromisesHold,
         a \in Clients => ClientBase(a)' /\ (LeasesLast' => ClientLeased(a)'),
         a \in Workers => WorkerBase(a)' /\ (LeasesLast' => WorkerLeased(a)')
  PROVE  IInv'
<1>1. TypeOK /\ (\A m \in Memories : MemBase(m)) /\ (\A e \in Events : EventBase(e))
  BY DEF IInv, Base
<1>2. mem' = mem /\ tomb' = tomb /\ plan' = plan /\ vec' = vec /\ graph' = graph /\ clock' = clock
  BY DEF StoresStill
<1>3. a \in Clients => my'[a].m \in Memories
  BY DEF TypeOK, Locals, Actors
<1>4. CanonKept(a)
  <2>1. \A p \in Memories : Closed(p) => Closed(p)'
    BY <1>1, <1>2, <1>3, ClosedStays
  <2> QED
    BY <1>2, <2>1 DEF CanonKept, LockKept
<1>5. ASSUME NEW m \in Memories PROVE (Live(m)' <=> Live(m)) /\ (Synced(m)' <=> Synced(m))
  BY <1>2 DEF Live, Synced, Tombstoned
<1>6. \A m \in Memories : MemBase(m)'
  BY <1>1, <1>2, <1>5 DEF MemBase
<1>7. ASSUME NEW e \in Events PROVE EventBase(e)'
  <2>1. EventBase(e) /\ mem' = mem /\ clock' = clock
    BY <1>1, <1>2
  <2> QED
    BY <2>1 DEF EventBase, EventsStay
<1>8. ASSUME LeasesLast' PROVE LeasesLast /\ EventsKept(a) /\ Leased
  BY <1>8, EventsOwnKept DEF IInv
<1>9. ASSUME LeasesLast', NEW b \in Actors, b # a, lease.live, lease.owner = b, pc[b] \in ForgetPcs \cup SyncPcs
      PROVE  LeaseKept(b)
  <2>1. lease' = lease
    BY <1>9 DEF LeaseStays
  <2> QED
    BY <1>2, <1>9, <2>1 DEF LeaseKept
<1>10. ASSUME LeasesLast', NEW m \in Memories PROVE MemLeased(m)'
  <2>1. MemLeased(m) /\ EventsKept(a) /\ (a \in Workers => WorkerLeased(a))
    BY <1>8, <1>10 DEF Leased
  <2>2. ASSUME a \in Workers, pc[a] = "invalidate", NEW e \in Events, e = my[a].e, Waits(e, m)
        PROVE  /\ Synced(m) \/ \E o \in Events : o # e /\ Waits(o, m)
               /\ ~Live(m) \/ vec[m] = mem[m].rev \/ \E o \in Events : o # e /\ Waits(o, m) /\ events[o].kind = "sync"
    <3>1. EventMine(a) /\ my[a].m = m
      BY <2>1, <2>2 DEF WorkerLeased, EventMine, Waits
    <3>2. OtherWaits(a) \/ Synced(m)
      BY <2>1, <2>2, <3>1 DEF WorkerLeased
    <3>3. OtherSync(a) \/ ~Live(m) \/ vec[m] = mem[m].rev
      BY <2>1, <2>2, <3>1 DEF WorkerLeased
    <3> QED
      BY <2>2, <3>1, <3>2, <3>3 DEF OtherWaits, OtherSync
  <2>3. ASSUME NEW e \in Events, Waits(e, m), ~(a \in Workers /\ pc[a] = "invalidate" /\ e = my[a].e)
        PROVE  Waits(e, m)' /\ events'[e].kind = events[e].kind
    BY <2>1, <2>3 DEF EventsKept, Waits
  <2>4. Synced(m)' \/ \E e \in Events : Waits(e, m)'
    BY <1>5, <2>1, <2>2, <2>3 DEF MemLeased
  <2>5. Live(m)' => vec'[m] = mem'[m].rev \/ \E e \in Events : Waits(e, m)' /\ events'[e].kind = "sync"
    <3>1. CASE \E e \in Events : Waits(e, m) /\ events[e].kind = "sync"
      <4>1. PICK e \in Events : Waits(e, m) /\ events[e].kind = "sync"
        BY <3>1
      <4>2. CASE ~(a \in Workers /\ pc[a] = "invalidate" /\ e = my[a].e)
        BY <2>3, <4>1, <4>2
      <4>3. CASE a \in Workers /\ pc[a] = "invalidate" /\ e = my[a].e
        <5>1. ~Live(m) \/ vec[m] = mem[m].rev \/ \E o \in Events : o # e /\ Waits(o, m) /\ events[o].kind = "sync"
          BY <2>2, <4>1, <4>3
        <5> QED
          BY <1>2, <1>5, <2>3, <4>3, <5>1
      <4> QED
        BY <4>2, <4>3
    <3>2. CASE ~\E e \in Events : Waits(e, m) /\ events[e].kind = "sync"
      BY <1>2, <1>5, <2>1, <3>2 DEF MemLeased
    <3> QED
      BY <3>1, <3>2
  <2>6. Live(m)' /\ plan'[m].applied = plan'[m].revision => graph'[m] = plan'[m].revision
    BY <1>2, <1>5, <2>1 DEF MemLeased
  <2>7. Gone(m) => Gone(m)'
    BY <1>2, <1>4 DEF Gone, CanonKept, Affected
  <2>8. IsPromised(m)' => Gone(m)'
    BY <1>10, <2>1, <2>7 DEF MemLeased, PromisesHold
  <2> QED
    BY <2>4, <2>5, <2>6, <2>8 DEF MemLeased
<1> HIDE DEF LeasesLast
<1> QED
  BY <1>4, <1>6, <1>7, <1>8, <1>9, <1>10, StepKeeps

-----------------------------------------------------------------------------
(* Local steps of clients.                                                 *)

\* What the invariant says of a client.
LEMMA ClientFacts ==
  ASSUME IInv, NEW c \in Clients
  PROVE  /\ TypeOK /\ c \in Actors /\ c \notin Workers /\ c # Nobody
         /\ pc[c] \in ClientPcs /\ ClientBase(c) /\ (LeasesLast => ClientLeased(c))
<1>1. TypeOK /\ c \in Actors /\ c \notin Workers /\ c # Nobody
  BY PropagationAssumption DEF IInv, Base, Actors
<1>2. ClientBase(c) /\ (LeasesLast => ClientLeased(c))
  BY DEF IInv, Base, Leased
<1> QED
  BY <1>1, <1>2 DEF ClientBase

\* The step of a client that writes no store keeps the invariant if it keeps the
\* clauses about that client.
LEMMA ClientLocal ==
  ASSUME IInv, NEW c \in Clients, NEW label \in PcValues, Goto(c, label),
         my' \in [Actors -> Locals], \A b \in Actors : b # c => my'[b] = my[b],
         UNCHANGED <<mem, tomb, plan, events, vec, graph, clock>>,
         forget' \in [Memories -> Progress], lease' \in [owner: Actors \cup {Nobody}, live: BOOLEAN],
         tx' \in Clients \cup {Nobody}, promised' \in SUBSET (Memories \X BOOLEAN),
         count' \in [calls: Nat, crashes: Nat, lapses: Nat], count'.lapses = count.lapses,
         LockKept(c), WriteChecked(c), LeasesLast => LeaseStays(c) /\ PromisesHold,
         ClientBase(c)', LeasesLast => ClientLeased(c)'
  PROVE  IInv'
<1>1. TypeOK /\ c \in Actors /\ c \notin Workers
  BY ClientFacts
<1>2. /\ mem' \in [Memories -> Row] /\ tomb' \in [Sources -> {"none", "soft", "redact"}]
      /\ plan' \in [Memories -> Plan] /\ events' \in [Events -> Event]
      /\ vec' \in [Memories -> Nat] /\ graph' \in [Memories -> Nat] /\ clock' \in 0 .. MaxClock
  BY <1>1 DEF TypeOK
<1>3. pc' \in [Actors -> PcValues] /\ \A b \in Actors : b # c => pc'[b] = pc[b]
  BY <1>1, GotoTyped
<1>4. TypeOK'
  BY <1>2, <1>3, TypeNext
<1>5. Others(c)
  BY <1>3 DEF Others
<1>6. events' = events /\ StoresStill
  BY DEF StoresStill
<1>7. EventsStay
  BY <1>6 DEF EventsStay
<1>8. EventsOwn(c)
  BY <1>1, <1>6 DEF EventsOwn
<1>9. LeasesLast' <=> LeasesLast
  BY DEF LeasesLast
<1> QED
  BY <1>1, <1>4, <1>5, <1>6, <1>7, <1>8, <1>9, LocalKeeps

\* A client outside the transactions and outside forget has nothing to keep.
LEMMA OutsideBase ==
  ASSUME NEW c \in Clients, pc'[c] \in {"idle", "replay"}
  PROVE  ClientBase(c)' /\ ClientLeased(c)' /\ WriteChecked(c)
BY DEF ClientBase, ClientLeased, WriteChecked, ClientPcs, ForgetPcs, Writing

\* A call that ends leaves a client with nothing.
LEMMA EndCallTyped ==
  ASSUME TypeOK, NEW a \in Actors, EndCall(a)
  PROVE  /\ Goto(a, "idle") /\ "idle" \in PcValues /\ pc'[a] = "idle"
         /\ my' \in [Actors -> Locals] /\ \A b \in Actors : b # a => my'[b] = my[b]
<1>1. Goto(a, "idle") /\ "idle" \in PcValues
  BY DEF EndCall, PcValues, ClientPcs
<1>2. my' \in [Actors -> Locals] /\ \A b \in Actors : b # a => my'[b] = my[b]
  BY NothingTyped DEF EndCall, TypeOK
<1> QED
  BY <1>1, <1>2, GotoTyped

\* Locals of one actor replaced.
LEMMA MineTyped ==
  ASSUME TypeOK, NEW a \in Actors, NEW l \in Locals, my' = [my EXCEPT ![a] = l]
  PROVE  /\ my' \in [Actors -> Locals] /\ my'[a] = l
         /\ \A b \in Actors : b # a => my'[b] = my[b]
BY DEF TypeOK

LEMMA IngestCheckKeeps ==
  ASSUME IInv, NEW c \in Clients, NEW m \in Memories, IngestCheck(c, m)
  PROVE  IInv'
<1>1. TypeOK /\ c \in Actors /\ my[c] \in Locals
  BY ClientFacts, Fields
<1>2. /\ Goto(c, "commit") /\ tx = Nobody /\ tx' = c /\ mem[m].status \notin Inactive /\ ~Tombstoned(m)
      /\ my' = [my EXCEPT ![c].m = m, ![c].redact = FALSE]
      /\ count' = [count EXCEPT !.calls = @ + 1]
      /\ UNCHANGED <<mem, tomb, plan, events, vec, graph, clock, forget, lease, promised>>
  BY DEF IngestCheck, BeginCall, canonical, indexes
<1>3. my' = [my EXCEPT ![c] = [my[c] EXCEPT !.m = m, !.redact = FALSE]]
  BY <1>1, <1>2 DEF TypeOK
<1>4. [my[c] EXCEPT !.m = m, !.redact = FALSE] \in Locals
  BY <1>1 DEF Locals
<1>5. my' \in [Actors -> Locals] /\ my'[c].m = m /\ \A b \in Actors : b # c => my'[b] = my[b]
  BY <1>1, <1>3, <1>4, MineTyped DEF Locals
<1>6. "commit" \in PcValues /\ pc'[c] = "commit"
  BY <1>1, <1>2, GotoTyped DEF PcValues, ClientPcs
<1>7. ClientBase(c)' /\ ClientLeased(c)' /\ WriteChecked(c)
  BY <1>2, <1>5, <1>6 DEF ClientBase, ClientLeased, WriteChecked, ClientPcs, ForgetPcs, Writing
<1>8. LockKept(c) /\ LeaseStays(c) /\ PromisesHold
  BY <1>2, ClientFacts DEF LockKept, LeaseStays, PromisesHold, IsPromised
<1>9. count' \in [calls: Nat, crashes: Nat, lapses: Nat] /\ count'.lapses = count.lapses
  BY <1>1, <1>2 DEF TypeOK
<1>10. forget' \in [Memories -> Progress] /\ lease' \in [owner: Actors \cup {Nobody}, live: BOOLEAN]
       /\ tx' \in Clients \cup {Nobody} /\ promised' \in SUBSET (Memories \X BOOLEAN)
  BY <1>1, <1>2 DEF TypeOK
<1> QED
  BY <1>2, <1>5, <1>6, <1>7, <1>8, <1>9, <1>10, ClientLocal

\* What get_memory returns is a row; an active one was active and had no tombstone.
LEMMA ProtectedRow ==
  ASSUME TypeOK, NEW m \in Memories
  PROVE  /\ Protected(m) \in Row /\ Protected(m).rev = mem[m].rev
         /\ Protected(m).clear => mem[m].clear
         /\ Protected(m).status = "active" => Live(m)
         /\ Live(m) => Protected(m).status = "active"
         /\ mem[m].status \in Inactive => Protected(m).status = mem[m].status
<1>1. mem[m] \in Row
  BY DEF TypeOK
<1> QED
  BY <1>1 DEF Protected, Row, Live, Inactive

LEMMA ReplayReadKeeps ==
  ASSUME IInv, NEW c \in Clients, NEW m \in Memories, ReplayRead(c, m)
  PROVE  IInv'
<1>1. TypeOK /\ c \in Actors /\ my[c] \in Locals /\ Protected(m) \in Row
  BY ClientFacts, Fields, ProtectedRow
<1>2. /\ Goto(c, "replay")
      /\ my' = [my EXCEPT ![c].m = m, ![c].rows = [@ EXCEPT ![m] = Protected(m)]]
      /\ count' = [count EXCEPT !.calls = @ + 1]
      /\ UNCHANGED <<mem, tomb, plan, events, vec, graph, clock, forget, lease, promised, tx>>
  BY DEF ReplayRead, canonical, indexes
<1>3. my' = [my EXCEPT ![c] = [my[c] EXCEPT !.m = m, !.rows = [@ EXCEPT ![m] = Protected(m)]]]
  BY <1>1, <1>2 DEF TypeOK
<1>4. [my[c] EXCEPT !.m = m, !.rows = [@ EXCEPT ![m] = Protected(m)]] \in Locals
  BY <1>1 DEF Locals
<1>5. my' \in [Actors -> Locals] /\ \A b \in Actors : b # c => my'[b] = my[b]
  BY <1>1, <1>3, <1>4, MineTyped
<1>6. "replay" \in PcValues /\ pc'[c] = "replay"
  BY <1>1, <1>2, GotoTyped DEF PcValues, ClientPcs
<1>7. ClientBase(c)' /\ ClientLeased(c)' /\ WriteChecked(c)
  BY <1>6, OutsideBase
<1>8. LockKept(c) /\ LeaseStays(c) /\ PromisesHold
  BY <1>2 DEF LockKept, LeaseStays, PromisesHold, IsPromised
<1>9. count' \in [calls: Nat, crashes: Nat, lapses: Nat] /\ count'.lapses = count.lapses
  BY <1>1, <1>2 DEF TypeOK
<1>10. forget' \in [Memories -> Progress] /\ lease' \in [owner: Actors \cup {Nobody}, live: BOOLEAN]
       /\ tx' \in Clients \cup {Nobody} /\ promised' \in SUBSET (Memories \X BOOLEAN)
  BY <1>1, <1>2 DEF TypeOK
<1> QED
  BY <1>2, <1>5, <1>6, <1>7, <1>8, <1>9, <1>10, ClientLocal

LEMMA ReplayCheckKeeps ==
  ASSUME IInv, NEW c \in Clients, ReplayCheck(c)
  PROVE  IInv'
<1>1. TypeOK /\ c \in Actors /\ my[c].m \in Memories
  BY ClientFacts, Fields
<1>2. /\ pc[c] = "replay" /\ tx = Nobody
      /\ UNCHANGED <<mem, tomb, plan, events, vec, graph, clock, forget, lease, promised, count>>
  BY DEF ReplayCheck, canonical, indexes
<1>3. LockKept(c) /\ LeaseStays(c) /\ PromisesHold
  BY <1>2, ClientFacts DEF LockKept, LeaseStays, PromisesHold, IsPromised
<1>4. /\ forget' \in [Memories -> Progress] /\ lease' \in [owner: Actors \cup {Nobody}, live: BOOLEAN]
      /\ promised' \in SUBSET (Memories \X BOOLEAN) /\ count' \in [calls: Nat, crashes: Nat, lapses: Nat]
      /\ count'.lapses = count.lapses
  BY <1>1, <1>2 DEF TypeOK
<1>5. CASE /\ mem[my[c].m].status = "active" /\ ~Tombstoned(my[c].m)
           /\ tx' = c /\ Goto(c, "replay_commit") /\ UNCHANGED my
  <2>1. "replay_commit" \in PcValues /\ pc'[c] = "replay_commit"
    BY <1>1, <1>5, GotoTyped DEF PcValues, ClientPcs
  <2>2. my' \in [Actors -> Locals] /\ tx' \in Clients \cup {Nobody}
    BY <1>1, <1>5 DEF TypeOK
  <2>3. ClientBase(c)' /\ ClientLeased(c)' /\ WriteChecked(c)
    BY <1>2, <1>5, <2>1 DEF ClientBase, ClientLeased, WriteChecked, ClientPcs, ForgetPcs, Writing, Inactive
  <2> QED
    BY <1>2, <1>3, <1>4, <1>5, <2>1, <2>2, <2>3, ClientLocal
<1>6. CASE EndCall(c) /\ UNCHANGED tx
  <2>1. /\ Goto(c, "idle") /\ "idle" \in PcValues /\ pc'[c] = "idle"
        /\ my' \in [Actors -> Locals] /\ \A b \in Actors : b # c => my'[b] = my[b]
    BY <1>1, <1>6, EndCallTyped
  <2>2. ClientBase(c)' /\ ClientLeased(c)' /\ WriteChecked(c)
    BY <2>1, OutsideBase
  <2>3. tx' \in Clients \cup {Nobody}
    BY <1>1, <1>6 DEF TypeOK
  <2> QED
    BY <1>2, <1>3, <1>4, <2>1, <2>2, <2>3, ClientLocal
<1> QED
  BY <1>5, <1>6 DEF ReplayCheck

LEMMA StartForgetKeeps ==
  ASSUME IInv, NEW c \in Clients, NEW m \in Memories, NEW redact \in BOOLEAN, StartForget(c, m, redact)
  PROVE  IInv'
<1>1. TypeOK /\ c \in Actors /\ my[c] \in Locals
  BY ClientFacts, Fields
<1>2. /\ Goto(c, "load") /\ ~lease.live /\ lease' = [owner |-> c, live |-> TRUE] /\ mem[m].status # "absent"
      /\ my' = [my EXCEPT ![c].m = m, ![c].redact = redact]
      /\ count' = [count EXCEPT !.calls = @ + 1]
      /\ UNCHANGED <<mem, tomb, plan, events, vec, graph, clock, forget, tx, promised>>
  BY DEF StartForget, BeginCall, canonical, indexes
<1>3. my' = [my EXCEPT ![c] = [my[c] EXCEPT !.m = m, !.redact = redact]]
  BY <1>1, <1>2 DEF TypeOK
<1>4. [my[c] EXCEPT !.m = m, !.redact = redact] \in Locals
  BY <1>1 DEF Locals
<1>5. my' \in [Actors -> Locals] /\ my'[c].m = m /\ \A b \in Actors : b # c => my'[b] = my[b]
  BY <1>1, <1>3, <1>4, MineTyped DEF Locals
<1>6. "load" \in PcValues /\ pc'[c] = "load"
  BY <1>1, <1>2, GotoTyped DEF PcValues, ClientPcs, ForgetPcs
<1>7. ClientBase(c)' /\ ClientLeased(c)' /\ WriteChecked(c)
  BY <1>2, <1>5, <1>6 DEF ClientBase, ClientLeased, WriteChecked, ClientPcs, ForgetPcs, Writing
<1>8. LockKept(c) /\ LeaseStays(c) /\ PromisesHold
  BY <1>2 DEF LockKept, LeaseStays, PromisesHold, IsPromised
<1>9. count' \in [calls: Nat, crashes: Nat, lapses: Nat] /\ count'.lapses = count.lapses
  BY <1>1, <1>2 DEF TypeOK
<1>10. forget' \in [Memories -> Progress] /\ lease' \in [owner: Actors \cup {Nobody}, live: BOOLEAN]
       /\ tx' \in Clients \cup {Nobody} /\ promised' \in SUBSET (Memories \X BOOLEAN)
  BY <1>1, <1>2 DEF TypeOK
<1> QED
  BY <1>2, <1>5, <1>6, <1>7, <1>8, <1>9, <1>10, ClientLocal

\* A local step of forget, under its lease.
LEMMA ForgetLocal ==
  ASSUME IInv, NEW c \in Clients, NEW label \in ForgetPcs, Goto(c, label),
         my' \in [Actors -> Locals], \A b \in Actors : b # c => my'[b] = my[b],
         UNCHANGED <<mem, tomb, plan, events, vec, graph, clock, lease, tx, count>>,
         forget' \in [Memories -> Progress], promised' \in SUBSET (Memories \X BOOLEAN),
         LeasesLast => PromisesHold, ClientBase(c)', LeasesLast => ClientLeased(c)'
  PROVE  IInv'
<1>1. TypeOK /\ c \in Actors
  BY ClientFacts
<1>2. label \in PcValues /\ pc'[c] = label /\ label \notin Writing
  BY <1>1, GotoTyped DEF PcValues, ClientPcs, ForgetPcs, Writing
<1>3. LockKept(c) /\ LeaseStays(c) /\ WriteChecked(c)
  BY <1>2 DEF LockKept, LeaseStays, WriteChecked
<1>4. /\ lease' \in [owner: Actors \cup {Nobody}, live: BOOLEAN]
      /\ tx' \in Clients \cup {Nobody} /\ count' \in [calls: Nat, crashes: Nat, lapses: Nat]
      /\ count'.lapses = count.lapses
  BY <1>1 DEF TypeOK
<1> QED
  BY <1>2, <1>3, <1>4, ClientLocal

\* Saving the progress of a forget.
LEMMA SavedPromises ==
  ASSUME TypeOK, NEW m \in Memories, NEW p \in Progress, forget' = [forget EXCEPT ![m] = p],
         promised' = promised \/ (\E redact \in BOOLEAN : promised' = promised \cup {<<m, redact>>}),
         LeasesLast /\ (p.status = "completed" \/ promised' # promised) => IsPromised(m) \/ Gone(m)
  PROVE  forget' \in [Memories -> Progress] /\ (LeasesLast => PromisesHold)
<1>1. forget' \in [Memories -> Progress] /\ forget'[m] = p /\ \A d \in Memories : d # m => forget'[d] = forget[d]
  BY DEF TypeOK
<1>2. ASSUME LeasesLast, NEW d \in Memories, IsPromised(d)' PROVE IsPromised(d) \/ Gone(d)
  <2>1. CASE d = m
    <3>1. CASE p.status = "completed" \/ promised' # promised
      BY <1>2, <2>1, <3>1
    <3>2. CASE p.status # "completed" /\ promised' = promised
      BY <1>1, <1>2, <2>1, <3>2 DEF IsPromised
    <3> QED
      BY <3>1, <3>2
  <2>2. CASE d # m
    <3>1. forget'[d] = forget[d] /\ \A redact \in BOOLEAN : <<d, redact>> \in promised' => <<d, redact>> \in promised
      BY <1>1, <2>2
    <3> QED
      BY <1>2, <3>1 DEF IsPromised
  <2> QED
    BY <2>1, <2>2
<1> QED
  BY <1>1, <1>2 DEF PromisesHold

LEMMA ForgetLoadKeeps ==
  ASSUME IInv, NEW c \in Clients, ForgetLoad(c)
  PROVE  IInv'
<1>1. TypeOK /\ c \in Actors /\ my[c] \in Locals /\ ClientBase(c) /\ (LeasesLast => ClientLeased(c))
  BY ClientFacts, Fields
<1>2. PICK m \in Memories : m = my[c].m /\ SourcesOf[m] \in SUBSET Sources /\ my[c].redact \in BOOLEAN
  BY <1>1, Fields
<1>3. Protected(m) \in Row /\ (Protected(m).clear => mem[m].clear)
  BY <1>1, ProtectedRow
<1>4. /\ pc[c] = "load"
      /\ UNCHANGED <<mem, tomb, plan, events, vec, graph, clock, lease, tx, count>>
  BY DEF ForgetLoad, indexes
<1>5. /\ LeasesLast => lease'.live /\ lease'.owner = c
      /\ mem'[m].status # "absent"
  BY <1>1, <1>2, <1>4 DEF ClientLeased, ClientBase, ForgetPcs
<1>6. CASE /\ forget[m].status = "completed"
           /\ promised' = promised \cup {<<m, my[c].redact>>}
           /\ Goto(c, "release") /\ UNCHANGED <<forget, my>>
  <2>1. PromisesHold
    BY <1>6 DEF PromisesHold, IsPromised
  <2>2. "release" \in ForgetPcs /\ "release" \in PcValues /\ pc'[c] = "release"
    BY <1>1, <1>6, GotoTyped DEF ForgetPcs, PcValues, ClientPcs
  <2>3. ClientBase(c)' /\ (LeasesLast => ClientLeased(c)')
    BY <1>2, <1>5, <1>6, <2>2 DEF ClientBase, ClientLeased, ClientPcs, Writing
  <2>4. my' \in [Actors -> Locals] /\ forget' \in [Memories -> Progress]
        /\ promised' \in SUBSET (Memories \X BOOLEAN)
    BY <1>1, <1>2, <1>6 DEF TypeOK
  <2>5. \A b \in Actors : b # c => my'[b] = my[b]
    BY <1>6
  <2> QED
    BY <1>4, <1>6, <2>1, <2>2, <2>3, <2>4, <2>5, ForgetLocal
<1>7. CASE /\ forget' = [forget EXCEPT ![m].status = "incomplete"]
           /\ my' = [my EXCEPT ![c].rows = [@ EXCEPT ![m] = Protected(m)], ![c].todo = SourcesOf[m]]
           /\ Goto(c, "tomb") /\ UNCHANGED promised
  <2>1. my' = [my EXCEPT ![c] = [my[c] EXCEPT !.rows = [@ EXCEPT ![m] = Protected(m)], !.todo = SourcesOf[m]]]
    BY <1>1, <1>7 DEF TypeOK
  <2>2. /\ [my[c] EXCEPT !.rows = [@ EXCEPT ![m] = Protected(m)], !.todo = SourcesOf[m]] \in Locals
        /\ [my[c] EXCEPT !.rows = [@ EXCEPT ![m] = Protected(m)], !.todo = SourcesOf[m]].rows[m] = Protected(m)
    BY <1>1, <1>2, <1>3 DEF Locals
  <2>3. /\ my' \in [Actors -> Locals] /\ \A b \in Actors : b # c => my'[b] = my[b]
        /\ my'[c].m = m /\ my'[c].todo = SourcesOf[m] /\ my'[c].rows[m] = Protected(m)
    BY <1>1, <1>2, <2>1, <2>2, MineTyped DEF Locals
  <2>4. "tomb" \in ForgetPcs /\ "tomb" \in PcValues /\ pc'[c] = "tomb"
    BY <1>1, <1>7, GotoTyped DEF ForgetPcs, PcValues, ClientPcs
  <2>5. ClientBase(c)' /\ (LeasesLast => ClientLeased(c)')
    BY <1>3, <1>4, <1>5, <2>3, <2>4 DEF ClientBase, ClientLeased, ClientPcs, Writing
  <2>6. forget[m] \in Progress
    BY <1>1 DEF TypeOK
  <2>7. forget' \in [Memories -> Progress] /\ (LeasesLast => PromisesHold)
    <3> DEFINE p == [forget[m] EXCEPT !.status = "incomplete"]
    <3>1. p \in Progress /\ p.status = "incomplete"
      BY <2>6 DEF Progress
    <3>2. forget' = [forget EXCEPT ![m] = p]
      BY <1>7
    <3> HIDE DEF p
    <3> QED
      BY <1>1, <1>7, <3>1, <3>2, SavedPromises
  <2>8. promised' \in SUBSET (Memories \X BOOLEAN)
    BY <1>1, <1>7 DEF TypeOK
  <2> QED
    BY <1>4, <1>7, <2>3, <2>4, <2>5, <2>7, <2>8, ForgetLocal
<1> QED
  BY <1>2, <1>6, <1>7 DEF ForgetLoad, AlreadyForgotten

\* What forget makes of a row is inactive and shows no more than the row did.
LEMMA ForgottenRow ==
  ASSUME NEW row \in Row, NEW redact \in BOOLEAN
  PROVE  /\ Forgotten(row, redact) \in Row /\ Forgotten(row, redact).status \in Inactive
         /\ Forgotten(row, redact).clear => row.clear
BY DEF Forgotten, Row, Inactive

LEMMA ForgetMarkKeeps ==
  ASSUME IInv, NEW c \in Clients, ForgetMark(c)
  PROVE  IInv'
<1>1. TypeOK /\ c \in Actors /\ my[c] \in Locals /\ ClientBase(c) /\ (LeasesLast => ClientLeased(c))
  BY ClientFacts, Fields
<1>2. PICK m \in Memories : m = my[c].m /\ my[c].rows[m] \in Row /\ my[c].redact \in BOOLEAN
  BY <1>1, Fields
<1>3. PICK row \in Row : row = Forgotten(my[c].rows[m], my[c].redact) /\ row.status \in Inactive
                         /\ (row.clear => my[c].rows[m].clear)
  BY <1>2, ForgottenRow
<1>4. /\ pc[c] = "mark" /\ Goto(c, "update")
      /\ forget' = [forget EXCEPT ![m].redaction = @ \/ (my[c].redact /\ my[c].rows[m].status # "redacted")]
      /\ my' = [my EXCEPT ![c].rows[m] = row]
      /\ UNCHANGED <<mem, tomb, plan, events, vec, graph, clock, lease, tx, count, promised>>
  BY <1>1, <1>2, <1>3 DEF ForgetMark, indexes, TypeOK, Locals
<1>5. my' = [my EXCEPT ![c] = [my[c] EXCEPT !.rows = [@ EXCEPT ![m] = row]]]
  BY <1>1, <1>4 DEF TypeOK
<1>6. /\ [my[c] EXCEPT !.rows = [@ EXCEPT ![m] = row]] \in Locals
      /\ [my[c] EXCEPT !.rows = [@ EXCEPT ![m] = row]].rows[m] = row
  BY <1>1, <1>2 DEF Locals
<1>7. /\ my' \in [Actors -> Locals] /\ \A b \in Actors : b # c => my'[b] = my[b]
      /\ my'[c].m = m /\ my'[c].rows[m] = row
  BY <1>1, <1>2, <1>5, <1>6, MineTyped DEF Locals
<1>8. "update" \in ForgetPcs /\ "update" \in PcValues /\ pc'[c] = "update"
  BY <1>1, <1>4, GotoTyped DEF ForgetPcs, PcValues, ClientPcs
<1>9. ClientBase(c)'
  BY <1>1, <1>2, <1>3, <1>4, <1>7, <1>8 DEF ClientBase, ClientPcs, Writing
<1>10. LeasesLast => ClientLeased(c)'
  BY <1>1, <1>2, <1>3, <1>4, <1>7, <1>8 DEF ClientLeased, ForgetPcs
<1>11. PICK p \in Progress :
         /\ p = [forget[m] EXCEPT !.redaction = @ \/ (my[c].redact /\ my[c].rows[m].status # "redacted")]
         /\ p.status = forget[m].status
  <2>1. PICK b \in BOOLEAN : b = (forget[m].redaction \/ (my[c].redact /\ my[c].rows[m].status # "redacted"))
    OBVIOUS
  <2>2. forget[m] \in Progress
    BY <1>1 DEF TypeOK
  <2>3. [forget[m] EXCEPT !.redaction = b] \in Progress /\ [forget[m] EXCEPT !.redaction = b].status = forget[m].status
    BY <2>2 DEF Progress
  <2> QED
    BY <2>1, <2>3
<1>12. forget' \in [Memories -> Progress] /\ (LeasesLast => PromisesHold)
  <2>1. forget' = [forget EXCEPT ![m] = p]
    BY <1>4, <1>11
  <2>2. p.status = "completed" => IsPromised(m)
    BY <1>11 DEF IsPromised
  <2> QED
    BY <1>1, <1>4, <2>1, <2>2, SavedPromises
<1>13. promised' \in SUBSET (Memories \X BOOLEAN)
  BY <1>1, <1>4 DEF TypeOK
<1> QED
  BY <1>4, <1>7, <1>8, <1>9, <1>10, <1>12, <1>13, ForgetLocal

LEMMA ForgetListKeeps ==
  ASSUME IInv, NEW c \in Clients, ForgetList(c)
  PROVE  IInv'
<1>1. TypeOK /\ c \in Actors /\ my[c] \in Locals /\ ClientBase(c) /\ (LeasesLast => ClientLeased(c))
  BY ClientFacts, Fields
<1>2. PICK m \in Memories : m = my[c].m
  BY <1>1, Fields
<1>3. /\ pc[c] = "list"
      /\ UNCHANGED <<mem, tomb, plan, events, vec, graph, clock, lease, tx, count, forget, promised>>
  BY DEF ForgetList, indexes, canonical
<1>4. forget' \in [Memories -> Progress] /\ promised' \in SUBSET (Memories \X BOOLEAN) /\ PromisesHold
  BY <1>1, <1>3 DEF TypeOK, PromisesHold, IsPromised
<1>5. /\ LeasesLast => lease'.live /\ lease'.owner = c
      /\ mem'[m].status # "absent"
  BY <1>1, <1>2, <1>3 DEF ClientLeased, ClientBase, ForgetPcs
<1>6. Closed(m)
  BY <1>1, <1>2, <1>3 DEF ClientBase
<1>7. ASSUME NEW label \in {"cascade", "answer"}, Goto(c, label), \A b \in Actors : b # c => my'[b] = my[b], my'[c].m = m
      PROVE  Closed(m)'
  <2>1. pc'[c] = label /\ label \notin Writing /\ \A b \in Actors : b # c => pc'[b] = pc[b]
    BY <1>1, <1>7, GotoTyped DEF PcValues, ClientPcs, ForgetPcs, Writing
  <2>2. Others(c) /\ WriteChecked(c)
    BY <1>7, <2>1 DEF Others, WriteChecked
  <2> QED
    BY <1>1, <1>2, <1>3, <1>6, <1>7, <2>2, ClosedStays
<1>8. CASE /\ my' = [my EXCEPT ![c].rows = mem, ![c].todo = Sharers(m), ![c].affected = Sharers(m) \cup {m}]
           /\ Goto(c, "cascade")
  <2>1. my' = [my EXCEPT ![c] = [my[c] EXCEPT !.rows = mem, !.todo = Sharers(m), !.affected = Sharers(m) \cup {m}]]
    BY <1>1, <1>8 DEF TypeOK
  <2>2. [my[c] EXCEPT !.rows = mem, !.todo = Sharers(m), !.affected = Sharers(m) \cup {m}] \in Locals
    BY <1>1 DEF TypeOK, Locals, Sharers
  <2>3. /\ my' \in [Actors -> Locals] /\ \A b \in Actors : b # c => my'[b] = my[b]
        /\ my'[c].m = m /\ my'[c].todo = Sharers(m) /\ my'[c].affected = Sharers(m) \cup {m} /\ my'[c].rows = mem
    BY <1>1, <1>2, <2>1, <2>2, MineTyped DEF Locals
  <2>4. "cascade" \in ForgetPcs /\ "cascade" \in PcValues /\ pc'[c] = "cascade"
    BY <1>1, <1>8, GotoTyped DEF ForgetPcs, PcValues, ClientPcs
  <2>5. Closed(m)'
    BY <1>7, <1>8, <2>3
  <2>6. /\ \A d \in Sharers(m) \cup {m} : Affected(d, m)
        /\ \A d \in Sharers(m) : mem'[d].status # "absent"
    BY <1>3 DEF Sharers, Affected
  <2>7. ClientBase(c)'
    BY <1>5, <2>3, <2>4, <2>5, <2>6 DEF ClientBase, ClientPcs, ForgetPcs, Writing, Affected
  <2>8. mem[m].status # "active"
    BY <1>6 DEF Closed, Inactive
  <2>9. \A d \in Memories : Affected(d, m) => d \in Sharers(m) \cup {m} \/ mem[d].status = "absent"
    BY DEF Sharers, Affected
  <2>10. LeasesLast => ClientLeased(c)'
    BY <1>3, <1>5, <2>3, <2>4, <2>8, <2>9 DEF ClientLeased, Affected
  <2> QED
    BY <1>3, <1>4, <1>8, <2>3, <2>4, <2>7, <2>10, ForgetLocal
<1>9. CASE my' = [my EXCEPT ![c].ok = FALSE] /\ Goto(c, "answer")
  <2>1. my' = [my EXCEPT ![c] = [my[c] EXCEPT !.ok = FALSE]]
    BY <1>1, <1>9 DEF TypeOK
  <2>2. [my[c] EXCEPT !.ok = FALSE] \in Locals
    BY <1>1 DEF Locals
  <2>3. /\ my' \in [Actors -> Locals] /\ \A b \in Actors : b # c => my'[b] = my[b]
        /\ my'[c].m = m /\ ~my'[c].ok
    BY <1>1, <1>2, <2>1, <2>2, MineTyped DEF Locals
  <2>4. "answer" \in ForgetPcs /\ "answer" \in PcValues /\ pc'[c] = "answer"
    BY <1>1, <1>9, GotoTyped DEF ForgetPcs, PcValues, ClientPcs
  <2>5. Closed(m)'
    BY <1>7, <1>9, <2>3
  <2>6. ClientBase(c)'
    BY <1>5, <2>3, <2>4, <2>5 DEF ClientBase, ClientPcs, ForgetPcs, Writing
  <2>7. LeasesLast => ClientLeased(c)'
    BY <1>5, <2>3, <2>4 DEF ClientLeased
  <2> QED
    BY <1>3, <1>4, <1>9, <2>3, <2>4, <2>6, <2>7, ForgetLocal
<1> QED
  BY <1>2, <1>8, <1>9 DEF ForgetList

LEMMA ForgetAnswerKeeps ==
  ASSUME IInv, NEW c \in Clients, ForgetAnswer(c)
  PROVE  IInv'
<1>1. TypeOK /\ c \in Actors /\ ClientBase(c) /\ (LeasesLast => ClientLeased(c))
  BY ClientFacts
<1>2. PICK m \in Memories : m = my[c].m /\ my[c].redact \in BOOLEAN
  BY <1>1, Fields
<1>3. /\ pc[c] = "answer" /\ Goto(c, "release")
      /\ UNCHANGED <<mem, tomb, plan, events, vec, graph, clock, lease, tx, count, my>>
  BY DEF ForgetAnswer, indexes
<1>4. \/ my[c].ok /\ forget' = [forget EXCEPT ![m].status = "completed"] /\ promised' = promised \cup {<<m, my[c].redact>>}
      \/ UNCHANGED <<forget, promised>>
  BY <1>2 DEF ForgetAnswer
<1>5. ASSUME LeasesLast, my[c].ok PROVE Gone(m)
  <2>1. Closed(m)
    BY <1>1, <1>2, <1>3 DEF ClientBase
  <2>2. ASSUME NEW d \in Memories, Affected(d, m) PROVE mem[d].status # "active" /\ vec[d] = 0 /\ graph[d] = 0
    <3>1. d \in my[c].affected \/ mem[d].status = "absent"
      BY <1>1, <1>2, <1>3, <1>5, <2>2 DEF ClientLeased
    <3>2. MemBase(d)
      BY DEF IInv, Base
    <3> QED
      BY <1>1, <1>3, <1>5, <3>1, <3>2 DEF ClientLeased, MemBase
  <2> QED
    BY <2>1, <2>2 DEF Gone
<1>6. forget' \in [Memories -> Progress] /\ (LeasesLast => PromisesHold)
  <2>1. CASE my[c].ok /\ forget' = [forget EXCEPT ![m].status = "completed"] /\ promised' = promised \cup {<<m, my[c].redact>>}
    <3>1. forget[m] \in Progress
      BY <1>1 DEF TypeOK
    <3>2. PICK p \in Progress : p = [forget[m] EXCEPT !.status = "completed"]
      BY <3>1 DEF Progress
    <3>3. forget' = [forget EXCEPT ![m] = p]
      BY <2>1, <3>2
    <3> QED
      BY <1>1, <1>2, <1>5, <2>1, <3>3, SavedPromises
  <2>2. CASE UNCHANGED <<forget, promised>>
    BY <1>1, <2>2 DEF PromisesHold, IsPromised, TypeOK
  <2> QED
    BY <1>4, <2>1, <2>2
<1>7. "release" \in ForgetPcs /\ "release" \in PcValues /\ pc'[c] = "release"
  BY <1>1, <1>3, GotoTyped DEF ForgetPcs, PcValues, ClientPcs
<1>8. ClientBase(c)' /\ (LeasesLast => ClientLeased(c)')
  BY <1>1, <1>3, <1>7 DEF ClientBase, ClientLeased, ClientPcs, ForgetPcs, Writing
<1>9. my' \in [Actors -> Locals] /\ promised' \in SUBSET (Memories \X BOOLEAN)
  BY <1>1, <1>2, <1>3, <1>4 DEF TypeOK
<1>10. \A b \in Actors : b # c => my'[b] = my[b]
  BY <1>3
<1> QED
  BY <1>3, <1>6, <1>7, <1>8, <1>9, <1>10, ForgetLocal

LEMMA ForgetErrorKeeps ==
  ASSUME IInv, NEW c \in Clients, ForgetError(c)
  PROVE  IInv'
<1>1. TypeOK /\ c \in Actors /\ (LeasesLast => ClientLeased(c))
  BY ClientFacts
<1>2. /\ pc[c] \in ForgetPcs /\ Goto(c, "release")
      /\ UNCHANGED <<mem, tomb, plan, events, vec, graph, clock, lease, tx, count, my, forget, promised>>
  BY DEF ForgetError, canonical, indexes, ForgetPcs
<1>3. "release" \in ForgetPcs /\ "release" \in PcValues /\ pc'[c] = "release"
  BY <1>1, <1>2, GotoTyped DEF ForgetPcs, PcValues, ClientPcs
<1>4. ClientBase(c)' /\ (LeasesLast => ClientLeased(c)')
  <2>1. my[c].m \in Memories /\ mem[my[c].m].status # "absent"
    BY <1>1, <1>2, ClientFacts, Fields DEF ClientBase
  <2> QED
    BY <1>1, <1>2, <1>3, <2>1 DEF ClientBase, ClientLeased, ClientPcs, Writing
<1>5. /\ my' \in [Actors -> Locals] /\ forget' \in [Memories -> Progress]
      /\ promised' \in SUBSET (Memories \X BOOLEAN) /\ PromisesHold
  BY <1>1, <1>2 DEF TypeOK, PromisesHold, IsPromised
<1>6. \A b \in Actors : b # c => my'[b] = my[b]
  BY <1>2
<1> QED
  BY <1>2, <1>3, <1>4, <1>5, <1>6, ForgetLocal

\* Freeing a lease touches one's own only.
LEMMA FreeLeaseTyped ==
  ASSUME TypeOK, NEW a \in Actors, FreeLease(a)
  PROVE  lease' \in [owner: Actors \cup {Nobody}, live: BOOLEAN] /\ LeaseStays(a)
BY DEF FreeLease, TypeOK, LeaseStays

LEMMA ForgetReleaseKeeps ==
  ASSUME IInv, NEW c \in Clients, ForgetRelease(c)
  PROVE  IInv'
<1>1. TypeOK /\ c \in Actors
  BY ClientFacts
<1>2. /\ FreeLease(c) /\ EndCall(c)
      /\ UNCHANGED <<mem, tomb, plan, events, vec, graph, clock, tx, count, forget, promised>>
  BY DEF ForgetRelease, canonical, indexes
<1>3. /\ Goto(c, "idle") /\ "idle" \in PcValues /\ pc'[c] = "idle"
      /\ my' \in [Actors -> Locals] /\ \A b \in Actors : b # c => my'[b] = my[b]
  BY <1>1, <1>2, EndCallTyped
<1>4. ClientBase(c)' /\ ClientLeased(c)' /\ WriteChecked(c)
  BY <1>3, OutsideBase
<1>5. lease' \in [owner: Actors \cup {Nobody}, live: BOOLEAN] /\ LeaseStays(c)
  BY <1>1, <1>2, FreeLeaseTyped
<1>6. LockKept(c) /\ PromisesHold
  BY <1>2 DEF LockKept, PromisesHold, IsPromised
<1>7. /\ forget' \in [Memories -> Progress] /\ tx' \in Clients \cup {Nobody}
      /\ promised' \in SUBSET (Memories \X BOOLEAN) /\ count' \in [calls: Nat, crashes: Nat, lapses: Nat]
      /\ count'.lapses = count.lapses
  BY <1>1, <1>2 DEF TypeOK
<1> QED
  BY <1>2, <1>3, <1>4, <1>5, <1>6, <1>7, ClientLocal

-----------------------------------------------------------------------------
(* Local steps of workers, and crashes.                                    *)

\* What the invariant says of a worker.
LEMMA WorkerFacts ==
  ASSUME IInv, NEW w \in Workers
  PROVE  /\ TypeOK /\ w \in Actors /\ w \notin Clients /\ w # Nobody
         /\ pc[w] \in WorkerPcs /\ WorkerBase(w) /\ (LeasesLast => WorkerLeased(w))
<1>1. TypeOK /\ w \in Actors /\ w \notin Clients /\ w # Nobody
  BY PropagationAssumption DEF IInv, Base, Actors
<1>2. WorkerBase(w) /\ (LeasesLast => WorkerLeased(w))
  BY DEF IInv, Base, Leased
<1> QED
  BY <1>1, <1>2 DEF WorkerBase

\* The step of a worker that writes no store keeps the invariant likewise.
LEMMA WorkerLocal ==
  ASSUME IInv, NEW w \in Workers, NEW label \in WorkerPcs \ {"idle"}, Goto(w, label), pc[w] # "idle",
         my' \in [Actors -> Locals], \A b \in Actors : b # w => my'[b] = my[b],
         my'[w].m = my[w].m, my'[w].e = my[w].e,
         UNCHANGED <<mem, tomb, plan, events, vec, graph, clock, forget, promised, tx, count>>,
         lease' \in [owner: Actors \cup {Nobody}, live: BOOLEAN], LeasesLast => LeaseStays(w),
         label \in {"unlock", "finish"} /\ my'[w].ok => pc[w] \in {"invalidate", "unlock", "finish"} /\ my[w].ok,
         LeasesLast => WorkerLeased(w)'
  PROVE  IInv'
<1>1. TypeOK /\ w \in Actors /\ w \notin Clients /\ WorkerBase(w) /\ w # Nobody
  BY WorkerFacts
<1>2. /\ mem' \in [Memories -> Row] /\ tomb' \in [Sources -> {"none", "soft", "redact"}]
      /\ plan' \in [Memories -> Plan] /\ events' \in [Events -> Event]
      /\ vec' \in [Memories -> Nat] /\ graph' \in [Memories -> Nat] /\ clock' \in 0 .. MaxClock
      /\ forget' \in [Memories -> Progress] /\ promised' \in SUBSET (Memories \X BOOLEAN)
      /\ tx' \in Clients \cup {Nobody} /\ count' \in [calls: Nat, crashes: Nat, lapses: Nat]
  BY <1>1 DEF TypeOK
<1>3. pc' \in [Actors -> PcValues] /\ pc'[w] = label /\ \A b \in Actors : b # w => pc'[b] = pc[b]
  BY <1>1, GotoTyped DEF PcValues
<1>4. TypeOK'
  BY <1>2, <1>3, TypeNext
<1>5. Others(w)
  BY <1>3 DEF Others
<1>6. EventsStay /\ StoresStill /\ LockKept(w) /\ WriteChecked(w) /\ PromisesHold
  BY <1>1 DEF EventsStay, StoresStill, LockKept, WriteChecked, PromisesHold, IsPromised
<1>7. EventsOwn(w)
  BY <1>3 DEF EventsOwn
<1>8. WorkerBase(w)'
  BY <1>1, <1>3 DEF WorkerBase
<1>9. LeasesLast' <=> LeasesLast
  BY DEF LeasesLast
<1> QED
  BY <1>1, <1>4, <1>5, <1>6, <1>7, <1>8, <1>9, LocalKeeps

\* Locals that differ in ok only.
LEMMA FailTyped ==
  ASSUME IInv, NEW a \in Actors, my' = [my EXCEPT ![a].ok = FALSE]
  PROVE  /\ my' \in [Actors -> Locals] /\ \A b \in Actors : b # a => my'[b] = my[b]
         /\ my'[a].m = my[a].m /\ my'[a].e = my[a].e /\ ~my'[a].ok
<1>1. TypeOK /\ my[a] \in Locals
  BY Fields DEF IInv, Base
<1>2. my' = [my EXCEPT ![a] = [my[a] EXCEPT !.ok = FALSE]]
  BY <1>1 DEF TypeOK
<1>3. [my[a] EXCEPT !.ok = FALSE] \in Locals
  BY <1>1 DEF Locals
<1> QED
  BY <1>1, <1>2, <1>3, MineTyped DEF Locals

\* The end of a synchronisation needs the claim and, until it is freed, the lease.
LEMMA EndLeased ==
  ASSUME NEW w \in Workers, EventMine(w), pc'[w] \in {"unlock", "finish"}, events' = events,
         my'[w].m = my[w].m, my'[w].e = my[w].e, pc'[w] = "unlock" => lease'.live /\ lease'.owner = w
  PROVE  WorkerLeased(w)'
BY DEF WorkerLeased, EventMine, SyncPcs

LEMMA FailKeeps ==
  ASSUME IInv, NEW w \in Workers, NEW label \in {"unlock", "finish"}, Fail(w, label),
         pc[w] # "idle", label = "unlock" => pc[w] \in SyncPcs,
         UNCHANGED <<mem, tomb, plan, events, vec, graph, clock, forget, promised, tx, count, lease>>
  PROVE  IInv'
<1>1. TypeOK /\ w \in Actors /\ (LeasesLast => WorkerLeased(w))
  BY WorkerFacts
<1>2. Goto(w, label) /\ label \in WorkerPcs \ {"idle"} /\ my' = [my EXCEPT ![w].ok = FALSE]
  BY DEF Fail, WorkerPcs, SyncPcs
<1>3. /\ my' \in [Actors -> Locals] /\ \A b \in Actors : b # w => my'[b] = my[b]
      /\ my'[w].m = my[w].m /\ my'[w].e = my[w].e /\ ~my'[w].ok
  BY <1>1, <1>2, FailTyped
<1>4. pc'[w] = label
  BY <1>1, <1>2, GotoTyped DEF PcValues
<1>5. LeasesLast => WorkerLeased(w)'
  BY <1>1, <1>3, <1>4, EndLeased DEF WorkerLeased
<1>6. lease' \in [owner: Actors \cup {Nobody}, live: BOOLEAN] /\ LeaseStays(w)
  BY <1>1 DEF TypeOK, LeaseStays
<1> QED
  BY <1>2, <1>3, <1>5, <1>6, WorkerLocal

\* Under its lease a worker can always renew, and no lease changes hands.
LEMMA RenewedFacts ==
  ASSUME IInv, NEW w \in Workers, pc[w] \in SyncPcs, CanRenew(w), lease' = [owner |-> w, live |-> TRUE]
  PROVE  /\ lease' \in [owner: Actors \cup {Nobody}, live: BOOLEAN]
         /\ lease'.live /\ lease'.owner = w /\ LeaseStays(w)
<1>1. w \in Actors
  BY DEF Actors
<1>2. lease.owner = w \/ ~lease.live
  BY DEF CanRenew
<1> QED
  BY <1>1, <1>2 DEF LeaseStays

\* While no lease lapses, a worker in the middle of an event can renew both leases.
LEMMA CanAlwaysRenew ==
  ASSUME IInv, LeasesLast, NEW w \in Workers, pc[w] \in SyncPcs
  PROVE  CanRenew(w) /\ EventMine(w) /\ lease.live /\ lease.owner = w
<1>1. WorkerLeased(w) /\ pc[w] # "idle"
  BY WorkerFacts DEF SyncPcs
<1> QED
  BY <1>1 DEF WorkerLeased, EventMine, CanRenew

LEMMA TakeLeaseKeeps ==
  ASSUME IInv, NEW w \in Workers, TakeLease(w)
  PROVE  IInv'
<1>1. TypeOK /\ w \in Actors /\ (LeasesLast => WorkerLeased(w))
  BY WorkerFacts
<1>2. /\ pc[w] = "lease"
      /\ UNCHANGED <<mem, tomb, plan, events, vec, graph, clock, forget, promised, tx, count>>
  BY DEF TakeLease, canonical, indexes
<1>3. CASE Fail(w, "finish") /\ UNCHANGED lease
  BY <1>2, <1>3, FailKeeps
<1>4. CASE ~lease.live /\ lease' = [owner |-> w, live |-> TRUE] /\ Goto(w, "read") /\ UNCHANGED my
  <2>1. "read" \in WorkerPcs \ {"idle"} /\ pc'[w] = "read"
    BY <1>1, <1>4, GotoTyped DEF WorkerPcs, SyncPcs, PcValues
  <2>2. my' \in [Actors -> Locals] /\ \A b \in Actors : b # w => my'[b] = my[b]
    BY <1>1, <1>4 DEF TypeOK
  <2>3. lease' \in [owner: Actors \cup {Nobody}, live: BOOLEAN] /\ LeaseStays(w)
    BY <1>1, <1>4 DEF LeaseStays
  <2>4. LeasesLast => WorkerLeased(w)'
    BY <1>1, <1>2, <1>4, <2>1 DEF WorkerLeased, EventMine
  <2> QED
    BY <1>2, <1>4, <2>1, <2>2, <2>3, <2>4, WorkerLocal
<1> QED
  BY <1>3, <1>4 DEF TakeLease

\* The record is read: what is written afterwards is up to date or another event follows.
LEMMA ReadRecordKeeps ==
  ASSUME IInv, NEW w \in Workers, ReadRecord(w)
  PROVE  IInv'
<1>1. TypeOK /\ w \in Actors /\ my[w] \in Locals /\ (LeasesLast => WorkerLeased(w))
  BY WorkerFacts, Fields
<1>2. PICK m \in Memories : m = my[w].m
  BY <1>1, Fields
<1>3. PICK r \in Row : /\ r = Protected(m) /\ r.rev = mem[m].rev /\ (r.status = "active" <=> Live(m))
  BY <1>1, ProtectedRow
<1>4. /\ pc[w] = "read" /\ pc[w] \in SyncPcs
      /\ UNCHANGED <<mem, tomb, plan, events, vec, graph, clock, forget, promised, tx, count>>
  BY DEF ReadRecord, canonical, indexes, SyncPcs
<1> DEFINE next == IF r.status # "active" THEN "delete_vec"
                   ELSE IF events[my[w].e].kind = "sync" THEN "write_vec" ELSE "read_plan"
<1>5. CASE Fail(w, "unlock") /\ UNCHANGED lease
  BY <1>4, <1>5, FailKeeps
<1>6. CASE /\ CanRenew(w) \/ next = "read_plan"
           /\ my' = [my EXCEPT ![w].rows[m] = r]
           /\ Goto(w, next)
           /\ lease' = IF next = "read_plan" THEN lease ELSE [owner |-> w, live |-> TRUE]
  <2>1. my' = [my EXCEPT ![w] = [my[w] EXCEPT !.rows = [@ EXCEPT ![m] = r]]]
    BY <1>1, <1>6 DEF TypeOK
  <2>2. /\ [my[w] EXCEPT !.rows = [@ EXCEPT ![m] = r]] \in Locals
        /\ [my[w] EXCEPT !.rows = [@ EXCEPT ![m] = r]].rows[m] = r
    BY <1>1, <1>3 DEF Locals
  <2>3. /\ my' \in [Actors -> Locals] /\ \A b \in Actors : b # w => my'[b] = my[b]
        /\ my'[w].m = my[w].m /\ my'[w].e = my[w].e /\ my'[w].rows[m] = r
    BY <1>1, <2>1, <2>2, MineTyped DEF Locals
  <2>4. next \in WorkerPcs \ {"idle"} /\ next \in {"delete_vec", "write_vec", "read_plan"}
    BY DEF WorkerPcs, SyncPcs
  <2>5. pc'[w] = next
    BY <1>1, <1>6, <2>4, GotoTyped DEF PcValues
  <2>6. lease' \in [owner: Actors \cup {Nobody}, live: BOOLEAN] /\ (LeasesLast => LeaseStays(w))
    BY <1>1, <1>4, <1>6, RenewedFacts DEF TypeOK, LeaseStays
  <2>7. ASSUME LeasesLast PROVE WorkerLeased(w)'
    <3>1. EventMine(w) /\ lease.live /\ lease.owner = w /\ MemLeased(m)
      BY <1>4, <2>7, CanAlwaysRenew DEF IInv, Leased
    <3>2. lease'.live /\ lease'.owner = w
      BY <1>6, <3>1
    <3>3. EventMine(w)'
      BY <1>4, <2>3, <3>1 DEF EventMine
    <3>4. Live(m)' <=> Live(m)
      BY <1>4 DEF Live, Tombstoned
    <3>5. \A e \in Events : Waits(e, m) => Waits(e, m)'
      <4>1. \A e \in Events : Done(e)' => Done(e)
        <5>1. pc'[w] \notin {"unlock", "finish"}
          BY <2>4, <2>5
        <5>2. \A v \in Workers : v # w => pc'[v] = pc[v] /\ my'[v] = my[v]
          BY <1>1, <1>6, <2>3, <2>4, GotoTyped DEF Actors, PcValues
        <5> QED
          BY <5>1, <5>2 DEF Done
      <4> QED
        BY <1>4, <4>1 DEF Waits
    <3>6. next = "read_plan" => OtherSync(w)' \/ (mem'[m].rev = r.rev /\ vec'[m] = mem'[m].rev)
      <4>1. CASE vec[m] = mem[m].rev
        BY <1>3, <1>4, <4>1
      <4>2. CASE next = "read_plan" /\ vec[m] # mem[m].rev
        <5>1. PICK e \in Events : Waits(e, m) /\ events[e].kind = "sync"
          BY <1>3, <3>1, <4>2 DEF MemLeased
        <5>2. e # my[w].e
          BY <4>2, <5>1
        <5> QED
          BY <1>2, <1>4, <2>3, <3>5, <5>1, <5>2 DEF OtherSync
      <4> QED
        BY <4>1, <4>2
    <3>7. my'[w].m = m /\ events' = events /\ mem' = mem
      BY <1>2, <1>4, <2>3
    <3>8. next = "delete_vec" => ~Live(m)'
      BY <1>3, <3>4
    <3>9. next \in {"write_vec", "read_plan"} => Live(m)'
      BY <1>3, <3>4
    <3>10. next = "write_vec" => events'[my'[w].e].kind = "sync" /\ mem'[m].rev = my'[w].rows[m].rev
      BY <1>3, <2>3, <3>7
    <3> HIDE DEF next
    <3> QED
      BY <2>3, <2>4, <2>5, <3>2, <3>3, <3>6, <3>7, <3>8, <3>9, <3>10 DEF WorkerLeased
  <2> HIDE DEF next
  <2> QED
    BY <1>4, <1>6, <2>3, <2>4, <2>6, <2>7, WorkerLocal
<1> QED
  BY <1>2, <1>3, <1>5, <1>6 DEF ReadRecord

\* A plan that does not match a live memory was read too late: another event follows.
LEMMA ReadPlanKeeps ==
  ASSUME IInv, NEW w \in Workers, ReadPlan(w)
  PROVE  IInv'
<1>1. TypeOK /\ w \in Actors /\ my[w] \in Locals /\ (LeasesLast => WorkerLeased(w))
  BY WorkerFacts, Fields
<1>2. PICK m \in Memories : m = my[w].m /\ plan[m] \in Plan /\ MemBase(m)
  BY <1>1, Fields DEF IInv, Base
<1>3. /\ pc[w] = "read_plan" /\ pc[w] \in SyncPcs /\ pc[w] # "idle"
      /\ UNCHANGED <<mem, tomb, plan, events, vec, graph, clock, forget, promised, tx, count>>
  BY DEF ReadPlan, canonical, indexes, SyncPcs
<1>4. Live(m)' <=> Live(m)
  BY <1>3 DEF Live, Tombstoned
<1>5. ASSUME NEW label \in {"write_graph", "invalidate"}, Goto(w, label), my'[w].m = m, my'[w].e = my[w].e,
             \A b \in Actors : b # w => my'[b] = my[b], CanRenew(w), lease' = [owner |-> w, live |-> TRUE]
      PROVE  /\ label \in WorkerPcs \ {"idle"} /\ pc'[w] = label
             /\ lease' \in [owner: Actors \cup {Nobody}, live: BOOLEAN] /\ LeaseStays(w)
             /\ lease'.live /\ lease'.owner = w
             /\ LeasesLast => EventMine(w)'
             /\ OtherSync(w) => OtherSync(w)'
  <2>1. label \in WorkerPcs \ {"idle"} /\ pc'[w] = label /\ \A b \in Actors : b # w => pc'[b] = pc[b]
    BY <1>1, <1>5, GotoTyped DEF WorkerPcs, SyncPcs, PcValues
  <2>2. LeasesLast => EventMine(w)'
    BY <1>1, <1>2, <1>3, <1>5 DEF WorkerLeased, EventMine
  <2>3. \A e \in Events : Done(e)' => Done(e)
    BY <1>5, <2>1 DEF Done, Actors
  <2>4. \A e \in Events : Waits(e, m) => Waits(e, m)'
    BY <1>3, <2>3 DEF Waits
  <2>5. OtherSync(w) => OtherSync(w)'
    BY <1>2, <1>3, <1>5, <2>4 DEF OtherSync
  <2> QED
    BY <1>3, <1>5, <2>1, <2>2, <2>5, RenewedFacts
<1>6. CASE Fail(w, "unlock") /\ UNCHANGED lease
  BY <1>3, <1>6, FailKeeps
<1>7. CASE /\ PlanMatches(w) /\ CanRenew(w)
           /\ my' = [my EXCEPT ![w].plan = plan[m]]
           /\ lease' = [owner |-> w, live |-> TRUE]
           /\ Goto(w, "write_graph")
  <2>1. my' = [my EXCEPT ![w] = [my[w] EXCEPT !.plan = plan[m]]]
    BY <1>1, <1>7 DEF TypeOK
  <2>2. [my[w] EXCEPT !.plan = plan[m]] \in Locals
    BY <1>1, <1>2 DEF Locals
  <2>3. /\ my' \in [Actors -> Locals] /\ \A b \in Actors : b # w => my'[b] = my[b]
        /\ my'[w].m = my[w].m /\ my'[w].e = my[w].e /\ my'[w].plan = plan[m]
    BY <1>1, <2>1, <2>2, MineTyped DEF Locals
  <2>4. /\ "write_graph" \in WorkerPcs \ {"idle"} /\ pc'[w] = "write_graph"
        /\ lease' \in [owner: Actors \cup {Nobody}, live: BOOLEAN] /\ LeaseStays(w)
        /\ lease'.live /\ lease'.owner = w
        /\ LeasesLast => EventMine(w)'
        /\ OtherSync(w) => OtherSync(w)'
    BY <1>2, <1>5, <1>7, <2>3
  <2>5. plan[m].revision # 0
    BY <1>2, <1>7 DEF PlanMatches
  <2>6. LeasesLast => Live(m)' /\ (OtherSync(w)' \/ vec[m] = mem[m].rev)
    BY <1>1, <1>2, <1>3, <1>4, <2>4 DEF WorkerLeased
  <2>7. LeasesLast => WorkerLeased(w)'
    BY <1>2, <1>3, <2>3, <2>4, <2>5, <2>6 DEF WorkerLeased
  <2> QED
    BY <1>3, <1>7, <2>3, <2>4, <2>7, WorkerLocal
<1>8. CASE ~PlanMatches(w) /\ CanRenew(w) /\ lease' = [owner |-> w, live |-> TRUE] /\ Goto(w, "invalidate") /\ UNCHANGED my
  <2>1. /\ my' \in [Actors -> Locals] /\ \A b \in Actors : b # w => my'[b] = my[b]
        /\ my'[w].m = my[w].m /\ my'[w].e = my[w].e
    BY <1>1, <1>8 DEF TypeOK
  <2>2. /\ "invalidate" \in WorkerPcs \ {"idle"} /\ pc'[w] = "invalidate"
        /\ lease' \in [owner: Actors \cup {Nobody}, live: BOOLEAN] /\ LeaseStays(w)
        /\ lease'.live /\ lease'.owner = w
        /\ LeasesLast => EventMine(w)'
        /\ OtherSync(w) => OtherSync(w)'
    BY <1>2, <1>5, <1>8, <2>1
  <2>3. LeasesLast => Live(m) /\ (OtherSync(w) \/ mem[m].rev = my[w].rows[m].rev)
    BY <1>1, <1>2, <1>3 DEF WorkerLeased
  <2>4. LeasesLast => OtherSync(w)'
    BY <1>2, <1>8, <2>2, <2>3 DEF MemBase, PlanMatches
  <2>5. OtherSync(w)' => OtherWaits(w)'
    BY DEF OtherSync, OtherWaits
  <2>6. LeasesLast => WorkerLeased(w)'
    BY <2>2, <2>4, <2>5 DEF WorkerLeased
  <2> QED
    BY <1>3, <1>8, <2>1, <2>2, <2>6, WorkerLocal
<1> QED
  BY <1>2, <1>6, <1>7, <1>8 DEF ReadPlan, Renewed

LEMMA InvalidateKeeps ==
  ASSUME IInv, NEW w \in Workers, Invalidate(w)
  PROVE  IInv'
<1>1. TypeOK /\ w \in Actors /\ my[w] \in Locals /\ (LeasesLast => WorkerLeased(w))
  BY WorkerFacts, Fields
<1>2. /\ pc[w] = "invalidate" /\ pc[w] \in SyncPcs /\ pc[w] # "idle"
      /\ UNCHANGED <<mem, tomb, plan, events, vec, graph, clock, forget, promised, tx, count, lease>>
  BY DEF Invalidate, canonical, indexes, SyncPcs
<1>3. CASE Fail(w, "unlock")
  BY <1>2, <1>3, FailKeeps
<1>4. CASE Goto(w, "unlock") /\ UNCHANGED my
  <2>1. "unlock" \in WorkerPcs \ {"idle"} /\ pc'[w] = "unlock"
    BY <1>1, <1>4, GotoTyped DEF WorkerPcs, SyncPcs, PcValues
  <2>2. /\ my' \in [Actors -> Locals] /\ \A b \in Actors : b # w => my'[b] = my[b]
        /\ my'[w].m = my[w].m /\ my'[w].e = my[w].e /\ my'[w].ok = my[w].ok
    BY <1>1, <1>4 DEF TypeOK
  <2>3. lease' \in [owner: Actors \cup {Nobody}, live: BOOLEAN] /\ LeaseStays(w)
    BY <1>1, <1>2 DEF TypeOK, LeaseStays
  <2>4. LeasesLast => WorkerLeased(w)'
    BY <1>2, <2>1, <2>2, CanAlwaysRenew, EndLeased
  <2> QED
    BY <1>2, <1>4, <2>1, <2>2, <2>3, <2>4, WorkerLocal
<1> QED
  BY <1>3, <1>4 DEF Invalidate

LEMMA UnlockKeeps ==
  ASSUME IInv, NEW w \in Workers, Unlock(w)
  PROVE  IInv'
<1>1. TypeOK /\ w \in Actors /\ my[w] \in Locals /\ (LeasesLast => WorkerLeased(w))
  BY WorkerFacts, Fields
<1>2. /\ pc[w] = "unlock" /\ pc[w] \in SyncPcs /\ pc[w] # "idle" /\ Goto(w, "finish") /\ FreeLease(w)
      /\ UNCHANGED <<mem, tomb, plan, events, vec, graph, clock, forget, promised, tx, count, my>>
  BY DEF Unlock, canonical, indexes, SyncPcs
<1>3. "finish" \in WorkerPcs \ {"idle"} /\ pc'[w] = "finish"
  BY <1>1, <1>2, GotoTyped DEF WorkerPcs, SyncPcs, PcValues
<1>4. /\ my' \in [Actors -> Locals] /\ \A b \in Actors : b # w => my'[b] = my[b]
      /\ my'[w].m = my[w].m /\ my'[w].e = my[w].e /\ my'[w].ok = my[w].ok
  BY <1>1, <1>2 DEF TypeOK
<1>5. lease' \in [owner: Actors \cup {Nobody}, live: BOOLEAN] /\ LeaseStays(w)
  BY <1>1, <1>2, FreeLeaseTyped
<1>6. LeasesLast => WorkerLeased(w)'
  BY <1>2, <1>3, <1>4, CanAlwaysRenew, EndLeased
<1> QED
  BY <1>2, <1>3, <1>4, <1>5, <1>6, WorkerLocal

LEMMA ClaimEventKeeps ==
  ASSUME IInv, NEW w \in Workers, NEW e \in Events, ClaimEvent(w, e)
  PROVE  IInv'
<1>1. TypeOK /\ w \in Actors /\ w \notin Clients /\ w # Nobody /\ my[w] \in Locals /\ EventBase(e)
  BY WorkerFacts, Fields DEF IInv, Base
<1>2. PICK m \in Memories : m = events[e].mem
  BY <1>1 DEF TypeOK, Event
<1>3. /\ events[e].status # "none" /\ ~events[e].live /\ Goto(w, "lease")
      /\ events' = [events EXCEPT ![e].status = "processing", ![e].attempts = @ + 1,
                                  ![e].owner = w, ![e].live = TRUE]
      /\ my' = [my EXCEPT ![w].m = m, ![w].e = e]
      /\ UNCHANGED <<mem, tomb, plan, vec, graph, clock, forget, promised, tx, count, lease>>
  BY <1>2 DEF ClaimEvent, Claimable, canonical, indexes
<1>4. my' = [my EXCEPT ![w] = [my[w] EXCEPT !.m = m, !.e = e]]
  BY <1>1, <1>3 DEF TypeOK
<1>5. [my[w] EXCEPT !.m = m, !.e = e] \in Locals
  <2>1. e \in Nat
    BY PropagationAssumption DEF Events
  <2> QED
    BY <1>1, <2>1 DEF Locals
<1>6. my' \in [Actors -> Locals] /\ my'[w].m = m /\ my'[w].e = e /\ \A b \in Actors : b # w => my'[b] = my[b]
  BY <1>1, <1>4, <1>5, MineTyped DEF Locals
<1>7. "lease" \in PcValues /\ pc' \in [Actors -> PcValues] /\ pc'[w] = "lease" /\ \A b \in Actors : b # w => pc'[b] = pc[b]
  BY <1>1, <1>3, GotoTyped DEF WorkerPcs, PcValues
<1>8. /\ events' \in [Events -> Event] /\ events'[e].mem = m /\ events'[e].kind = events[e].kind
      /\ events'[e].status = "processing" /\ events'[e].owner = w /\ events'[e].live
      /\ \A o \in Events : o # e => events'[o] = events[o]
  BY <1>1, <1>2, <1>3 DEF TypeOK, Event
<1>9. TypeOK'
  <2>1. /\ mem' \in [Memories -> Row] /\ tomb' \in [Sources -> {"none", "soft", "redact"}]
        /\ plan' \in [Memories -> Plan] /\ forget' \in [Memories -> Progress]
        /\ vec' \in [Memories -> Nat] /\ graph' \in [Memories -> Nat] /\ clock' \in 0 .. MaxClock
        /\ lease' \in [owner: Actors \cup {Nobody}, live: BOOLEAN]
        /\ promised' \in SUBSET (Memories \X BOOLEAN)
        /\ tx' \in Clients \cup {Nobody} /\ count' \in [calls: Nat, crashes: Nat, lapses: Nat]
    BY <1>1, <1>3 DEF TypeOK
  <2> QED
    BY <1>6, <1>7, <1>8, <2>1, TypeNext
<1>10. Others(w) /\ StoresStill /\ LockKept(w) /\ WriteChecked(w) /\ PromisesHold /\ LeaseStays(w)
  BY <1>1, <1>3, <1>6, <1>7 DEF Others, StoresStill, LockKept, WriteChecked, PromisesHold, IsPromised, LeaseStays
<1>11. EventsStay
  BY <1>2, <1>3, <1>8 DEF EventsStay
<1>12. EventsOwn(w)
  <2>1. \A v \in Workers : EventMine(v) => my[v].e # e /\ my[v].e \in Events
    BY <1>3 DEF EventMine
  <2> QED
    BY <1>7, <1>8, <2>1 DEF EventsOwn
<1>13. mem'[m].status # "absent"
  BY <1>2, <1>3, <1>1 DEF EventBase
<1>14. WorkerBase(w)'
  BY <1>6, <1>7, <1>13 DEF WorkerBase, WorkerPcs
<1>15. WorkerLeased(w)'
  BY <1>6, <1>7, <1>8 DEF WorkerLeased, EventMine, SyncPcs
<1>16. LeasesLast' <=> LeasesLast
  BY <1>3 DEF LeasesLast
<1> QED
  BY <1>1, <1>9, <1>10, <1>11, <1>12, <1>14, <1>15, <1>16, LocalKeeps

LEMMA FinishEventKeeps ==
  ASSUME IInv, NEW w \in Workers, FinishEvent(w)
  PROVE  IInv'
<1>1. TypeOK /\ w \in Actors /\ w \notin Clients /\ w # Nobody /\ WorkerBase(w)
  BY WorkerFacts
<1>2. PICK e \in Events : e = my[w].e
  BY <1>1 DEF FinishEvent, WorkerBase
<1>3. /\ pc[w] = "finish" /\ EndCall(w)
      /\ UNCHANGED <<mem, tomb, plan, vec, graph, clock, forget, promised, tx, count, lease>>
  BY DEF FinishEvent, canonical, indexes
<1>4. PICK status \in {"completed", "failed", "retry"} :
        /\ status = Finished(my[w].ok, events[e].attempts)
        /\ status = "completed" => my[w].ok
  BY DEF Finished
<1>5. events' = IF events[e].owner = w
                THEN [events EXCEPT ![e].status = status, ![e].owner = Nobody, ![e].live = FALSE]
                ELSE events
  BY <1>2, <1>4 DEF FinishEvent
<1>6. /\ Goto(w, "idle") /\ "idle" \in PcValues /\ pc'[w] = "idle"
      /\ my' \in [Actors -> Locals] /\ \A b \in Actors : b # w => my'[b] = my[b]
  BY <1>1, <1>3, EndCallTyped
<1>7. pc' \in [Actors -> PcValues] /\ \A b \in Actors : b # w => pc'[b] = pc[b]
  BY <1>1, <1>6, GotoTyped
<1>8. /\ events' \in [Events -> Event] /\ events'[e].mem = events[e].mem /\ events'[e].kind = events[e].kind
      /\ events[e].owner = w => events'[e].status = status
      /\ events[e].owner # w => events'[e] = events[e]
      /\ \A o \in Events : o # e => events'[o] = events[o]
  BY <1>1, <1>5 DEF TypeOK, Event
<1>9. TypeOK'
  <2>1. /\ mem' \in [Memories -> Row] /\ tomb' \in [Sources -> {"none", "soft", "redact"}]
        /\ plan' \in [Memories -> Plan] /\ forget' \in [Memories -> Progress]
        /\ vec' \in [Memories -> Nat] /\ graph' \in [Memories -> Nat] /\ clock' \in 0 .. MaxClock
        /\ lease' \in [owner: Actors \cup {Nobody}, live: BOOLEAN]
        /\ promised' \in SUBSET (Memories \X BOOLEAN)
        /\ tx' \in Clients \cup {Nobody} /\ count' \in [calls: Nat, crashes: Nat, lapses: Nat]
    BY <1>1, <1>3 DEF TypeOK
  <2> QED
    BY <1>6, <1>7, <1>8, <2>1, TypeNext
<1>10. Others(w) /\ StoresStill /\ LockKept(w) /\ WriteChecked(w) /\ PromisesHold /\ LeaseStays(w)
  BY <1>1, <1>3, <1>6, <1>7 DEF Others, StoresStill, LockKept, WriteChecked, PromisesHold, IsPromised, LeaseStays
<1>11. EventsStay
  <2>1. events[e].status = "none" => events[e].owner = Nobody
    BY DEF IInv, Base, EventBase
  <2> QED
    BY <1>1, <1>8, <2>1 DEF EventsStay
<1>12. EventsOwn(w)
  <2>1. \A v \in Workers : v # w /\ EventMine(v) => events'[my[v].e] = events[my[v].e]
    BY <1>8 DEF EventMine
  <2>2. events'[e].status = "completed" => events[e].status = "completed" \/ Done(e)
    BY <1>2, <1>3, <1>4, <1>8 DEF Done
  <2> QED
    BY <1>6, <1>8, <2>1, <2>2 DEF EventsOwn
<1>13. WorkerBase(w)' /\ WorkerLeased(w)'
  BY <1>6 DEF WorkerBase, WorkerLeased, WorkerPcs, SyncPcs
<1>14. LeasesLast' <=> LeasesLast
  BY <1>3 DEF LeasesLast
<1> QED
  BY <1>1, <1>9, <1>10, <1>11, <1>12, <1>13, <1>14, LocalKeeps

\* A crash leaves leases and claims behind, and nothing else.
LEMMA CrashKeeps ==
  ASSUME IInv, NEW a \in Actors, Crash(a)
  PROVE  IInv'
<1>1. TypeOK /\ a # Nobody
  BY PropagationAssumption DEF IInv, Base
<1>2. /\ EndCall(a) /\ tx' = (IF tx = a THEN Nobody ELSE tx) /\ count' = [count EXCEPT !.crashes = @ + 1]
      /\ UNCHANGED <<mem, tomb, plan, vec, graph, clock, forget, promised, lease, events>>
  BY DEF Crash, canonical, indexes
<1>3. /\ Goto(a, "idle") /\ "idle" \in PcValues /\ pc'[a] = "idle"
      /\ my' \in [Actors -> Locals] /\ \A b \in Actors : b # a => my'[b] = my[b]
  BY <1>1, <1>2, EndCallTyped
<1>4. pc' \in [Actors -> PcValues] /\ \A b \in Actors : b # a => pc'[b] = pc[b]
  BY <1>1, <1>3, GotoTyped
<1>5. TypeOK'
  <2>1. /\ mem' \in [Memories -> Row] /\ tomb' \in [Sources -> {"none", "soft", "redact"}]
        /\ plan' \in [Memories -> Plan] /\ forget' \in [Memories -> Progress]
        /\ vec' \in [Memories -> Nat] /\ graph' \in [Memories -> Nat] /\ clock' \in 0 .. MaxClock
        /\ lease' \in [owner: Actors \cup {Nobody}, live: BOOLEAN] /\ events' \in [Events -> Event]
        /\ promised' \in SUBSET (Memories \X BOOLEAN)
        /\ tx' \in Clients \cup {Nobody} /\ count' \in [calls: Nat, crashes: Nat, lapses: Nat]
    BY <1>1, <1>2 DEF TypeOK
  <2> QED
    BY <1>3, <1>4, <2>1, TypeNext
<1>6. Others(a) /\ StoresStill /\ LockKept(a) /\ WriteChecked(a) /\ PromisesHold /\ LeaseStays(a)
  BY <1>1, <1>2, <1>3, <1>4 DEF Others, StoresStill, LockKept, WriteChecked, PromisesHold, IsPromised, LeaseStays, Writing
<1>7. EventsStay /\ EventsOwn(a)
  BY <1>2, <1>3 DEF EventsStay, EventsOwn
<1>8. a \in Clients => ClientBase(a)' /\ ClientLeased(a)'
  BY <1>3, OutsideBase
<1>9. a \in Workers => WorkerBase(a)' /\ WorkerLeased(a)'
  BY <1>3 DEF WorkerBase, WorkerLeased, WorkerPcs, SyncPcs
<1>10. LeasesLast' <=> LeasesLast
  BY <1>1, <1>2 DEF LeasesLast, TypeOK
<1> QED
  BY <1>5, <1>6, <1>7, <1>8, <1>9, <1>10, LocalKeeps

-----------------------------------------------------------------------------
(* Steps that write the indexes or a plan, under the lease.                *)

\* What the step leaves of a live memory's entries is explained by the plan or by an event.
LiveSound(m) ==
  \/ vec'[m] = vec[m] /\ graph'[m] = graph[m] /\ plan'[m] = plan[m]
  \/ /\ \E e \in Events : Waits(e, m)
     /\ vec'[m] = mem[m].rev \/ \E e \in Events : Waits(e, m) /\ events[e].kind = "sync"
     /\ plan'[m].applied = plan'[m].revision => graph'[m] = plan'[m].revision

\* Entries of other memories are removed or left alone.
DeadCleared(m) == vec'[m] \in {0, vec[m]} /\ graph'[m] \in {0, graph[m]}

LEMMA IndexKeeps ==
  ASSUME IInv, NEW a \in Actors, Others(a), TypeOK', UNCHANGED <<mem, tomb, events, clock, tx, forget, promised, count>>,
         pc'[a] \notin Writing,
         \A m \in Memories : Live(m) => plan'[m].source = plan[m].source /\ plan'[m].revision = plan[m].revision,
         \A m \in Memories : mem[m].status = "absent" => vec'[m] = 0 /\ graph'[m] = 0,
         LeasesLast =>
           /\ lease.live /\ lease.owner = a
           /\ a \in Workers => pc[a] # "invalidate" /\ pc'[a] \notin {"unlock", "finish"}
           /\ \A m \in Memories : IF Live(m) THEN LiveSound(m) ELSE DeadCleared(m),
         a \in Clients => ClientBase(a)' /\ (LeasesLast => ClientLeased(a)'),
         a \in Workers => WorkerBase(a)' /\ (LeasesLast => WorkerLeased(a)')
  PROVE  IInv'
<1>1. TypeOK /\ (\A m \in Memories : MemBase(m)) /\ (\A e \in Events : EventBase(e))
  BY DEF IInv, Base
<1>2. a \in Clients => my'[a].m \in Memories
  BY DEF TypeOK, Locals
<1>3. CanonKept(a)
  <2>1. \A p \in Memories : Closed(p) => Closed(p)'
    BY <1>1, <1>2, ClosedStays DEF WriteChecked
  <2> QED
    BY <2>1 DEF CanonKept
<1>4. ASSUME NEW m \in Memories PROVE Live(m)' <=> Live(m)
  BY DEF Live, Tombstoned
<1>5. ASSUME NEW m \in Memories PROVE MemBase(m)'
  <2>1. MemBase(m) /\ mem' = mem
    BY <1>1
  <2> HIDE DEF Live
  <2> QED
    BY <1>4, <2>1 DEF MemBase
<1>6. \A e \in Events : EventBase(e)'
  BY <1>1 DEF EventBase
<1>7. LeasesLast' <=> LeasesLast
  BY DEF LeasesLast
<1>8. EventsStay /\ (LeasesLast => EventsOwn(a))
  BY DEF EventsStay, EventsOwn
<1>9. LeasesLast => EventsKept(a)
  BY <1>8, EventsOwnKept
<1>10. ASSUME LeasesLast, NEW m \in Memories PROVE MemLeased(m)'
  <2>1. MemLeased(m) /\ EventsKept(a) /\ ~(a \in Workers /\ pc[a] = "invalidate")
    BY <1>9, <1>10 DEF IInv, Leased
  <2>2. \A e \in Events : Waits(e, m) => Waits(e, m)'
    BY <2>1 DEF EventsKept
  <2>3. events' = events /\ mem' = mem /\ (Live(m)' <=> Live(m))
    BY <1>4
  <2>4. Gone(m) => Gone(m)'
    <3>1. ASSUME Gone(m), NEW d \in Memories, Affected(d, m) PROVE mem'[d].status # "active" /\ vec'[d] = 0 /\ graph'[d] = 0
      <4>1. mem[d].status # "active" /\ vec[d] = 0 /\ graph[d] = 0
        BY <3>1 DEF Gone
      <4>2. ~Live(d)
        BY <4>1 DEF Live
      <4> QED
        BY <1>10, <4>1, <4>2 DEF DeadCleared
    <3> QED
      BY <1>3, <3>1 DEF Gone, CanonKept, Affected
  <2>5. IsPromised(m)' => Gone(m)'
    BY <2>1, <2>4 DEF MemLeased, IsPromised
  <2>6. CASE Live(m)
    <3>1. LiveSound(m)
      BY <1>10, <2>6
    <3>2. mem[m].status # "absent" /\ mem[m].status \notin Inactive
      BY <2>6 DEF Live, Inactive
    <3>3. CASE vec'[m] = vec[m] /\ graph'[m] = graph[m] /\ plan'[m] = plan[m]
      <4>1. Synced(m) => Synced(m)'
        BY <2>3, <3>3 DEF Synced
      <4> QED
        BY <2>1, <2>2, <2>3, <2>5, <3>3, <4>1 DEF MemLeased
    <3>4. CASE /\ \E e \in Events : Waits(e, m)
               /\ vec'[m] = mem[m].rev \/ \E e \in Events : Waits(e, m) /\ events[e].kind = "sync"
               /\ plan'[m].applied = plan'[m].revision => graph'[m] = plan'[m].revision
      BY <2>2, <2>3, <2>5, <3>4 DEF MemLeased
    <3> QED
      BY <3>1, <3>3, <3>4 DEF LiveSound
  <2>7. CASE ~Live(m)
    <3>1. DeadCleared(m)
      BY <1>10, <2>7
    <3>2. Synced(m) => Synced(m)'
      BY <2>3, <2>7, <3>1 DEF Synced, DeadCleared
    <3> QED
      BY <2>1, <2>2, <2>3, <2>5, <2>7, <3>2 DEF MemLeased
  <2> QED
    BY <2>6, <2>7
<1>11. ASSUME LeasesLast', NEW b \in Actors, b # a PROVE ~(lease.live /\ lease.owner = b)
  BY <1>7, <1>11
<1> HIDE DEF LeasesLast
<1> QED
  BY <1>3, <1>5, <1>6, <1>7, <1>9, <1>10, <1>11, StepKeeps

\* What is removed was forgotten: its sources are all tombstoned.
LEMMA ReceiptFacts ==
  ASSUME IInv, NEW c \in Clients, pc[c] \in {"vectors", "graph", "scrub"}, NEW D \in Reached(c),
         NEW label \in {"graph", "scrub", "answer"}, Receipt(c, D, label), mem' = mem, tomb' = tomb
  PROVE  /\ pc' \in [Actors -> PcValues] /\ pc'[c] = label /\ my' \in [Actors -> Locals] /\ Others(c)
         /\ my'[c].m = my[c].m /\ my'[c].affected = my[c].affected
         /\ my'[c].ok => my[c].ok /\ D = my[c].affected
         /\ D \subseteq Memories /\ \A d \in D : ~Live(d) /\ Affected(d, my[c].m)
         /\ Closed(my[c].m)' /\ ClientBase(c)'
<1>1. TypeOK /\ c \in Actors /\ my[c] \in Locals /\ ClientBase(c)
  BY ClientFacts, Fields
<1>2. PICK m \in Memories : m = my[c].m /\ SourcesOf[m] \in SUBSET Sources /\ my[c].affected \in SUBSET Memories
                            /\ my[c].ok \in BOOLEAN
  BY <1>1, Fields
<1>3. PICK ok \in BOOLEAN : ok = (my[c].ok /\ D = my[c].affected)
  OBVIOUS
<1>4. my' = [my EXCEPT ![c] = [my[c] EXCEPT !.ok = ok]] /\ Goto(c, label)
  BY <1>1, <1>3 DEF Receipt, TypeOK
<1>5. [my[c] EXCEPT !.ok = ok] \in Locals
  BY <1>1 DEF Locals
<1>6. /\ my' \in [Actors -> Locals] /\ \A b \in Actors : b # c => my'[b] = my[b]
      /\ my'[c].m = m /\ my'[c].affected = my[c].affected /\ my'[c].ok = ok
  BY <1>1, <1>2, <1>4, <1>5, MineTyped DEF Locals
<1>7. label \in PcValues /\ label \notin Writing /\ label \in ClientPcs
  BY DEF PcValues, ClientPcs, ForgetPcs, Writing
<1>8. pc' \in [Actors -> PcValues] /\ pc'[c] = label /\ \A b \in Actors : b # c => pc'[b] = pc[b]
  BY <1>1, <1>4, <1>7, GotoTyped
<1>9. Others(c) /\ WriteChecked(c)
  BY <1>6, <1>7, <1>8 DEF Others, WriteChecked
<1>10. Closed(m) /\ mem[m].status # "absent" /\ \A d \in my[c].affected : Affected(d, m)
  BY <1>1, <1>2 DEF ClientBase, ForgetPcs
<1>11. Closed(m)'
  BY <1>1, <1>2, <1>6, <1>9, <1>10, ClosedStays
<1>12. ASSUME NEW d \in D PROVE d \in Memories /\ ~Live(d) /\ Affected(d, m)
  <2>1. d \in Memories /\ Affected(d, m)
    BY <1>2, <1>10 DEF Reached
  <2>2. CASE d = m
    BY <1>10, <2>1, <2>2 DEF Closed, Live, Inactive
  <2>3. CASE d # m
    <3>1. PICK s \in SourcesOf[d] : s \in SourcesOf[m]
      BY <2>1, <2>3 DEF Affected
    <3>2. tomb[s] # "none"
      BY <1>10, <3>1 DEF Closed
    <3> QED
      BY <2>1, <3>1, <3>2 DEF Live, Tombstoned
  <2> QED
    BY <2>1, <2>2, <2>3
<1>13. ClientBase(c)'
  BY <1>6, <1>7, <1>8, <1>10, <1>11 DEF ClientBase, Affected
<1> QED
  BY <1>2, <1>3, <1>6, <1>8, <1>9, <1>11, <1>12, <1>13

LEMMA ForgetVectorsKeeps ==
  ASSUME IInv, NEW c \in Clients, ForgetVectors(c)
  PROVE  IInv'
<1>1. TypeOK /\ c \in Actors /\ c \notin Workers /\ (LeasesLast => ClientLeased(c))
  BY ClientFacts
<1>2. /\ pc[c] = "vectors"
      /\ UNCHANGED <<mem, tomb, plan, forget, events, graph, lease, tx, clock, promised, count>>
  BY DEF ForgetVectors, canonical
<1>3. PICK D \in Reached(c) : vec' = [m \in Memories |-> IF m \in D THEN 0 ELSE vec[m]] /\ Receipt(c, D, "graph")
  BY DEF ForgetVectors
<1>4. PICK m \in Memories : m = my[c].m /\ my[c].affected \in SUBSET Memories
  BY <1>1, Fields
<1>5. /\ pc' \in [Actors -> PcValues] /\ pc'[c] = "graph" /\ my' \in [Actors -> Locals] /\ Others(c)
      /\ my'[c].m = m /\ my'[c].affected = my[c].affected
      /\ my'[c].ok => my[c].ok /\ D = my[c].affected
      /\ D \subseteq Memories /\ \A d \in D : ~Live(d)
      /\ ClientBase(c)'
  BY <1>2, <1>3, <1>4, ReceiptFacts
<1>6. vec' \in [Memories -> Nat] /\ \A d \in Memories : vec'[d] = IF d \in D THEN 0 ELSE vec[d]
  BY <1>1, <1>3 DEF TypeOK
<1>7. TypeOK'
  <2>1. /\ mem' \in [Memories -> Row] /\ tomb' \in [Sources -> {"none", "soft", "redact"}]
        /\ plan' \in [Memories -> Plan] /\ forget' \in [Memories -> Progress]
        /\ graph' \in [Memories -> Nat] /\ clock' \in 0 .. MaxClock
        /\ lease' \in [owner: Actors \cup {Nobody}, live: BOOLEAN] /\ events' \in [Events -> Event]
        /\ promised' \in SUBSET (Memories \X BOOLEAN)
        /\ tx' \in Clients \cup {Nobody} /\ count' \in [calls: Nat, crashes: Nat, lapses: Nat]
    BY <1>1, <1>2 DEF TypeOK
  <2> QED
    BY <1>5, <1>6, <2>1, TypeNext
<1>8. \A d \in Memories : mem[d].status = "absent" => vec'[d] = 0 /\ graph'[d] = 0
  BY <1>2, <1>6 DEF IInv, Base, MemBase
<1>9. LeasesLast => lease.live /\ lease.owner = c
  BY <1>1, <1>2 DEF ClientLeased, ForgetPcs
<1>10. \A d \in Memories : IF Live(d) THEN LiveSound(d) ELSE DeadCleared(d)
  BY <1>2, <1>5, <1>6 DEF LiveSound, DeadCleared
<1>11. ASSUME LeasesLast PROVE ClientLeased(c)'
  <2>1. /\ my[c].ok => \A d \in Memories : Affected(d, m) => d \in my[c].affected \/ mem[d].status = "absent"
        /\ my[c].ok => \A d \in my[c].affected : mem[d].status # "active"
    BY <1>1, <1>2, <1>4, <1>11 DEF ClientLeased
  <2>2. my'[c].ok => \A d \in my[c].affected : vec'[d] = 0
    BY <1>4, <1>5, <1>6
  <2> QED
    BY <1>2, <1>5, <1>9, <1>11, <2>1, <2>2 DEF ClientLeased, Affected
<1>12. pc'[c] \notin Writing /\ \A d \in Memories : Live(d) => plan'[d].source = plan[d].source /\ plan'[d].revision = plan[d].revision
  BY <1>2, <1>5 DEF Writing
<1> QED
  BY <1>1, <1>2, <1>5, <1>7, <1>8, <1>9, <1>10, <1>11, <1>12, IndexKeeps

LEMMA ForgetGraphKeeps ==
  ASSUME IInv, NEW c \in Clients, ForgetGraph(c)
  PROVE  IInv'
<1>1. TypeOK /\ c \in Actors /\ c \notin Workers /\ (LeasesLast => ClientLeased(c))
  BY ClientFacts
<1>2. /\ pc[c] = "graph"
      /\ UNCHANGED <<mem, tomb, plan, forget, events, vec, lease, tx, clock, promised, count>>
  BY DEF ForgetGraph, canonical
<1>3. PICK D \in Reached(c) : graph' = [m \in Memories |-> IF m \in D THEN 0 ELSE graph[m]] /\ Receipt(c, D, "scrub")
  BY DEF ForgetGraph
<1>4. PICK m \in Memories : m = my[c].m /\ my[c].affected \in SUBSET Memories
  BY <1>1, Fields
<1>5. /\ pc' \in [Actors -> PcValues] /\ pc'[c] = "scrub" /\ my' \in [Actors -> Locals] /\ Others(c)
      /\ my'[c].m = m /\ my'[c].affected = my[c].affected
      /\ my'[c].ok => my[c].ok /\ D = my[c].affected
      /\ D \subseteq Memories /\ \A d \in D : ~Live(d)
      /\ ClientBase(c)'
  BY <1>2, <1>3, <1>4, ReceiptFacts
<1>6. graph' \in [Memories -> Nat] /\ \A d \in Memories : graph'[d] = IF d \in D THEN 0 ELSE graph[d]
  BY <1>1, <1>3 DEF TypeOK
<1>7. TypeOK'
  <2>1. /\ mem' \in [Memories -> Row] /\ tomb' \in [Sources -> {"none", "soft", "redact"}]
        /\ plan' \in [Memories -> Plan] /\ forget' \in [Memories -> Progress]
        /\ vec' \in [Memories -> Nat] /\ clock' \in 0 .. MaxClock
        /\ lease' \in [owner: Actors \cup {Nobody}, live: BOOLEAN] /\ events' \in [Events -> Event]
        /\ promised' \in SUBSET (Memories \X BOOLEAN)
        /\ tx' \in Clients \cup {Nobody} /\ count' \in [calls: Nat, crashes: Nat, lapses: Nat]
    BY <1>1, <1>2 DEF TypeOK
  <2> QED
    BY <1>5, <1>6, <2>1, TypeNext
<1>8. \A d \in Memories : mem[d].status = "absent" => vec'[d] = 0 /\ graph'[d] = 0
  BY <1>2, <1>6 DEF IInv, Base, MemBase
<1>9. LeasesLast => lease.live /\ lease.owner = c
  BY <1>1, <1>2 DEF ClientLeased, ForgetPcs
<1>10. \A d \in Memories : IF Live(d) THEN LiveSound(d) ELSE DeadCleared(d)
  BY <1>2, <1>5, <1>6 DEF LiveSound, DeadCleared
<1>11. ASSUME LeasesLast PROVE ClientLeased(c)'
  <2>1. /\ my[c].ok => \A d \in Memories : Affected(d, m) => d \in my[c].affected \/ mem[d].status = "absent"
        /\ my[c].ok => \A d \in my[c].affected : mem[d].status # "active" /\ vec[d] = 0
    BY <1>1, <1>2, <1>4, <1>11 DEF ClientLeased
  <2>2. my'[c].ok => \A d \in my[c].affected : graph'[d] = 0
    BY <1>4, <1>5, <1>6
  <2> QED
    BY <1>2, <1>5, <1>9, <1>11, <2>1, <2>2 DEF ClientLeased, Affected
<1>12. pc'[c] \notin Writing /\ \A d \in Memories : Live(d) => plan'[d].source = plan[d].source /\ plan'[d].revision = plan[d].revision
  BY <1>2, <1>5 DEF Writing
<1> QED
  BY <1>1, <1>2, <1>5, <1>7, <1>8, <1>9, <1>10, <1>11, <1>12, IndexKeeps

LEMMA ForgetScrubKeeps ==
  ASSUME IInv, NEW c \in Clients, ForgetScrub(c)
  PROVE  IInv'
<1>1. TypeOK /\ c \in Actors /\ c \notin Workers /\ (LeasesLast => ClientLeased(c))
  BY ClientFacts
<1>2. /\ pc[c] = "scrub"
      /\ UNCHANGED <<mem, tomb, forget, events, vec, graph, lease, tx, clock, promised, count>>
  BY DEF ForgetScrub, indexes
<1>3. PICK D \in Reached(c) : plan' = [m \in Memories |-> IF m \in D THEN NoPlan ELSE plan[m]] /\ Receipt(c, D, "answer")
  BY DEF ForgetScrub
<1>4. PICK m \in Memories : m = my[c].m /\ my[c].affected \in SUBSET Memories
  BY <1>1, Fields
<1>5. /\ pc' \in [Actors -> PcValues] /\ pc'[c] = "answer" /\ my' \in [Actors -> Locals] /\ Others(c)
      /\ my'[c].m = m /\ my'[c].affected = my[c].affected
      /\ my'[c].ok => my[c].ok /\ D = my[c].affected
      /\ D \subseteq Memories /\ \A d \in D : ~Live(d)
      /\ ClientBase(c)'
  BY <1>2, <1>3, <1>4, ReceiptFacts
<1>6. plan' \in [Memories -> Plan] /\ \A d \in Memories : d \notin D => plan'[d] = plan[d]
  BY <1>1, <1>3, NothingTyped DEF TypeOK
<1>7. TypeOK'
  <2>1. /\ mem' \in [Memories -> Row] /\ tomb' \in [Sources -> {"none", "soft", "redact"}]
        /\ graph' \in [Memories -> Nat] /\ forget' \in [Memories -> Progress]
        /\ vec' \in [Memories -> Nat] /\ clock' \in 0 .. MaxClock
        /\ lease' \in [owner: Actors \cup {Nobody}, live: BOOLEAN] /\ events' \in [Events -> Event]
        /\ promised' \in SUBSET (Memories \X BOOLEAN)
        /\ tx' \in Clients \cup {Nobody} /\ count' \in [calls: Nat, crashes: Nat, lapses: Nat]
    BY <1>1, <1>2 DEF TypeOK
  <2> QED
    BY <1>5, <1>6, <2>1, TypeNext
<1>8. \A d \in Memories : mem[d].status = "absent" => vec'[d] = 0 /\ graph'[d] = 0
  BY <1>2 DEF IInv, Base, MemBase
<1>9. LeasesLast => lease.live /\ lease.owner = c
  BY <1>1, <1>2 DEF ClientLeased, ForgetPcs
<1>10. \A d \in Memories : IF Live(d) THEN LiveSound(d) ELSE DeadCleared(d)
  BY <1>2, <1>5, <1>6 DEF LiveSound, DeadCleared
<1>11. ASSUME LeasesLast PROVE ClientLeased(c)'
  <2>1. /\ my[c].ok => \A d \in Memories : Affected(d, m) => d \in my[c].affected \/ mem[d].status = "absent"
        /\ my[c].ok => \A d \in my[c].affected : mem[d].status # "active" /\ vec[d] = 0 /\ graph[d] = 0
    BY <1>1, <1>2, <1>4, <1>11 DEF ClientLeased
  <2> QED
    BY <1>2, <1>5, <1>9, <1>11, <2>1 DEF ClientLeased, Affected
<1>12. pc'[c] \notin Writing /\ \A d \in Memories : Live(d) => plan'[d].source = plan[d].source /\ plan'[d].revision = plan[d].revision
  BY <1>5, <1>6 DEF Writing
<1> QED
  BY <1>1, <1>2, <1>5, <1>7, <1>8, <1>9, <1>10, <1>11, <1>12, IndexKeeps

\* A worker between two writes: its own event goes on waiting.
LEMMA OwnWaits ==
  ASSUME IInv, LeasesLast, NEW w \in Workers, pc[w] \in SyncPcs \ {"unlock"}
  PROVE  my[w].e \in Events /\ Waits(my[w].e, my[w].m)
<1>1. EventMine(w)
  BY CanAlwaysRenew
<1>2. ASSUME NEW v \in Workers, pc[v] \in {"unlock", "finish"}, my[v].e = my[w].e PROVE FALSE
  <2>1. EventMine(v)
    BY <1>2, WorkerFacts DEF WorkerLeased
  <2>2. v = w
    BY <1>1, <1>2, <2>1 DEF EventMine
  <2> QED
    BY <1>2, <2>2 DEF SyncPcs
<1> QED
  BY <1>1, <1>2 DEF Waits, Done, EventMine

\* A write of an index by a worker, and the renewal after it.
LEMMA RenewedKeeps ==
  ASSUME IInv, NEW w \in Workers, pc[w] \in SyncPcs \ {"invalidate", "unlock"},
         NEW label \in SyncPcs \ {"unlock"}, NEW stays \in BOOLEAN,
         IF stays THEN Goto(w, label) /\ UNCHANGED <<my, lease>> ELSE Renewed(w, label),
         UNCHANGED <<mem, tomb, forget, events, tx, clock, promised, count>>,
         plan' \in [Memories -> Plan], vec' \in [Memories -> Nat], graph' \in [Memories -> Nat],
         \A d \in Memories : d # my[w].m => vec'[d] = vec[d] /\ graph'[d] = graph[d] /\ plan'[d] = plan[d],
         plan'[my[w].m].source = plan[my[w].m].source, plan'[my[w].m].revision = plan[my[w].m].revision,
         LeasesLast => IF Live(my[w].m) THEN LiveSound(my[w].m) ELSE DeadCleared(my[w].m),
         LeasesLast /\ EventMine(w)' /\ pc'[w] = label /\ my' = my /\ lease'.live /\ lease'.owner = w
           /\ (Live(my[w].m)' <=> Live(my[w].m))
           /\ (OtherWaits(w) => OtherWaits(w)') /\ (OtherSync(w) => OtherSync(w)')
           => WorkerLeased(w)'
  PROVE  IInv'
<1>1. TypeOK /\ w \in Actors /\ w \notin Clients /\ WorkerBase(w)
  BY WorkerFacts
<1>2. PICK m \in Memories : m = my[w].m
  BY <1>1, Fields
<1>3. \/ Goto(w, label) /\ my' = my /\ lease' = lease
      \/ Goto(w, label) /\ my' = my /\ lease' = [owner |-> w, live |-> TRUE] /\ CanRenew(w)
      \/ Fail(w, "unlock") /\ lease' = lease /\ ~CanRenew(w)
  BY DEF Renewed
<1>4. PICK to \in {label, "unlock"} : Goto(w, to) /\ (LeasesLast => to = label)
  BY <1>3, CanAlwaysRenew DEF Fail
<1>5. to \in PcValues /\ to \in SyncPcs
  BY DEF PcValues, WorkerPcs, SyncPcs
<1>6. pc' \in [Actors -> PcValues] /\ pc'[w] = to /\ \A b \in Actors : b # w => pc'[b] = pc[b]
  BY <1>1, <1>4, <1>5, GotoTyped
<1>7. /\ my' \in [Actors -> Locals] /\ \A b \in Actors : b # w => my'[b] = my[b]
      /\ my'[w].m = my[w].m /\ my'[w].e = my[w].e
  BY <1>1, <1>3, FailTyped DEF TypeOK, Fail
<1>8. lease' \in [owner: Actors \cup {Nobody}, live: BOOLEAN]
  <2>1. lease \in [owner: Actors \cup {Nobody}, live: BOOLEAN]
    BY <1>1 DEF TypeOK
  <2>2. lease' = lease \/ lease' = [owner |-> w, live |-> TRUE]
    BY <1>3
  <2>3. [owner |-> w, live |-> TRUE] \in [owner: Actors \cup {Nobody}, live: BOOLEAN]
    BY <1>1
  <2> QED
    BY <2>1, <2>2, <2>3
<1>9. TypeOK'
  <2>1. /\ mem' \in [Memories -> Row] /\ tomb' \in [Sources -> {"none", "soft", "redact"}]
        /\ forget' \in [Memories -> Progress] /\ clock' \in 0 .. MaxClock
        /\ events' \in [Events -> Event] /\ promised' \in SUBSET (Memories \X BOOLEAN)
        /\ tx' \in Clients \cup {Nobody} /\ count' \in [calls: Nat, crashes: Nat, lapses: Nat]
    BY <1>1 DEF TypeOK
  <2> QED
    BY <1>6, <1>7, <1>8, <2>1, TypeNext
<1>10. Others(w) /\ pc'[w] \notin Writing
  BY <1>5, <1>6, <1>7 DEF Others, Writing, SyncPcs
<1>11. mem[m].status # "absent"
  BY <1>1, <1>2 DEF WorkerBase, SyncPcs
<1>12. \A d \in Memories : mem[d].status = "absent" => vec'[d] = 0 /\ graph'[d] = 0
  BY <1>2, <1>11 DEF IInv, Base, MemBase
<1>13. \A d \in Memories : Live(d) => plan'[d].source = plan[d].source /\ plan'[d].revision = plan[d].revision
  BY <1>2
<1>14. ASSUME LeasesLast, NEW d \in Memories PROVE IF Live(d) THEN LiveSound(d) ELSE DeadCleared(d)
  <2>1. CASE d = m
    BY <1>2, <1>14, <2>1
  <2>2. CASE d # m
    BY <1>2, <2>2 DEF LiveSound, DeadCleared
  <2> QED
    BY <2>1, <2>2
<1>15. WorkerBase(w)'
  BY <1>1, <1>5, <1>6, <1>7 DEF WorkerBase, WorkerPcs, SyncPcs
<1>16. ASSUME LeasesLast PROVE WorkerLeased(w)' /\ lease.live /\ lease.owner = w
  <2>1. CanRenew(w) /\ EventMine(w) /\ lease.live /\ lease.owner = w
    BY <1>16, CanAlwaysRenew
  <2>2. my' = my /\ lease'.live /\ lease'.owner = w
    BY <1>3, <2>1
  <2>3. EventMine(w)'
    BY <1>7, <2>1 DEF EventMine
  <2>4. Live(my[w].m)' <=> Live(my[w].m)
    BY <2>2 DEF Live, Tombstoned
  <2>5. pc'[w] = label
    BY <1>4, <1>6, <1>16
  <2>6. \A e \in Events : Done(e)' => Done(e)
    BY <1>6, <2>2, <2>5 DEF Done, Actors, SyncPcs
  <2>7. \A e \in Events : Waits(e, m) => Waits(e, m)'
    BY <2>6 DEF Waits
  <2>8. (OtherWaits(w) => OtherWaits(w)') /\ (OtherSync(w) => OtherSync(w)')
    BY <1>2, <2>2, <2>7 DEF OtherWaits, OtherSync
  <2> QED
    BY <1>16, <2>1, <2>2, <2>3, <2>4, <2>5, <2>8
<1>17. LeasesLast => pc[w] # "invalidate" /\ pc'[w] \notin {"unlock", "finish"}
  BY <1>4, <1>6 DEF SyncPcs
<1> QED
  BY <1>1, <1>9, <1>10, <1>12, <1>13, <1>14, <1>15, <1>16, <1>17, IndexKeeps

LEMMA StoreErrorKeeps ==
  ASSUME IInv, NEW w \in Workers, pc[w] \in SyncPcs, StoreError(w),
         UNCHANGED <<canonical, events, tx, clock, promised, count>>
  PROVE  IInv'
<1>1. Fail(w, "unlock") /\ pc[w] # "idle"
  BY DEF StoreError, SyncPcs
<1>2. UNCHANGED <<mem, tomb, plan, events, vec, graph, clock, forget, promised, tx, count, lease>>
  BY DEF StoreError, canonical, indexes
<1> QED
  BY <1>1, <1>2, FailKeeps

LEMMA DeleteVectorKeeps ==
  ASSUME IInv, NEW w \in Workers, DeleteVector(w)
  PROVE  IInv'
<1>1. TypeOK /\ w \in Actors /\ (LeasesLast => WorkerLeased(w))
  BY WorkerFacts
<1>2. PICK m \in Memories : m = my[w].m
  BY <1>1, Fields
<1>3. pc[w] = "delete_vec" /\ UNCHANGED <<canonical, events, tx, clock, promised, count>>
  BY DEF DeleteVector
<1>4. CASE StoreError(w)
  BY <1>3, <1>4, StoreErrorKeeps DEF SyncPcs
<1>5. CASE vec' = [vec EXCEPT ![m] = 0] /\ Renewed(w, "delete_graph") /\ UNCHANGED graph
  <2>1. mem' = mem /\ tomb' = tomb /\ forget' = forget /\ plan' = plan
    BY <1>3 DEF canonical
  <2>2. /\ vec' \in [Memories -> Nat] /\ vec'[m] = 0 /\ \A d \in Memories : d # m => vec'[d] = vec[d]
        /\ graph' \in [Memories -> Nat] /\ plan' \in [Memories -> Plan]
    BY <1>1, <1>5, <2>1 DEF TypeOK
  <2>3. LeasesLast => ~Live(m)
    BY <1>1, <1>2, <1>3 DEF WorkerLeased
  <2>4. DeadCleared(m)
    BY <1>5, <2>2 DEF DeadCleared
  <2>5. pc[w] \in SyncPcs \ {"invalidate", "unlock"} /\ "delete_graph" \in SyncPcs \ {"unlock"}
    BY <1>3 DEF SyncPcs
  <2>6. LeasesLast /\ EventMine(w)' /\ pc'[w] = "delete_graph" /\ my' = my /\ lease'.live /\ lease'.owner = w
           /\ (Live(m)' <=> Live(m)) => WorkerLeased(w)'
    <3> HIDE DEF Live
    <3> QED
      BY <1>2, <2>2, <2>3 DEF WorkerLeased
  <2> QED
    BY <1>2, <1>3, <1>5, <2>1, <2>2, <2>3, <2>4, <2>5, <2>6, RenewedKeeps
<1> QED
  BY <1>2, <1>4, <1>5 DEF DeleteVector

LEMMA DeleteGraphKeeps ==
  ASSUME IInv, NEW w \in Workers, DeleteGraph(w)
  PROVE  IInv'
<1>1. TypeOK /\ w \in Actors /\ (LeasesLast => WorkerLeased(w))
  BY WorkerFacts
<1>2. PICK m \in Memories : m = my[w].m
  BY <1>1, Fields
<1>3. pc[w] = "delete_graph" /\ UNCHANGED <<canonical, events, tx, clock, promised, count>>
  BY DEF DeleteGraph
<1>4. CASE StoreError(w)
  BY <1>3, <1>4, StoreErrorKeeps DEF SyncPcs
<1>5. CASE graph' = [graph EXCEPT ![m] = 0] /\ Renewed(w, "invalidate") /\ UNCHANGED vec
  <2>1. mem' = mem /\ tomb' = tomb /\ forget' = forget /\ plan' = plan
    BY <1>3 DEF canonical
  <2>2. /\ graph' \in [Memories -> Nat] /\ graph'[m] = 0 /\ \A d \in Memories : d # m => graph'[d] = graph[d]
        /\ vec' \in [Memories -> Nat] /\ plan' \in [Memories -> Plan]
    BY <1>1, <1>5, <2>1 DEF TypeOK
  <2>3. LeasesLast => ~Live(m) /\ vec[m] = 0
    BY <1>1, <1>2, <1>3 DEF WorkerLeased
  <2>4. DeadCleared(m)
    BY <1>5, <2>2 DEF DeadCleared
  <2>5. pc[w] \in SyncPcs \ {"invalidate", "unlock"} /\ "invalidate" \in SyncPcs \ {"unlock"}
    BY <1>3 DEF SyncPcs
  <2>6. LeasesLast /\ EventMine(w)' /\ pc'[w] = "invalidate" /\ my' = my /\ lease'.live /\ lease'.owner = w
           /\ (Live(m)' <=> Live(m)) => WorkerLeased(w)'
    <3>1. LeasesLast /\ (Live(m)' <=> Live(m)) => Synced(m)' /\ ~Live(m)'
      BY <1>5, <2>2, <2>3 DEF Synced
    <3> HIDE DEF Live
    <3> QED
      BY <1>2, <3>1 DEF WorkerLeased
  <2> QED
    BY <1>2, <1>3, <1>5, <2>1, <2>2, <2>3, <2>4, <2>5, <2>6, RenewedKeeps
<1> QED
  BY <1>2, <1>4, <1>5 DEF DeleteGraph

LEMMA WriteVectorKeeps ==
  ASSUME IInv, NEW w \in Workers, WriteVector(w)
  PROVE  IInv'
<1>1. TypeOK /\ w \in Actors /\ (LeasesLast => WorkerLeased(w))
  BY WorkerFacts
<1>2. PICK m \in Memories : m = my[w].m /\ my[w].rows[m].rev \in Nat
  BY <1>1, Fields DEF Row
<1>3. pc[w] = "write_vec" /\ UNCHANGED <<canonical, events, tx, clock, promised, count>>
  BY DEF WriteVector
<1>4. CASE StoreError(w)
  BY <1>3, <1>4, StoreErrorKeeps DEF SyncPcs
<1>5. CASE vec' = [vec EXCEPT ![m] = my[w].rows[m].rev] /\ Goto(w, "read_plan") /\ UNCHANGED <<graph, lease, my>>
  <2>1. mem' = mem /\ tomb' = tomb /\ forget' = forget /\ plan' = plan
    BY <1>3 DEF canonical
  <2>2. /\ vec' \in [Memories -> Nat] /\ vec'[m] = my[w].rows[m].rev /\ \A d \in Memories : d # m => vec'[d] = vec[d]
        /\ graph' \in [Memories -> Nat] /\ plan' \in [Memories -> Plan]
    BY <1>1, <1>2, <1>5, <2>1 DEF TypeOK
  <2>3. LeasesLast => /\ Live(m) /\ events[my[w].e].kind = "sync"
                      /\ OtherSync(w) \/ mem[m].rev = my[w].rows[m].rev
    BY <1>1, <1>2, <1>3 DEF WorkerLeased
  <2>4. pc[w] \in SyncPcs \ {"invalidate", "unlock"} /\ "read_plan" \in SyncPcs \ {"unlock"}
    BY <1>3 DEF SyncPcs
  <2>5. LeasesLast => LiveSound(m)
    <3>1. LeasesLast => my[w].e \in Events /\ Waits(my[w].e, m)
      BY <1>2, <2>4, OwnWaits
    <3>2. LeasesLast => MemLeased(m)
      BY DEF IInv, Leased
    <3>3. LeasesLast => (plan'[m].applied = plan'[m].revision => graph'[m] = plan'[m].revision)
      BY <1>5, <2>1, <2>3, <3>2 DEF MemLeased
    <3> QED
      BY <2>3, <3>1, <3>3 DEF LiveSound
  <2>6. LeasesLast /\ EventMine(w)' /\ pc'[w] = "read_plan" /\ my' = my /\ lease'.live /\ lease'.owner = w
           /\ (Live(m)' <=> Live(m)) /\ (OtherSync(w) => OtherSync(w)') => WorkerLeased(w)'
    <3> HIDE DEF Live
    <3> QED
      BY <1>2, <2>1, <2>2, <2>3 DEF WorkerLeased
  <2> QED
    BY <1>2, <1>3, <1>5, <2>1, <2>2, <2>3, <2>4, <2>5, <2>6, RenewedKeeps
<1> QED
  BY <1>2, <1>4, <1>5 DEF WriteVector

LEMMA WriteGraphKeeps ==
  ASSUME IInv, NEW w \in Workers, WriteGraph(w)
  PROVE  IInv'
<1>1. TypeOK /\ w \in Actors /\ (LeasesLast => WorkerLeased(w))
  BY WorkerFacts
<1>2. PICK m \in Memories : m = my[w].m /\ my[w].plan.revision \in Nat /\ plan[m] \in Plan /\ MemBase(m)
  BY <1>1, Fields DEF Plan, IInv, Base
<1>3. pc[w] = "write_graph" /\ UNCHANGED <<canonical, events, tx, clock, promised, count>>
  BY DEF WriteGraph
<1>4. CASE StoreError(w)
  BY <1>3, <1>4, StoreErrorKeeps DEF SyncPcs
<1>5. CASE graph' = [graph EXCEPT ![m] = my[w].plan.revision] /\ Renewed(w, "ack") /\ UNCHANGED vec
  <2>1. mem' = mem /\ tomb' = tomb /\ forget' = forget /\ plan' = plan
    BY <1>3 DEF canonical
  <2>2. /\ graph' \in [Memories -> Nat] /\ graph'[m] = my[w].plan.revision /\ \A d \in Memories : d # m => graph'[d] = graph[d]
        /\ vec' \in [Memories -> Nat] /\ plan' \in [Memories -> Plan]
    BY <1>1, <1>2, <1>5, <2>1 DEF TypeOK
  <2>3. LeasesLast => /\ Live(m) /\ (OtherSync(w) \/ vec[m] = mem[m].rev) /\ my[w].plan.revision # 0
                      /\ plan[m].revision = my[w].plan.revision \/ (OtherWaits(w) /\ plan[m].applied = 0)
    BY <1>1, <1>2, <1>3 DEF WorkerLeased
  <2>4. pc[w] \in SyncPcs \ {"invalidate", "unlock"} /\ "ack" \in SyncPcs \ {"unlock"}
    BY <1>3 DEF SyncPcs
  <2>5. LeasesLast => LiveSound(m)
    <3>1. LeasesLast => my[w].e \in Events /\ Waits(my[w].e, m)
      BY <1>2, <2>4, OwnWaits
    <3>2. LeasesLast => (plan'[m].applied = plan'[m].revision => graph'[m] = plan'[m].revision)
      BY <1>2, <2>1, <2>2, <2>3 DEF MemBase
    <3>3. OtherSync(w) => \E e \in Events : Waits(e, m) /\ events[e].kind = "sync"
      BY <1>2 DEF OtherSync
    <3> QED
      BY <1>5, <2>3, <3>1, <3>2, <3>3 DEF LiveSound
  <2>6. LeasesLast /\ EventMine(w)' /\ pc'[w] = "ack" /\ my' = my /\ lease'.live /\ lease'.owner = w
           /\ (Live(m)' <=> Live(m)) /\ (OtherWaits(w) => OtherWaits(w)') /\ (OtherSync(w) => OtherSync(w)') => WorkerLeased(w)'
    <3> HIDE DEF Live
    <3> QED
      BY <1>2, <1>5, <2>1, <2>2, <2>3 DEF WorkerLeased
  <2> QED
    BY <1>2, <1>3, <1>5, <2>1, <2>2, <2>3, <2>4, <2>5, <2>6, RenewedKeeps
<1> QED
  BY <1>2, <1>4, <1>5 DEF WriteGraph

LEMMA AcknowledgeGraphKeeps ==
  ASSUME IInv, NEW w \in Workers, AcknowledgeGraph(w)
  PROVE  IInv'
<1>1. TypeOK /\ w \in Actors /\ (LeasesLast => WorkerLeased(w))
  BY WorkerFacts
<1>2. PICK m \in Memories : m = my[w].m /\ my[w].plan.revision \in Nat /\ plan[m] \in Plan
  BY <1>1, Fields DEF Plan
<1>3. /\ pc[w] = "ack" /\ plan' = AcknowledgedPlan(m, my[w].plan.revision) /\ Renewed(w, "invalidate")
      /\ UNCHANGED <<mem, tomb, forget, events, vec, graph, tx, clock, promised, count>>
  BY <1>2 DEF AcknowledgeGraph, indexes
<1>4. PICK rev \in Nat : rev = my[w].plan.revision
  BY <1>2
<1>5. /\ plan' \in [Memories -> Plan] /\ plan'[m].source = plan[m].source /\ plan'[m].revision = plan[m].revision
      /\ IF plan[m].revision = rev THEN plan'[m].applied = rev ELSE plan'[m] = plan[m]
      /\ \A d \in Memories : d # m => plan'[d] = plan[d]
  BY <1>1, <1>3, <1>4 DEF AcknowledgedPlan, TypeOK, Plan
<1>6. LeasesLast => /\ Live(m) /\ (OtherSync(w) \/ vec[m] = mem[m].rev) /\ graph[m] = rev
                    /\ plan[m].revision = rev \/ OtherWaits(w)
  BY <1>1, <1>2, <1>3, <1>4 DEF WorkerLeased
<1>7. pc[w] \in SyncPcs \ {"invalidate", "unlock"} /\ "invalidate" \in SyncPcs \ {"unlock"}
  BY <1>3 DEF SyncPcs
<1>8. LeasesLast => LiveSound(m)
  <2>1. LeasesLast => my[w].e \in Events /\ Waits(my[w].e, m)
    BY <1>2, <1>7, OwnWaits
  <2>2. OtherSync(w) => \E e \in Events : Waits(e, m) /\ events[e].kind = "sync"
    BY <1>2 DEF OtherSync
  <2>3. CASE plan[m].revision = rev
    BY <1>3, <1>5, <1>6, <2>1, <2>2, <2>3 DEF LiveSound
  <2>4. CASE plan[m].revision # rev
    BY <1>3, <1>5, <2>4 DEF LiveSound
  <2> QED
    BY <2>3, <2>4
<1>9. LeasesLast /\ EventMine(w)' /\ pc'[w] = "invalidate" /\ my' = my /\ lease'.live /\ lease'.owner = w
           /\ (Live(m)' <=> Live(m)) /\ (OtherWaits(w) => OtherWaits(w)') /\ (OtherSync(w) => OtherSync(w)') => WorkerLeased(w)'
  <2>1. OtherSync(w) => OtherWaits(w)
    BY DEF OtherSync, OtherWaits
  <2>2. LeasesLast /\ (Live(m)' <=> Live(m)) => OtherWaits(w) \/ Synced(m)'
    BY <1>3, <1>5, <1>6, <2>1 DEF Synced, Live, Inactive
  <2>3. LeasesLast => OtherSync(w) \/ vec'[m] = mem'[m].rev
    BY <1>3, <1>6
  <2> HIDE DEF Live, Synced
  <2> QED
    BY <1>2, <2>2, <2>3 DEF WorkerLeased
<1>10. vec' \in [Memories -> Nat] /\ graph' \in [Memories -> Nat]
  BY <1>1, <1>3 DEF TypeOK
<1>11. LeasesLast => IF Live(m) THEN LiveSound(m) ELSE DeadCleared(m)
  BY <1>6, <1>8
<1> QED
  BY <1>2, <1>3, <1>5, <1>7, <1>9, <1>10, <1>11, RenewedKeeps

-----------------------------------------------------------------------------
(* Commits: a row, its plan and a new event.                               *)

\* The event of a commit, before a worker has claimed it.
IsPosted(e, m, kind) ==
  e \in Event /\ e.mem = m /\ e.kind = kind /\ e.status = "pending" /\ e.owner = Nobody

\* A new event of either kind is a well-formed pending event.
LEMMA PostedTyped ==
  ASSUME NEW m \in Memories
  PROVE  /\ IsPosted([NoEvent EXCEPT !.mem = m, !.status = "pending"], m, "sync")
         /\ IsPosted([NoEvent EXCEPT !.mem = m, !.kind = "replay", !.status = "pending"], m, "replay")
<1>1. NoEvent \in Event /\ NoEvent.kind = "sync" /\ NoEvent.owner = Nobody
  BY NothingTyped DEF NoEvent
<1> QED
  BY <1>1 DEF IsPosted, Event

LEMMA CommitKeeps ==
  ASSUME IInv, NEW c \in Clients, NEW m \in Memories, NEW r \in Row, NEW p \in Plan, NEW kind \in {"sync", "replay"},
         tx \in {c, Nobody}, tx' = Nobody, clock < MaxClock, clock' = clock + 1,
         mem' = [mem EXCEPT ![m] = r], plan' = [plan EXCEPT ![m] = p],
         NEW event, IsPosted(event, m, kind), events' = [events EXCEPT ![clock + 1] = event],
         UNCHANGED <<tomb, vec, graph, lease, forget, promised, count>>,
         NEW label \in PcValues \ Writing, Goto(c, label),
         my' \in [Actors -> Locals], \A b \in Actors : b # c => my'[b] = my[b],
         r.status # "absent", mem[m].status \in Inactive => r.status \in Inactive,
         r = mem[m] \/ kind = "sync",
         r = mem[m] \/ (mem[m].status \notin Inactive /\ r.status = "active")
                    \/ (LeasesLast => lease.live /\ lease.owner = c),
         p.source = r.rev, p.revision = clock + 1, p.applied = 0,
         \A q \in Memories : Closed(q) /\ Affected(m, q) => mem[m].status # "absent" /\ r.status # "active",
         ClientBase(c)', LeasesLast => ClientLeased(c)'
  PROVE  IInv'
<1>1. TypeOK /\ c \in Actors /\ c \notin Workers /\ c # Nobody
  BY ClientFacts
<1>2. PICK n \in Events : n = clock + 1 /\ n > clock /\ clock' = n /\ n \in Nat /\ clock \in Nat /\ clock' \in 0 .. MaxClock
  BY <1>1, PropagationAssumption DEF TypeOK, Events
<1>3. /\ mem' \in [Memories -> Row] /\ mem'[m] = r /\ \A d \in Memories : d # m => mem'[d] = mem[d]
      /\ p.revision # 0
      /\ plan' \in [Memories -> Plan] /\ plan'[m] = p /\ \A d \in Memories : d # m => plan'[d] = plan[d]
  BY <1>1, <1>2 DEF TypeOK
<1>4. /\ events' \in [Events -> Event] /\ events'[n].mem = m /\ events'[n].kind = kind
      /\ events'[n].status = "pending" /\ events'[n].owner = Nobody
      /\ \A o \in Events : o # n => events'[o] = events[o]
  BY <1>1, <1>2 DEF TypeOK, IsPosted
<1>5. events[n].status = "none"
  BY <1>2 DEF IInv, Base, EventBase
<1>6. pc' \in [Actors -> PcValues] /\ pc'[c] = label /\ \A b \in Actors : b # c => pc'[b] = pc[b]
  BY <1>1, GotoTyped
<1>7. TypeOK'
  <2>1. /\ tomb' \in [Sources -> {"none", "soft", "redact"}] /\ forget' \in [Memories -> Progress]
        /\ vec' \in [Memories -> Nat] /\ graph' \in [Memories -> Nat]
        /\ lease' \in [owner: Actors \cup {Nobody}, live: BOOLEAN]
        /\ promised' \in SUBSET (Memories \X BOOLEAN)
        /\ tx' \in Clients \cup {Nobody} /\ count' \in [calls: Nat, crashes: Nat, lapses: Nat]
    BY <1>1 DEF TypeOK
  <2> QED
    BY <1>2, <1>3, <1>4, <1>6, <2>1, TypeNext
<1>8. Others(c)
  BY <1>6 DEF Others
<1>9. ASSUME NEW q \in Memories, Closed(q)
      PROVE  /\ Closed(q)'
             /\ \A d \in Memories : Affected(d, q) =>
                  /\ mem[d].status = "absent" => mem'[d].status = "absent"
                  /\ mem[d].status # "active" => mem'[d].status # "active"
  <2>1. mem'[q].status \in Inactive /\ \A s \in SourcesOf[q] : tomb'[s] # "none"
    BY <1>3, <1>9 DEF Closed
  <2>2. \A b \in Clients : pc'[b] \in Writing => ~Affected(my'[b].m, q)
    BY <1>6, <1>9 DEF Closed, Actors
  <2>3. \A d \in Memories : Affected(d, q) =>
                  /\ mem[d].status = "absent" => mem'[d].status = "absent"
                  /\ mem[d].status # "active" => mem'[d].status # "active"
    <3>1. Affected(m, q) => mem[m].status # "absent" /\ r.status # "active"
      BY <1>9
    <3> HIDE DEF Affected
    <3> QED
      BY <1>3, <3>1
  <2> QED
    BY <2>1, <2>2, <2>3 DEF Closed, Affected
<1>10. CanonKept(c)
  <2>1. \A b \in Clients : b # c /\ tx = b => FALSE
    BY PropagationAssumption DEF Actors
  <2>2. \A d \in Memories : /\ mem[d].status # "absent" => mem'[d].status # "absent"
                            /\ mem[d].status \in Inactive => mem'[d].status \in Inactive
    BY <1>3
  <2> QED
    BY <1>9, <2>1, <2>2 DEF CanonKept
<1>11. LeasesLast' <=> LeasesLast
  BY DEF LeasesLast
<1>12. ASSUME NEW e \in Events PROVE Done(e)' <=> Done(e)
  BY <1>1, <1>6 DEF Done, Actors
<1>13. EventsKept(c)
  <2>1. \A e \in Events, d \in Memories : Waits(e, d) => Waits(e, d)'
    BY <1>4, <1>5, <1>12 DEF Waits
  <2>2. \A e \in Events : events[e].status # "none" =>
          events'[e].kind = events[e].kind /\ events'[e].mem = events[e].mem /\ events'[e].status # "none"
    BY <1>4, <1>5
  <2>3. \A w \in Workers : EventMine(w) => events'[my[w].e] = events[my[w].e]
    BY <1>4, <1>5 DEF EventMine
  <2> QED
    BY <2>1, <2>2, <2>3 DEF EventsKept
<1>14. LeasesLast => Waits(n, m)'
  <2>1. ASSUME LeasesLast, NEW w \in Workers, pc[w] \in {"unlock", "finish"} PROVE my[w].e # n
    BY <1>5, <2>1, WorkerFacts DEF WorkerLeased, EventMine
  <2>2. LeasesLast => ~Done(n)
    BY <2>1 DEF Done
  <2> QED
    BY <1>4, <1>12, <2>2 DEF Waits
<1>15. LeasesLast => News(m) /\ (kind = "sync" => NewSync(m))
  BY <1>4, <1>5, <1>14 DEF News, NewSync
<1>16. ASSUME LeasesLast, NEW b \in Actors, b # c, lease.live, lease.owner = b PROVE LeaseKept(b)
  <2>1. r = mem[m] \/ (mem[m].status \notin Inactive /\ r.status = "active")
    BY <1>16
  <2>2. r = mem[m] \/ NewSync(m)
    BY <1>15, <1>16
  <2>3. \A d \in Memories : mem'[d] = mem[d] \/ (/\ mem[d].status \notin Inactive
                                                /\ mem'[d].status = "active" /\ NewSync(d))
    BY <1>3, <2>1, <2>2
  <2>4. \A d \in Memories : plan'[d] = plan[d] \/ (plan'[d].applied = 0 /\ News(d))
    BY <1>3, <1>15, <1>16
  <2> QED
    BY <1>16, <2>3, <2>4 DEF LeaseKept
<1>17. ASSUME NEW d \in Memories, d # m
       PROVE  /\ mem'[d] = mem[d] /\ plan'[d] = plan[d] /\ vec' = vec /\ graph' = graph
              /\ (Live(d)' <=> Live(d)) /\ (Synced(d)' <=> Synced(d))
  <2>1. mem'[d] = mem[d] /\ plan'[d] = plan[d]
    BY <1>3, <1>17
  <2>2. Live(d)' <=> Live(d)
    BY <2>1 DEF Live, Tombstoned
  <2> HIDE DEF Live
  <2> QED
    BY <2>1, <2>2 DEF Synced
<1>18. ASSUME NEW d \in Memories PROVE MemBase(d)'
  <2>1. CASE d = m
    BY <1>3, <2>1 DEF MemBase
  <2>2. CASE d # m
    <3>1. MemBase(d)
      BY DEF IInv, Base
    <3> HIDE DEF Live
    <3> QED
      BY <1>17, <2>2, <3>1 DEF MemBase
  <2> QED
    BY <2>1, <2>2
<1>19. ASSUME NEW e \in Events PROVE EventBase(e)'
  <2>1. CASE e = n
    BY <1>2, <1>3, <1>4, <2>1 DEF EventBase
  <2>2. CASE e # n
    <3>1. events'[e] = events[e] /\ EventBase(e) /\ events[e].mem \in Memories
      BY <1>1, <1>4, <2>2 DEF IInv, Base, TypeOK, Event
    <3>3. e > clock' => e > clock
      BY <1>2, PropagationAssumption DEF Events
    <3>2. mem[events[e].mem].status # "absent" => mem'[events[e].mem].status # "absent"
      BY <1>10, <3>1 DEF CanonKept
    <3> QED
      BY <3>1, <3>2, <3>3 DEF EventBase
  <2> QED
    BY <2>1, <2>2
<1>20. ASSUME LeasesLast, NEW d \in Memories PROVE MemLeased(d)'
  <2>1. MemLeased(d)
    BY <1>20 DEF IInv, Leased
  <2>2. \A e \in Events : Waits(e, d) => Waits(e, d)' /\ events'[e].kind = events[e].kind
    BY <1>1, <1>13 DEF EventsKept, Waits
  <2>3. Gone(d) => Gone(d)'
    <3>1. ASSUME Gone(d) PROVE Closed(d)' /\ \A x \in Memories : Affected(x, d) => mem'[x].status # "active"
      BY <1>10, <3>1 DEF CanonKept, Gone
    <3> QED
      BY <3>1 DEF Gone, Affected
  <2>4. IsPromised(d)' => Gone(d)'
    BY <2>1, <2>3 DEF MemLeased, IsPromised
  <2>5. CASE d = m
    <3>1. Waits(n, m)' /\ events'[n].kind = kind
      BY <1>4, <1>14, <1>20
    <3>2. plan'[m].applied = 0 /\ plan'[m].revision # 0
      BY <1>3
    <3>3. kind # "sync" => mem'[m] = mem[m] /\ (Live(m)' <=> Live(m))
      BY <1>3 DEF Live, Tombstoned
    <3>4. Live(m)' => vec'[m] = mem'[m].rev \/ \E e \in Events : Waits(e, m)' /\ events'[e].kind = "sync"
      <4>1. CASE kind = "sync"
        BY <3>1, <4>1
      <4>2. CASE kind # "sync"
        <5> HIDE DEF Live
        <5> QED
          BY <2>1, <2>2, <2>5, <3>3, <4>2 DEF MemLeased
      <4> QED
        BY <4>1, <4>2
    <3> QED
      BY <2>4, <2>5, <3>1, <3>2, <3>4 DEF MemLeased
  <2>6. CASE d # m
    <3> HIDE DEF Live
    <3> QED
      BY <1>17, <2>1, <2>2, <2>4, <2>6 DEF MemLeased
  <2> QED
    BY <2>5, <2>6
<1> HIDE DEF LeasesLast
<1> QED
  BY <1>1, <1>7, <1>8, <1>10, <1>11, <1>13, <1>16, <1>18, <1>19, <1>20, StepKeeps

\* An ingest that passed the check is of a memory that no completed forget concerns.
LEMMA IngestCommitKeeps ==
  ASSUME IInv, NEW c \in Clients, IngestCommit(c)
  PROVE  IInv'
<1>1. TypeOK /\ c \in Actors /\ ClientBase(c) /\ clock \in Nat
  BY ClientFacts DEF TypeOK
<1>2. PICK m \in Memories : m = my[c].m
  BY <1>1, Fields
<1> DEFINE r == [status |-> "active", rev |-> clock + 1, clear |-> TRUE]
           p == [source |-> clock + 1, revision |-> clock + 1, applied |-> 0]
<1>3. /\ pc[c] = "commit" /\ EndCall(c) /\ tx' = Nobody /\ clock < MaxClock /\ clock' = clock + 1
      /\ mem' = [mem EXCEPT ![m] = r] /\ plan' = [plan EXCEPT ![m] = p]
      /\ events' = [events EXCEPT ![clock + 1] = [NoEvent EXCEPT !.mem = m, !.status = "pending"]]
      /\ UNCHANGED <<tomb, vec, graph, lease, forget, promised, count>>
  BY <1>2 DEF IngestCommit, CommitMemory, indexes
<1>4. IsPosted([NoEvent EXCEPT !.mem = m, !.status = "pending"], m, "sync")
  BY PostedTyped
<1>5. r \in Row /\ p \in Plan /\ r.status = "active" /\ p.source = r.rev /\ p.revision = clock + 1 /\ p.applied = 0
  BY <1>1 DEF Row, Plan
<1>6. tx = c /\ mem[m].status \notin Inactive /\ "active" \notin Inactive
  BY <1>1, <1>2, <1>3 DEF ClientBase, Writing, Inactive
<1>7. \A q \in Memories : Closed(q) => ~Affected(m, q)
  BY <1>2, <1>3 DEF Closed, Writing
<1>8. /\ Goto(c, "idle") /\ "idle" \in PcValues \ Writing /\ pc'[c] = "idle"
      /\ my' \in [Actors -> Locals] /\ \A b \in Actors : b # c => my'[b] = my[b]
  BY <1>1, <1>3, EndCallTyped DEF Writing
<1>9. ClientBase(c)' /\ ClientLeased(c)'
  BY <1>8, OutsideBase
<1> HIDE DEF r, p
<1> QED
  BY <1>3, <1>4, <1>5, <1>6, <1>7, <1>8, <1>9, CommitKeeps

LEMMA ReplayCommitKeeps ==
  ASSUME IInv, NEW c \in Clients, ReplayCommit(c)
  PROVE  IInv'
<1>1. TypeOK /\ c \in Actors /\ ClientBase(c) /\ clock \in Nat
  BY ClientFacts DEF TypeOK
<1>2. PICK m \in Memories : m = my[c].m /\ mem[m] \in Row /\ plan[m] \in Plan /\ mem[m].rev \in Nat
  BY <1>1, Fields DEF Row
<1> DEFINE p == [plan[m] EXCEPT !.revision = clock + 1, !.source = mem[m].rev, !.applied = 0]
           event == [NoEvent EXCEPT !.mem = m, !.kind = "replay", !.status = "pending"]
<1>3. /\ pc[c] = "replay_commit" /\ EndCall(c) /\ tx' = Nobody /\ clock < MaxClock /\ clock' = clock + 1
      /\ plan' = [plan EXCEPT ![m].revision = clock + 1, ![m].source = mem[m].rev, ![m].applied = 0]
      /\ events' = [events EXCEPT ![clock + 1] = event]
      /\ UNCHANGED <<mem, tomb, vec, graph, lease, forget, promised, count>>
  BY <1>2 DEF ReplayCommit, indexes
<1>4. plan' = [plan EXCEPT ![m] = p] /\ IsPosted(event, m, "replay")
  BY <1>1, <1>2, <1>3, PostedTyped DEF TypeOK, Plan
<1>5. mem' = [mem EXCEPT ![m] = mem[m]]
  BY <1>1, <1>3 DEF TypeOK
<1>6. p \in Plan /\ p.source = mem[m].rev /\ p.revision = clock + 1 /\ p.applied = 0
  <2>1. PICK n \in Nat : n = clock + 1
    BY <1>1
  <2>2. PICK rev \in Nat : rev = mem[m].rev
    BY <1>2
  <2>3. PICK q \in Plan : q = plan[m]
    BY <1>2
  <2>4. [q EXCEPT !.revision = n, !.source = rev, !.applied = 0] = p
    BY <2>1, <2>2, <2>3
  <2>5. /\ [q EXCEPT !.revision = n, !.source = rev, !.applied = 0] \in Plan
        /\ [q EXCEPT !.revision = n, !.source = rev, !.applied = 0].source = rev
        /\ [q EXCEPT !.revision = n, !.source = rev, !.applied = 0].revision = n
        /\ [q EXCEPT !.revision = n, !.source = rev, !.applied = 0].applied = 0
    BY DEF Plan
  <2> HIDE DEF p
  <2> QED
    BY <2>1, <2>2, <2>4, <2>5
<1>7. tx \in {c, Nobody} /\ mem[m].status = "active" /\ mem[m].status # "absent" /\ mem[m].status \notin Inactive
  BY <1>1, <1>2, <1>3 DEF ClientBase, Writing, Inactive
<1>8. \A q \in Memories : Closed(q) => ~Affected(m, q)
  BY <1>2, <1>3 DEF Closed, Writing
<1>9. /\ Goto(c, "idle") /\ "idle" \in PcValues \ Writing /\ pc'[c] = "idle"
      /\ my' \in [Actors -> Locals] /\ \A b \in Actors : b # c => my'[b] = my[b]
  BY <1>1, <1>3, EndCallTyped DEF Writing
<1>10. ClientBase(c)' /\ ClientLeased(c)'
  BY <1>9, OutsideBase
<1> HIDE DEF p, event
<1> QED
  BY <1>2, <1>3, <1>4, <1>5, <1>6, <1>7, <1>8, <1>9, <1>10, CommitKeeps

\* update_memory under the tenant lock: from here on the memory is closed.
LEMMA ForgetUpdateKeeps ==
  ASSUME IInv, NEW c \in Clients, ForgetUpdate(c)
  PROVE  IInv'
<1>1. TypeOK /\ c \in Actors /\ ClientBase(c) /\ clock \in Nat /\ (LeasesLast => ClientLeased(c))
  BY ClientFacts DEF TypeOK
<1>2. PICK m \in Memories : m = my[c].m /\ my[c].rows[m] \in Row
  BY <1>1, Fields
<1>3. PICK old \in Row : old = my[c].rows[m] /\ old.status \in Inactive /\ pc[c] = "update"
  BY <1>1, <1>2 DEF ClientBase, ForgetUpdate
<1> DEFINE r == [status |-> old.status, rev |-> clock + 1, clear |-> old.clear]
           p == [source |-> clock + 1, revision |-> clock + 1, applied |-> 0]
<1>4. /\ Goto(c, "list") /\ tx = Nobody /\ tx' = Nobody /\ clock < MaxClock /\ clock' = clock + 1
      /\ mem' = [mem EXCEPT ![m] = r] /\ plan' = [plan EXCEPT ![m] = p]
      /\ events' = [events EXCEPT ![clock + 1] = [NoEvent EXCEPT !.mem = m, !.status = "pending"]]
      /\ UNCHANGED <<tomb, vec, graph, lease, forget, promised, count, my>>
  BY <1>2, <1>3 DEF ForgetUpdate, CommitMemory, indexes
<1>5. IsPosted([NoEvent EXCEPT !.mem = m, !.status = "pending"], m, "sync")
  BY PostedTyped
<1>6. /\ r \in Row /\ p \in Plan /\ r.status \in Inactive /\ r.status # "absent" /\ r.status # "active"
      /\ p.source = r.rev /\ p.revision = clock + 1 /\ p.applied = 0
  BY <1>1, <1>3 DEF Row, Plan, Inactive
<1>7. mem[m].status # "absent" /\ \A s \in SourcesOf[m] : tomb[s] # "none"
  BY <1>1, <1>2, <1>3 DEF ClientBase, ForgetPcs
<1>8. LeasesLast => lease.live /\ lease.owner = c
  BY <1>1, <1>3 DEF ClientLeased, ForgetPcs
<1>9. "list" \in PcValues \ Writing /\ "list" \in ClientPcs
  BY DEF PcValues, ClientPcs, ForgetPcs, Writing
<1>10. pc'[c] = "list" /\ \A b \in Actors : b # c => pc'[b] = pc[b]
  BY <1>1, <1>4, <1>9, GotoTyped
<1>11. mem'[m] = r
  BY <1>1, <1>4 DEF TypeOK
<1>12. \A b \in Clients : pc'[b] \notin Writing
  <2>1. \A b \in Clients : b # Nobody /\ ClientBase(b)
    BY ClientFacts
  <2>2. \A b \in Clients : pc[b] \notin Writing
    BY <1>4, <2>1 DEF ClientBase
  <2> QED
    BY <1>9, <1>10, <2>2 DEF Actors
<1>13. Closed(m)'
  BY <1>4, <1>6, <1>7, <1>11, <1>12 DEF Closed
<1>14. ClientBase(c)'
  BY <1>2, <1>4, <1>6, <1>9, <1>10, <1>11, <1>13 DEF ClientBase, Writing
<1>15. LeasesLast => ClientLeased(c)'
  BY <1>4, <1>8, <1>10 DEF ClientLeased
<1>16. my' \in [Actors -> Locals] /\ \A b \in Actors : b # c => my'[b] = my[b]
  BY <1>1, <1>4 DEF TypeOK
<1>17. \A q \in Memories : Closed(q) /\ Affected(m, q) => mem[m].status # "absent" /\ r.status # "active"
  BY <1>6, <1>7
<1>18. tx \in {c, Nobody} /\ (mem[m].status \in Inactive => r.status \in Inactive)
  BY <1>4, <1>6
<1> DEFINE event == [NoEvent EXCEPT !.mem = m, !.status = "pending"]
<1>19. events' = [events EXCEPT ![clock + 1] = event] /\ IsPosted(event, m, "sync")
  BY <1>4, <1>5
<1>20. /\ Goto(c, "list") /\ tx' = Nobody /\ clock < MaxClock /\ clock' = clock + 1
       /\ mem' = [mem EXCEPT ![m] = r] /\ plan' = [plan EXCEPT ![m] = p]
       /\ UNCHANGED <<tomb, vec, graph, lease, forget, promised, count>>
  BY <1>4
<1>21. r = mem[m] \/ (mem[m].status \notin Inactive /\ r.status = "active")
                  \/ (LeasesLast => lease.live /\ lease.owner = c)
  BY <1>8
<1> HIDE DEF r, p, event
<1> QED
  BY SMTT(15), ZenonT(30), <1>6, <1>9, <1>14, <1>15, <1>16, <1>17, <1>18, <1>19, <1>20, <1>21, CommitKeeps

\* What the cascade knows of itself.
LEMMA CascadeFacts ==
  ASSUME IInv, NEW c \in Clients, pc[c] = "cascade"
  PROVE  /\ TypeOK /\ c \in Actors /\ my[c] \in Locals /\ my[c].m \in Memories /\ my[c].ok \in BOOLEAN
         /\ my[c].redact \in BOOLEAN /\ my[c].rows \in [Memories -> Row]
         /\ my[c].affected \in SUBSET Memories /\ my[c].todo \subseteq my[c].affected
         /\ Closed(my[c].m) /\ mem[my[c].m].status # "absent"
         /\ \A d \in my[c].affected : Affected(d, my[c].m)
         /\ \A d \in my[c].todo : mem[d].status # "absent"
         /\ Goto(c, "cascade") <=> pc' = pc
<1>1. TypeOK /\ c \in Actors /\ ClientBase(c)
  BY ClientFacts
<1>2. my[c] \in Locals /\ my[c].m \in Memories /\ my[c].ok \in BOOLEAN /\ my[c].rows \in [Memories -> Row]
      /\ my[c].affected \in SUBSET Memories /\ my[c].redact \in BOOLEAN
  BY <1>1, Fields
<1>3. Goto(c, "cascade") <=> pc' = pc
  BY <1>1 DEF Goto, TypeOK
<1> QED
  BY <1>1, <1>2, <1>3 DEF ClientBase, ForgetPcs

\* The part of a client's invariant that the cascade leaves as it is.
LEMMA CascadeBase ==
  ASSUME IInv, NEW c \in Clients, pc[c] = "cascade", NEW d \in my[c].todo, NEW ok \in BOOLEAN,
         my' = [my EXCEPT ![c].todo = @ \ {d}, ![c].ok = ok], UNCHANGED <<pc, tomb>>,
         \A x \in Memories : mem[x].status # "absent" => mem'[x].status # "absent",
         \A x \in Memories : mem[x].status \in Inactive => mem'[x].status \in Inactive
  PROVE  /\ ClientBase(c)' /\ my' \in [Actors -> Locals] /\ \A b \in Actors : b # c => my'[b] = my[b]
         /\ my'[c].m = my[c].m /\ my'[c].todo = my[c].todo \ {d} /\ my'[c].ok = ok
         /\ my'[c].rows = my[c].rows /\ my'[c].affected = my[c].affected
<1>1. PICK m \in Memories : m = my[c].m
  BY CascadeFacts
<1>2. /\ TypeOK /\ c \in Actors /\ my[c] \in Locals
      /\ my[c].affected \in SUBSET Memories /\ my[c].todo \subseteq my[c].affected
      /\ Closed(m) /\ mem[m].status # "absent"
      /\ \A x \in my[c].affected : Affected(x, m)
      /\ \A x \in my[c].todo : mem[x].status # "absent"
  BY <1>1, CascadeFacts
<1>3. PICK l \in Locals : l = [my[c] EXCEPT !.todo = @ \ {d}, !.ok = ok] /\ l.m = m /\ l.todo = my[c].todo \ {d}
        /\ l.ok = ok /\ l.rows = my[c].rows /\ l.affected = my[c].affected
  <2>1. PICK k \in Locals : k = my[c]
    BY <1>2
  <2>2. k.todo \ {d} \in SUBSET (Memories \cup Sources)
    BY DEF Locals
  <2>3. [k EXCEPT !.todo = @ \ {d}, !.ok = ok] \in Locals
    BY <2>2 DEF Locals
  <2>4. /\ [k EXCEPT !.todo = @ \ {d}, !.ok = ok].m = k.m /\ [k EXCEPT !.todo = @ \ {d}, !.ok = ok].todo = k.todo \ {d}
        /\ [k EXCEPT !.todo = @ \ {d}, !.ok = ok].ok = ok /\ [k EXCEPT !.todo = @ \ {d}, !.ok = ok].rows = k.rows
        /\ [k EXCEPT !.todo = @ \ {d}, !.ok = ok].affected = k.affected
    BY DEF Locals
  <2> QED
    BY <1>1, <2>1, <2>3, <2>4
<1>4. my' = [my EXCEPT ![c] = l]
  BY <1>2, <1>3 DEF TypeOK
<1>5. /\ my' \in [Actors -> Locals] /\ my'[c] = l /\ \A b \in Actors : b # c => my'[b] = my[b]
  BY <1>2, <1>4, MineTyped
<1>6. Closed(m)'
  <2>1. mem'[m].status \in Inactive /\ \A s \in SourcesOf[m] : tomb'[s] # "none"
    BY <1>2 DEF Closed
  <2>2. \A b \in Clients : pc'[b] \in Writing => ~Affected(my'[b].m, m)
    <3>1. c \notin Clients \/ pc[c] \notin Writing
      BY DEF Writing
    <3> QED
      BY <1>2, <1>5, <3>1 DEF Closed, Actors
  <2> QED
    BY <2>1, <2>2 DEF Closed, Affected
<1>7. \A x \in my[c].todo : mem'[x].status # "absent"
  BY <1>2
<1>8. mem'[m].status # "absent" /\ pc'[c] = "cascade"
  BY <1>2
<1>9. ClientBase(c)'
  BY <1>2, <1>3, <1>5, <1>6, <1>7, <1>8 DEF ClientBase, ClientPcs, ForgetPcs, Writing, Affected
<1> QED
  BY <1>1, <1>3, <1>5, <1>9

LEMMA ForgetCascadeKeeps ==
  ASSUME IInv, NEW c \in Clients, ForgetCascade(c)
  PROVE  IInv'
<1>1. pc[c] = "cascade" /\ UNCHANGED <<tomb, forget, vec, graph, lease, tx, promised, count>>
  BY DEF ForgetCascade, indexes
<1>2. PICK m \in Memories : m = my[c].m
  BY <1>1, CascadeFacts
<1>3. /\ TypeOK /\ c \in Actors /\ my[c] \in Locals /\ my[c].ok \in BOOLEAN
      /\ my[c].redact \in BOOLEAN /\ my[c].rows \in [Memories -> Row]
      /\ my[c].affected \in SUBSET Memories /\ my[c].todo \subseteq my[c].affected
      /\ Closed(m) /\ mem[m].status # "absent"
      /\ \A x \in my[c].affected : Affected(x, m)
      /\ \A x \in my[c].todo : mem[x].status # "absent"
      /\ Goto(c, "cascade") <=> pc' = pc
  BY <1>1, <1>2, CascadeFacts
<1>4. LeasesLast => ClientLeased(c)
  BY ClientFacts
<1>5. LeasesLast =>
        /\ lease.live /\ lease.owner = c
        /\ \A x \in my[c].todo : mem[x].status \in Inactive /\ my[c].rows[x].clear => mem[x].clear
        /\ my[c].ok => \A x \in Memories : Affected(x, m) => x \in my[c].affected \/ mem[x].status = "absent"
        /\ my[c].ok => \A x \in my[c].affected : x \in my[c].todo \/ mem[x].status # "active"
  BY <1>1, <1>2, <1>4 DEF ClientLeased, ForgetPcs
<1>6. /\ forget' \in [Memories -> Progress] /\ promised' \in SUBSET (Memories \X BOOLEAN) /\ PromisesHold
  BY <1>1, <1>3 DEF TypeOK, PromisesHold, IsPromised
<1>7. "cascade" \in ForgetPcs /\ "vectors" \in ForgetPcs /\ {"cascade", "vectors"} \subseteq PcValues \ Writing
  BY DEF ForgetPcs, PcValues, ClientPcs, Writing
<1>8. CASE my[c].todo = {} /\ Goto(c, "vectors") /\ UNCHANGED <<mem, plan, events, clock, my>>
  <2>1. pc'[c] = "vectors" /\ \A b \in Actors : b # c => pc'[b] = pc[b]
    BY <1>3, <1>7, <1>8, GotoTyped
  <2>2. my' \in [Actors -> Locals] /\ \A b \in Actors : b # c => my'[b] = my[b]
    BY <1>3, <1>8 DEF TypeOK
  <2>3. Closed(m)'
    <3>1. Others(c) /\ WriteChecked(c) /\ my'[c].m \in Memories
      BY <1>2, <1>8, <2>1, <2>2 DEF Others, WriteChecked, Writing
    <3> QED
      BY <1>1, <1>3, <1>8, <3>1, ClosedStays
  <2>4. ClientBase(c)'
    BY <1>2, <1>3, <1>8, <2>1, <2>3 DEF ClientBase, ClientPcs, ForgetPcs, Writing
  <2>5. LeasesLast => ClientLeased(c)'
    BY <1>1, <1>2, <1>5, <1>8, <2>1 DEF ClientLeased
  <2> QED
    BY <1>1, <1>6, <1>7, <1>8, <2>2, <2>4, <2>5, ForgetLocal
<1>9. ASSUME NEW d \in my[c].todo, my' = [my EXCEPT ![c].todo = @ \ {d}, ![c].ok = FALSE],
             UNCHANGED <<mem, plan, events, clock, pc>>
      PROVE  IInv'
  <2>1. /\ ClientBase(c)' /\ my' \in [Actors -> Locals] /\ \A b \in Actors : b # c => my'[b] = my[b]
        /\ my'[c].m = m /\ my'[c].todo = my[c].todo \ {d} /\ my'[c].ok = FALSE
        /\ my'[c].rows = my[c].rows /\ my'[c].affected = my[c].affected
    BY <1>1, <1>2, <1>9, CascadeBase
  <2>2. LeasesLast => ClientLeased(c)'
    BY <1>1, <1>5, <1>9, <2>1 DEF ClientLeased
  <2>3. Goto(c, "cascade")
    BY <1>3, <1>9
  <2> QED
    BY <1>1, <1>6, <1>7, <1>9, <2>1, <2>2, <2>3, ForgetLocal
<1>10. ASSUME tx = Nobody, NEW d \in my[c].todo, NEW ok \in BOOLEAN, ok => my[c].ok,
              my' = [my EXCEPT ![c].todo = @ \ {d}, ![c].ok = ok],
              CommitMemory(d, Forgotten(my[c].rows[d], my[c].redact).status, Forgotten(my[c].rows[d], my[c].redact).clear),
              UNCHANGED pc
       PROVE  IInv'
  <2>1. d \in Memories /\ Affected(d, m) /\ mem[d].status # "absent" /\ clock \in Nat /\ mem \in [Memories -> Row]
    BY <1>3 DEF TypeOK
  <2>2. PICK old \in Row : old = Forgotten(my[c].rows[d], my[c].redact) /\ old.status \in Inactive
    BY <1>3, <2>1, ForgottenRow
  <2> DEFINE r == [status |-> old.status, rev |-> clock + 1, clear |-> old.clear]
             p == [source |-> clock + 1, revision |-> clock + 1, applied |-> 0]
             event == [NoEvent EXCEPT !.mem = d, !.status = "pending"]
  <2>3. /\ clock < MaxClock /\ clock' = clock + 1
        /\ mem' = [mem EXCEPT ![d] = r] /\ plan' = [plan EXCEPT ![d] = p]
        /\ events' = [events EXCEPT ![clock + 1] = event]
    BY <1>10, <2>2 DEF CommitMemory
  <2>4. /\ r \in Row /\ p \in Plan /\ r.status \in Inactive /\ r.status # "absent" /\ r.status # "active"
        /\ p.source = r.rev /\ p.revision = clock + 1 /\ p.applied = 0
    BY <2>1, <2>2 DEF Row, Plan, Inactive
  <2>5. IsPosted(event, d, "sync")
    BY <2>1, PostedTyped
  <2> HIDE DEF r, p, event
  <2>6. mem'[d] = r /\ \A x \in Memories : x # d => mem'[x] = mem[x]
    BY <2>1, <2>3
  <2>7. /\ \A x \in Memories : mem[x].status # "absent" => mem'[x].status # "absent"
        /\ \A x \in Memories : mem[x].status \in Inactive => mem'[x].status \in Inactive
    BY <2>4, <2>6
  <2>8. /\ ClientBase(c)' /\ my' \in [Actors -> Locals] /\ \A b \in Actors : b # c => my'[b] = my[b]
        /\ my'[c].m = m /\ my'[c].todo = my[c].todo \ {d} /\ my'[c].ok = ok
        /\ my'[c].rows = my[c].rows /\ my'[c].affected = my[c].affected
    BY <1>1, <1>2, <1>10, <2>7, CascadeBase
  <2>9. ASSUME LeasesLast PROVE ClientLeased(c)'
    <3>1. lease'.live /\ lease'.owner = c
      BY <1>1, <1>5, <2>9
    <3>2. \A x \in my[c].todo \ {d} : mem'[x].status \in Inactive /\ my[c].rows[x].clear => mem'[x].clear
      BY <1>3, <1>5, <2>6, <2>9
    <3>3. ok => \A x \in Memories : Affected(x, m) => x \in my[c].affected \/ mem'[x].status = "absent"
      BY <1>3, <1>5, <1>10, <2>6, <2>9
    <3>4. ok => \A x \in my[c].affected : x \in my[c].todo \ {d} \/ mem'[x].status # "active"
      BY <1>3, <1>5, <1>10, <2>4, <2>6, <2>9
    <3> QED
      BY <1>1, <1>10, <2>8, <3>1, <3>2, <3>3, <3>4 DEF ClientLeased, Affected
  <2>10. Goto(c, "cascade") /\ "cascade" \in PcValues \ Writing
    BY <1>3, <1>7, <1>10
  <2>11. tx \in {c, Nobody} /\ tx' = Nobody
    BY <1>1, <1>10
  <2>12. r = mem[d] \/ (mem[d].status \notin Inactive /\ r.status = "active")
                    \/ (LeasesLast => lease.live /\ lease.owner = c)
    BY <1>5
  <2>13. \A q \in Memories : Closed(q) /\ Affected(d, q) => mem[d].status # "absent" /\ r.status # "active"
    BY <2>1, <2>4
  <2>14. mem[d].status \in Inactive => r.status \in Inactive
    BY <2>4
  <2>15. UNCHANGED <<tomb, vec, graph, lease, forget, promised, count>>
    BY <1>1
  <2> QED
    BY <2>1, <2>3, <2>4, <2>5, <2>8, <2>9, <2>10, <2>11, <2>12, <2>13, <2>14, <2>15, CommitKeeps
<1>11. CASE /\ tx = Nobody
            /\ \E d \in my[c].todo, drained \in {TRUE, ~StoresFail} :
                 LET r == Forgotten(my[c].rows[d], my[c].redact)
                 IN  /\ CommitMemory(d, r.status, r.clear)
                     /\ my' = [my EXCEPT ![c].todo = @ \ {d}, ![c].ok = @ /\ drained]
            /\ UNCHANGED pc
  <2>1. PICK d \in my[c].todo, drained \in BOOLEAN :
          /\ CommitMemory(d, Forgotten(my[c].rows[d], my[c].redact).status, Forgotten(my[c].rows[d], my[c].redact).clear)
          /\ my' = [my EXCEPT ![c].todo = @ \ {d}, ![c].ok = @ /\ drained]
    BY <1>11, PropagationAssumption
  <2>2. PICK ok \in BOOLEAN : ok = (my[c].ok /\ drained)
    OBVIOUS
  <2>3. my' = [my EXCEPT ![c].todo = @ \ {d}, ![c].ok = ok]
    BY <1>3, <2>1, <2>2 DEF TypeOK, Locals
  <2> QED
    BY <1>10, <1>11, <2>1, <2>2, <2>3
<1> QED
  BY <1>1, <1>8, <1>9, <1>11 DEF ForgetCascade

\* A new tombstone hides what it concerns and closes nothing that was open.
LEMMA ForgetTombKeeps ==
  ASSUME IInv, NEW c \in Clients, ForgetTomb(c)
  PROVE  IInv'
<1>1. /\ TypeOK /\ c \in Actors /\ c \notin Workers /\ my[c] \in Locals
      /\ ClientBase(c) /\ (LeasesLast => ClientLeased(c))
  BY ClientFacts, Fields
<1>2. PICK m \in Memories : m = my[c].m /\ my[c].todo \in SUBSET (Memories \cup Sources) /\ my[c].redact \in BOOLEAN
                            /\ SourcesOf[m] \in SUBSET Sources
  BY <1>1, Fields
<1>3. pc[c] = "tomb" /\ UNCHANGED <<mem, plan, forget, events, vec, graph, lease, tx, clock, promised, count>>
  BY DEF ForgetTomb, indexes
<1>4. mem[m].status # "absent" /\ (LeasesLast => lease.live /\ lease.owner = c)
  BY <1>1, <1>2, <1>3 DEF ClientBase, ClientLeased, ForgetPcs
<1>5. CASE my[c].todo = {} /\ Goto(c, "mark") /\ UNCHANGED <<tomb, my>>
  <2>1. "mark" \in ForgetPcs /\ "mark" \in PcValues /\ pc'[c] = "mark"
    BY <1>1, <1>5, GotoTyped DEF ForgetPcs, PcValues, ClientPcs
  <2>2. my' \in [Actors -> Locals] /\ \A b \in Actors : b # c => my'[b] = my[b]
    BY <1>1, <1>5 DEF TypeOK
  <2>3. \A s \in SourcesOf[m] : tomb'[s] # "none"
    BY <1>1, <1>2, <1>3, <1>5 DEF ClientBase
  <2>4. ClientBase(c)'
    BY <1>2, <1>3, <1>4, <1>5, <2>1, <2>3 DEF ClientBase, ClientPcs, Writing
  <2>5. LeasesLast => ClientLeased(c)'
    BY <1>1, <1>2, <1>3, <1>4, <1>5, <2>1 DEF ClientLeased
  <2>6. forget' \in [Memories -> Progress] /\ promised' \in SUBSET (Memories \X BOOLEAN) /\ PromisesHold
    BY <1>1, <1>3 DEF TypeOK, PromisesHold, IsPromised
  <2> QED
    BY <1>3, <1>5, <2>1, <2>2, <2>4, <2>5, <2>6, ForgetLocal
<1>6. ASSUME NEW s \in my[c].todo, tomb' = [tomb EXCEPT ![s] = IF my[c].redact THEN "redact" ELSE "soft"],
             my' = [my EXCEPT ![c].todo = @ \ {s}], UNCHANGED pc
      PROVE  IInv'
  <2>1. my' = [my EXCEPT ![c] = [my[c] EXCEPT !.todo = @ \ {s}]]
    BY <1>1, <1>6 DEF TypeOK
  <2>2. [my[c] EXCEPT !.todo = @ \ {s}] \in Locals
    <3>1. my[c].todo \ {s} \in SUBSET (Memories \cup Sources)
      BY <1>2
    <3> QED
      BY <1>1, <3>1 DEF Locals
  <2>3. /\ my' \in [Actors -> Locals] /\ \A b \in Actors : b # c => my'[b] = my[b]
        /\ my'[c].m = m /\ my'[c].todo = my[c].todo \ {s} /\ my'[c].rows = my[c].rows /\ my'[c].affected = my[c].affected
        /\ my'[c].ok = my[c].ok
    BY <1>1, <1>2, <2>1, <2>2, MineTyped DEF Locals
  <2>4. /\ tomb' \in [Sources -> {"none", "soft", "redact"}] /\ \A x \in Sources : tomb[x] # "none" => tomb'[x] # "none"
        /\ s \in Sources => tomb'[s] # "none"
    BY <1>1, <1>6 DEF TypeOK
  <2>5. TypeOK'
    <3>1. /\ mem' \in [Memories -> Row] /\ events' \in [Events -> Event]
          /\ plan' \in [Memories -> Plan] /\ forget' \in [Memories -> Progress]
          /\ vec' \in [Memories -> Nat] /\ graph' \in [Memories -> Nat] /\ clock' \in 0 .. MaxClock
          /\ lease' \in [owner: Actors \cup {Nobody}, live: BOOLEAN]
          /\ promised' \in SUBSET (Memories \X BOOLEAN)
          /\ tx' \in Clients \cup {Nobody} /\ count' \in [calls: Nat, crashes: Nat, lapses: Nat]
      BY <1>1, <1>3 DEF TypeOK
    <3>2. pc' \in [Actors -> PcValues]
      BY <1>1, <1>6, TypePc
    <3> QED
      BY <2>3, <2>4, <3>1, <3>2, TypeNext
  <2>6. Others(c)
    BY <1>6, <2>3 DEF Others
  <2>7. ASSUME NEW q \in Memories, Closed(q) PROVE Closed(q)'
    <3>1. \A x \in SourcesOf[q] : tomb'[x] # "none"
      BY <1>1, <2>4, <2>7, PropagationAssumption DEF Closed
    <3>2. \A b \in Clients : pc'[b] \in Writing => ~Affected(my'[b].m, q)
      BY <1>3, <1>6, <2>3, <2>7 DEF Closed, Actors, Writing
    <3> QED
      BY <1>3, <2>7, <3>1, <3>2 DEF Closed, Affected
  <2>8. CanonKept(c)
    BY <1>3, <2>4, <2>7 DEF CanonKept
  <2>9. LeasesLast' <=> LeasesLast
    BY <1>3 DEF LeasesLast
  <2>10. EventsStay /\ EventsOwn(c) /\ EventsKept(c)
    <3>1. EventsStay /\ EventsOwn(c)
      BY <1>1, <1>3 DEF EventsStay, EventsOwn
    <3> QED
      BY <2>6, <3>1, EventsOwnKept
  <2>11. ASSUME NEW d \in Memories, Live(d)' PROVE Live(d)
    <3>1. \A x \in SourcesOf[d] : x \in Sources
      BY PropagationAssumption
    <3> QED
      BY <1>3, <2>4, <2>11, <3>1 DEF Live, Tombstoned
  <2>12. ASSUME NEW d \in Memories PROVE MemBase(d)' /\ (Synced(d) => Synced(d)')
    <3>1. MemBase(d)
      BY DEF IInv, Base
    <3> HIDE DEF Live
    <3> QED
      BY <1>3, <2>11, <3>1 DEF MemBase, Synced
  <2>13. \A e \in Events : EventBase(e)'
    BY <1>3 DEF EventBase, IInv, Base
  <2>14. ASSUME LeasesLast, NEW d \in Memories PROVE MemLeased(d)'
    <3>1. MemLeased(d)
      BY <2>14 DEF IInv, Leased
    <3>2. \A e \in Events : Waits(e, d) => Waits(e, d)'
      BY <1>1, <2>10 DEF EventsKept
    <3>3. Gone(d) => Gone(d)'
      BY <1>3, <2>7 DEF Gone, Affected
    <3>4. IsPromised(d)' => Gone(d)'
      BY <1>3, <3>1, <3>3 DEF MemLeased, IsPromised
    <3> HIDE DEF Live
    <3> QED
      BY <1>3, <2>11, <2>12, <3>1, <3>2, <3>4 DEF MemLeased
  <2>15. ClientBase(c)'
    <3>1. \A x \in SourcesOf[m] : x \in my'[c].todo \/ tomb'[x] # "none"
      BY <1>1, <1>2, <1>3, <2>3, <2>4 DEF ClientBase
    <3> QED
      BY <1>3, <1>4, <1>6, <2>3, <3>1 DEF ClientBase, ClientPcs, ForgetPcs, Writing
  <2>16. LeasesLast => ClientLeased(c)'
    BY <1>1, <1>2, <1>3, <1>4, <1>6, <2>3 DEF ClientLeased
  <2>17. ASSUME LeasesLast', NEW b \in Actors, b # c PROVE ~(lease.live /\ lease.owner = b)
    BY <1>4, <2>9, <2>17
  <2> HIDE DEF LeasesLast
  <2> QED
    BY <1>1, <2>5, <2>6, <2>8, <2>9, <2>10, <2>12, <2>13, <2>14, <2>15, <2>16, <2>17, StepKeeps
<1> QED
  BY <1>5, <1>6 DEF ForgetTomb

-----------------------------------------------------------------------------
(* Time, the initial state and every step.                                 *)

\* Time passes for an event; under a working owner that would be a lapse.
LEMMA ExpireEventKeeps ==
  ASSUME IInv, NEW e \in Events, ExpireEvent(e)
  PROVE  IInv'
<1>1. TypeOK /\ count.lapses \in Nat /\ Nobody \notin Actors /\ Nobody \notin Clients /\ Nobody \notin Workers
  BY PropagationAssumption DEF IInv, Base, TypeOK, Actors
<1>2. /\ events' = [events EXCEPT ![e].live = FALSE]
      /\ UNCHANGED <<mem, tomb, plan, forget, vec, graph, lease, tx, clock, promised, pc, my>>
  BY DEF ExpireEvent, canonical, indexes
<1>3. \/ count' = count /\ (pc[events[e].owner] = "idle" \/ my[events[e].owner].e # e)
      \/ count' = [count EXCEPT !.lapses = @ + 1]
  BY DEF ExpireEvent
<1>4. /\ count' \in [calls: Nat, crashes: Nat, lapses: Nat]
      /\ LeasesLast' => LeasesLast /\ (pc[events[e].owner] = "idle" \/ my[events[e].owner].e # e)
  <2>1. CASE count' = count /\ (pc[events[e].owner] = "idle" \/ my[events[e].owner].e # e)
    BY <1>1, <2>1 DEF TypeOK, LeasesLast
  <2>2. CASE count' = [count EXCEPT !.lapses = @ + 1]
    BY <1>1, <2>2 DEF TypeOK, LeasesLast
  <2> QED
    BY <1>3, <2>1, <2>2
<1>5. /\ events' \in [Events -> Event] /\ \A o \in Events : o # e => events'[o] = events[o]
      /\ events'[e].status = events[e].status /\ events'[e].kind = events[e].kind
      /\ events'[e].mem = events[e].mem /\ events'[e].owner = events[e].owner
  <2>1. events \in [Events -> Event] /\ events[e] \in Event
    BY <1>1 DEF TypeOK
  <2> DEFINE v == [events[e] EXCEPT !.live = FALSE]
  <2>2. /\ v \in Event /\ v.status = events[e].status /\ v.kind = events[e].kind
        /\ v.mem = events[e].mem /\ v.owner = events[e].owner
    BY <2>1 DEF Event
  <2>3. events' = [events EXCEPT ![e] = v]
    BY <1>2
  <2> HIDE DEF v
  <2> QED
    BY <2>1, <2>2, <2>3
<1>6. TypeOK'
  <2>1. /\ mem' \in [Memories -> Row] /\ tomb' \in [Sources -> {"none", "soft", "redact"}]
        /\ plan' \in [Memories -> Plan] /\ forget' \in [Memories -> Progress]
        /\ vec' \in [Memories -> Nat] /\ graph' \in [Memories -> Nat] /\ clock' \in 0 .. MaxClock
        /\ lease' \in [owner: Actors \cup {Nobody}, live: BOOLEAN]
        /\ promised' \in SUBSET (Memories \X BOOLEAN) /\ tx' \in Clients \cup {Nobody}
        /\ my' \in [Actors -> Locals]
    BY <1>1, <1>2 DEF TypeOK
  <2>2. pc' \in [Actors -> PcValues]
    BY <1>1, <1>2, TypePc
  <2> QED
    BY <1>4, <1>5, <2>1, <2>2, TypeNext
<1>7. Others(Nobody) /\ StoresStill /\ LockKept(Nobody) /\ WriteChecked(Nobody) /\ LeaseStays(Nobody) /\ PromisesHold
  BY <1>1, <1>2 DEF Others, StoresStill, LockKept, WriteChecked, LeaseStays, PromisesHold, IsPromised
<1>8. EventsStay
  BY <1>5 DEF EventsStay
<1>9. ASSUME LeasesLast' PROVE EventsOwn(Nobody)
  <2>1. \A w \in Workers : pc[w] # "idle" /\ EventMine(w) => my[w].e # e /\ my[w].e \in Events
    BY <1>4, <1>9 DEF EventMine
  <2>2. \A o \in Events : events'[o].status = events[o].status
    BY <1>5
  <2> QED
    BY <1>1, <1>5, <2>1, <2>2 DEF EventsOwn
<1> HIDE DEF LeasesLast
<1> QED
  BY <1>1, <1>4, <1>6, <1>7, <1>8, <1>9, LocalKeeps

\* Time passes for the user lease; under an actor at work that would be a lapse.
LEMMA ExpireLeaseKeeps ==
  ASSUME IInv, ExpireLease
  PROVE  IInv'
<1>1. TypeOK /\ count.lapses \in Nat /\ Nobody \notin Actors /\ Nobody \notin Clients /\ Nobody \notin Workers
  BY PropagationAssumption DEF IInv, Base, TypeOK, Actors
<1>2. /\ lease' = [lease EXCEPT !.live = FALSE]
      /\ UNCHANGED <<mem, tomb, plan, forget, vec, graph, events, tx, clock, promised, pc, my>>
  BY DEF ExpireLease, canonical, indexes
<1>3. \/ count' = count /\ (pc[lease.owner] \in {"idle", "finish"} \/ pc[lease.owner] = "lease")
      \/ count' = [count EXCEPT !.lapses = @ + 1]
  BY DEF ExpireLease
<1>4. /\ count' \in [calls: Nat, crashes: Nat, lapses: Nat]
      /\ LeasesLast' => LeasesLast /\ pc[lease.owner] \in {"idle", "finish", "lease"}
  <2>1. CASE count' = count /\ (pc[lease.owner] \in {"idle", "finish"} \/ pc[lease.owner] = "lease")
    BY <1>1, <2>1 DEF TypeOK, LeasesLast
  <2>2. CASE count' = [count EXCEPT !.lapses = @ + 1]
    BY <1>1, <2>2 DEF TypeOK, LeasesLast
  <2> QED
    BY <1>3, <2>1, <2>2
<1>5. TypeOK'
  <2>1. /\ mem' \in [Memories -> Row] /\ tomb' \in [Sources -> {"none", "soft", "redact"}]
        /\ plan' \in [Memories -> Plan] /\ forget' \in [Memories -> Progress] /\ events' \in [Events -> Event]
        /\ vec' \in [Memories -> Nat] /\ graph' \in [Memories -> Nat] /\ clock' \in 0 .. MaxClock
        /\ promised' \in SUBSET (Memories \X BOOLEAN) /\ tx' \in Clients \cup {Nobody}
        /\ my' \in [Actors -> Locals]
    BY <1>1, <1>2 DEF TypeOK
  <2>2. pc' \in [Actors -> PcValues]
    BY <1>1, <1>2, TypePc
  <2>3. lease' \in [owner: Actors \cup {Nobody}, live: BOOLEAN]
    BY <1>1, <1>2 DEF TypeOK
  <2> QED
    BY <1>4, <2>1, <2>2, <2>3, TypeNext
<1>6. Others(Nobody) /\ StoresStill /\ LockKept(Nobody) /\ WriteChecked(Nobody) /\ PromisesHold /\ EventsStay /\ EventsOwn(Nobody)
  BY <1>1, <1>2 DEF Others, StoresStill, LockKept, WriteChecked, PromisesHold, IsPromised, EventsStay, EventsOwn
<1>7. LeasesLast' => LeaseStays(Nobody)
  BY <1>4 DEF LeaseStays, ForgetPcs, SyncPcs
<1> HIDE DEF LeasesLast
<1> QED
  BY <1>1, <1>4, <1>5, <1>6, <1>7, LocalKeeps

\* The invariant holds before the first ingest.
LEMMA InitInv == Init => IInv
<1> SUFFICES ASSUME Init PROVE IInv
  OBVIOUS
<1>1. TypeOK
  <2>1. /\ mem \in [Memories -> Row] /\ plan \in [Memories -> Plan] /\ events \in [Events -> Event]
        /\ my \in [Actors -> Locals]
    BY NothingTyped DEF Init
  <2>2. /\ tomb \in [Sources -> {"none", "soft", "redact"}]
        /\ vec \in [Memories -> Nat] /\ graph \in [Memories -> Nat]
        /\ lease \in [owner: Actors \cup {Nobody}, live: BOOLEAN]
        /\ tx \in Clients \cup {Nobody}
        /\ promised \in SUBSET (Memories \X BOOLEAN)
        /\ count \in [calls: Nat, crashes: Nat, lapses: Nat]
    BY DEF Init
  <2>3. forget \in [Memories -> Progress]
    BY DEF Init, Progress
  <2>4. clock \in 0 .. MaxClock
    BY PropagationAssumption DEF Init
  <2>5. \A a \in Actors : pc[a] = "idle"
    BY DEF Init
  <2>6. pc \in [Actors -> {"idle"}]
    BY DEF Init
  <2> QED
    BY <2>1, <2>2, <2>3, <2>4, <2>6 DEF TypeOK
<1>2. /\ \A a \in Actors : pc[a] = "idle"
      /\ \A m \in Memories : mem[m].status = "absent" /\ vec[m] = 0 /\ graph[m] = 0 /\ forget[m].status = "none"
      /\ \A e \in Events : events[e].status = "none" /\ events[e].owner = Nobody
      /\ promised = {}
  BY DEF Init, NoRow, NoEvent
<1>3. \A c \in Clients : ClientBase(c) /\ ClientLeased(c)
  BY <1>2 DEF ClientBase, ClientLeased, ClientPcs, ForgetPcs, Writing, Actors
<1>4. \A w \in Workers : WorkerBase(w) /\ WorkerLeased(w)
  BY <1>2 DEF WorkerBase, WorkerLeased, WorkerPcs, SyncPcs, Actors
<1>5. \A m \in Memories : MemBase(m) /\ MemLeased(m)
  BY <1>2 DEF MemBase, MemLeased, Live, Synced, IsPromised, Inactive
<1>6. \A e \in Events : EventBase(e)
  BY <1>2 DEF EventBase
<1> QED
  BY <1>1, <1>3, <1>4, <1>5, <1>6 DEF IInv, Base, Leased

LEMMA StutterKeeps == ASSUME IInv, UNCHANGED vars PROVE IInv'
<1>1. UNCHANGED <<mem, tomb, plan, forget, events, vec, graph, lease, tx, clock, promised, pc, my, count>>
  BY DEF vars, canonical, indexes
<1>2. /\ \A c \in Clients : (ClientBase(c)' <=> ClientBase(c)) /\ (ClientLeased(c)' <=> ClientLeased(c))
  BY <1>1 DEF ClientBase, ClientLeased, Closed, Affected
<1>3. \A e \in Events, m \in Memories : Waits(e, m)' <=> Waits(e, m)
  BY <1>1 DEF Waits, Done
<1>4. \A w \in Workers : (OtherWaits(w)' <=> OtherWaits(w)) /\ (OtherSync(w)' <=> OtherSync(w))
  BY <1>1 DEF OtherWaits, OtherSync, Waits, Done
<1>5. \A m \in Memories : (Live(m)' <=> Live(m)) /\ (Synced(m)' <=> Synced(m)) /\ (Gone(m)' <=> Gone(m))
  BY <1>1 DEF Live, Synced, Tombstoned, Gone, Closed, Affected
<1>6. ASSUME NEW w \in Workers PROVE (WorkerBase(w)' <=> WorkerBase(w)) /\ (WorkerLeased(w) => WorkerLeased(w)')
  <2>1. my[w].m \in Memories
    BY WorkerFacts, Fields
  <2>2. (Live(my[w].m)' <=> Live(my[w].m)) /\ (Synced(my[w].m)' <=> Synced(my[w].m))
    BY <1>1 DEF Live, Synced, Tombstoned
  <2>3. WorkerBase(w)' <=> WorkerBase(w)
    BY <1>1 DEF WorkerBase
  <2>4. EventMine(w)' <=> EventMine(w)
    BY <1>1 DEF EventMine
  <2> HIDE DEF Live, Synced
  <2> QED
    BY <1>1, <1>4, <2>2, <2>3, <2>4 DEF WorkerLeased
<1>7. ASSUME NEW m \in Memories PROVE (MemBase(m) => MemBase(m)') /\ (MemLeased(m) => MemLeased(m)')
  <2> HIDE DEF Live, Synced, Gone
  <2> QED
    BY <1>1, <1>3, <1>5 DEF MemBase, MemLeased, IsPromised
<1>8. \A e \in Events : EventBase(e)' <=> EventBase(e)
  BY <1>1 DEF EventBase
<1>9. TypeOK' /\ (LeasesLast' <=> LeasesLast)
  BY <1>1 DEF IInv, Base, TypeOK, LeasesLast
<1> HIDE DEF LeasesLast
<1> QED
  BY <1>2, <1>6, <1>7, <1>8, <1>9 DEF IInv, Base, Leased

LEMMA ClientStepKeeps ==
  ASSUME IInv, NEW c \in Clients, ClientStep(c)
  PROVE  IInv'
BY IngestCommitKeeps, ReplayCheckKeeps, ReplayCommitKeeps, ForgetLoadKeeps, ForgetTombKeeps, ForgetMarkKeeps,
   ForgetUpdateKeeps, ForgetListKeeps, ForgetCascadeKeeps, ForgetVectorsKeeps, ForgetGraphKeeps,
   ForgetScrubKeeps, ForgetAnswerKeeps, ForgetErrorKeeps, ForgetReleaseKeeps DEF ClientStep

LEMMA WorkerStepKeeps ==
  ASSUME IInv, NEW w \in Workers, WorkerStep(w)
  PROVE  IInv'
BY TakeLeaseKeeps, ReadRecordKeeps, DeleteVectorKeeps, DeleteGraphKeeps, WriteVectorKeeps, ReadPlanKeeps,
   WriteGraphKeeps, AcknowledgeGraphKeeps, InvalidateKeeps, UnlockKeeps, FinishEventKeeps DEF WorkerStep

LEMMA NextKeeps == IInv /\ [Next]_vars => IInv'
<1> SUFFICES ASSUME IInv, [Next]_vars PROVE IInv'
  OBVIOUS
<1>1. ASSUME NEW c \in Clients, NEW m \in Memories,
             \/ IngestCheck(c, m) \/ ReplayRead(c, m)
             \/ \E redact \in BOOLEAN : StartForget(c, m, redact)
      PROVE  IInv'
  BY <1>1, IngestCheckKeeps, ReplayReadKeeps, StartForgetKeeps
<1>2. ASSUME NEW w \in Workers, \E e \in Events : ClaimEvent(w, e) PROVE IInv'
  BY <1>2, ClaimEventKeeps
<1> QED
  BY <1>1, <1>2, ClientStepKeeps, WorkerStepKeeps, ExpireEventKeeps, CrashKeeps, ExpireLeaseKeeps, StutterKeeps DEF Next

-----------------------------------------------------------------------------
(* The theorems.                                                           *)

\* The inductive invariant holds in every state.
THEOREM InductiveInvariant == Spec => []IInv
  BY InitInv, NextKeeps, PTL DEF Spec

\* What a completed forget promises stays true: no memory that shares a source with the
\* forgotten one is active or indexed (lifecycle_forget, commit_memory).
THEOREM ForgottenStaysGone == Spec => []ForgottenGone
<1>1. ASSUME IInv PROVE ForgottenGone
  <2> SUFFICES ASSUME LeasesLast, NEW p \in promised, NEW d \in Memories,
                      d = p[1] \/ SourcesOf[d] \cap SourcesOf[p[1]] # {}
               PROVE  mem[d].status # "active" /\ vec[d] = 0 /\ graph[d] = 0
    BY DEF ForgottenGone
  <2>1. TypeOK /\ Leased
    BY <1>1 DEF IInv, Base
  <2>2. PICK m \in Memories, redact \in BOOLEAN : p = <<m, redact>> /\ m = p[1]
    BY <2>1 DEF TypeOK
  <2>3. IsPromised(m)
    BY <2>2 DEF IsPromised
  <2>4. Gone(m)
    BY <2>1, <2>3 DEF Leased, MemLeased
  <2> QED
    BY <2>2, <2>4 DEF Gone, Affected
<1> QED
  BY <1>1, InductiveInvariant, PTL

\* The indexes hold exactly what the canonical rows say once the events of a memory are
\* completed, and the gate of graph evidence is sound at any time (sync_payload,
\* acknowledge_graph, current_graph_memory_ids).
THEOREM IndexesFollow == Spec => []IndexesSound
<1>1. ASSUME IInv PROVE IndexesSound
  <2>1. TypeOK
    BY <1>1 DEF IInv, Base
  <2>2. IndexConverges
    <3> SUFFICES ASSUME NEW m \in Memories, LeasesLast, Settled(m) PROVE Synced(m)
      BY DEF IndexConverges, Synced, Live
    <3>1. \A e \in Events : ~Waits(e, m)
      BY DEF Settled, Waits
    <3> QED
      BY <1>1, <3>1 DEF IInv, Leased, MemLeased
  <2>3. GraphGateSound
    <3>1. ASSUME NEW m \in Memories, LeasesLast, Live(m), plan[m].applied = plan[m].revision
          PROVE  graph[m] = plan[m].revision /\ plan[m].source = mem[m].rev
      BY <1>1, <3>1 DEF IInv, Base, Leased, MemLeased, MemBase
    <3> QED
      BY <3>1 DEF GraphGateSound, Live
  <2> QED
    BY <2>1, <2>2, <2>3 DEF IndexesSound
<1> QED
  BY <1>1, InductiveInvariant, PTL

\* A forgotten memory never becomes active again, and while leases last redacted content does
\* not come back, whatever snapshot a resumed forget or a cascade writes (memory_write,
\* update_memory).
THEOREM NothingIsResurrected == Spec => NoResurrection
<1> DEFINE Kept == \A m \in Memories : mem[m].status \in Inactive =>
                     /\ mem'[m].status \in Inactive
                     /\ LeasesLast /\ mem'[m].clear => mem[m].clear
<1>1. ASSUME IInv, [Next]_vars PROVE mem' = mem \/ Kept
  <2>1. ASSUME NEW c \in Clients, IngestCommit(c) PROVE Kept
    <3>1. PICK d \in Memories : d = my[c].m
      BY ClientFacts, Fields, <1>1
    <3>2. TypeOK /\ mem[d].status \notin Inactive
      BY <1>1, <2>1, <3>1, ClientFacts DEF ClientBase, IngestCommit
    <3>3. \A m \in Memories : m # d => mem'[m] = mem[m]
      BY <2>1, <3>1, <3>2 DEF IngestCommit, CommitMemory, TypeOK
    <3> QED
      BY <3>2, <3>3
  <2>2. ASSUME NEW c \in Clients, ForgetUpdate(c) PROVE Kept
    <3>1. PICK d \in Memories : d = my[c].m
      BY ClientFacts, Fields, <1>1
    <3>2. /\ TypeOK /\ my[c].rows[d].status \in Inactive
          /\ LeasesLast => (mem[d].status \in Inactive /\ my[c].rows[d].clear => mem[d].clear)
      BY <1>1, <2>2, <3>1, ClientFacts DEF ClientBase, ClientLeased, ForgetUpdate
    <3>3. mem' = [mem EXCEPT ![d] = [status |-> my[c].rows[d].status, rev |-> clock + 1, clear |-> my[c].rows[d].clear]]
      BY <2>2, <3>1 DEF ForgetUpdate, CommitMemory
    <3>4. /\ \A m \in Memories : m # d => mem'[m] = mem[m]
          /\ mem'[d].status = my[c].rows[d].status /\ mem'[d].clear = my[c].rows[d].clear
      BY <3>2, <3>3 DEF TypeOK
    <3> QED
      BY <3>2, <3>4
  <2>3. ASSUME NEW c \in Clients, ForgetCascade(c) PROVE mem' = mem \/ Kept
    <3>1. pc[c] = "cascade"
      BY <2>3 DEF ForgetCascade
    <3>2. /\ mem' = mem \/ \E d \in my[c].todo :
               CommitMemory(d, Forgotten(my[c].rows[d], my[c].redact).status, Forgotten(my[c].rows[d], my[c].redact).clear)
      BY <2>3 DEF ForgetCascade
    <3>3. ASSUME NEW d \in my[c].todo,
                 CommitMemory(d, Forgotten(my[c].rows[d], my[c].redact).status, Forgotten(my[c].rows[d], my[c].redact).clear)
          PROVE  Kept
      <4>1. /\ TypeOK /\ d \in Memories /\ my[c].rows[d] \in Row /\ my[c].redact \in BOOLEAN
            /\ LeasesLast => (mem[d].status \in Inactive /\ my[c].rows[d].clear => mem[d].clear)
        BY <1>1, <3>1, ClientFacts, CascadeFacts DEF ClientLeased
      <4>2. PICK r \in Row : /\ r = Forgotten(my[c].rows[d], my[c].redact) /\ r.status \in Inactive
                             /\ (r.clear => my[c].rows[d].clear)
        BY <4>1, ForgottenRow
      <4>3. mem' = [mem EXCEPT ![d] = [status |-> r.status, rev |-> clock + 1, clear |-> r.clear]]
        BY <3>3, <4>2 DEF CommitMemory
      <4>4. /\ \A m \in Memories : m # d => mem'[m] = mem[m]
            /\ mem'[d].status = r.status /\ mem'[d].clear = r.clear
        BY <4>1, <4>3 DEF TypeOK
      <4> QED
        BY <4>1, <4>2, <4>4
    <3> HIDE DEF Kept
    <3> QED
      BY <3>2, <3>3
  <2>4. ASSUME NEW c \in Clients, ClientStep(c), ~IngestCommit(c), ~ForgetUpdate(c), ~ForgetCascade(c) PROVE mem' = mem
    BY <2>4 DEF ClientStep, canonical, ReplayCheck, ReplayCommit, ForgetLoad, ForgetTomb, ForgetMark, ForgetList,
       ForgetVectors, ForgetGraph, ForgetScrub, ForgetAnswer, ForgetError, ForgetRelease
  <2>5. ASSUME NEW w \in Workers, WorkerStep(w) PROVE mem' = mem
    BY <2>5 DEF WorkerStep, canonical, TakeLease, ReadRecord, DeleteVector, DeleteGraph, WriteVector, ReadPlan, WriteGraph,
       AcknowledgeGraph, Invalidate, Unlock, FinishEvent
  <2>6. ASSUME NEW c \in Clients, NEW m \in Memories,
               \/ IngestCheck(c, m) \/ ReplayRead(c, m)
               \/ \E redact \in BOOLEAN : StartForget(c, m, redact)
        PROVE  mem' = mem
    BY <2>6 DEF IngestCheck, ReplayRead, StartForget, canonical
  <2>7. ASSUME NEW w \in Workers, NEW e \in Events, ClaimEvent(w, e) PROVE mem' = mem
    BY <2>7 DEF ClaimEvent, canonical
  <2>8. ASSUME NEW e \in Events, ExpireEvent(e) PROVE mem' = mem
    BY <2>8 DEF ExpireEvent, canonical
  <2>9. ASSUME NEW a \in Actors, Crash(a) PROVE mem' = mem
    BY <2>9 DEF Crash, canonical
  <2>10. ExpireLease \/ UNCHANGED vars => mem' = mem
    BY DEF ExpireLease, vars, canonical
  <2> HIDE DEF Kept
  <2>11. ASSUME NEW c \in Clients, ClientStep(c) PROVE mem' = mem \/ Kept
    BY <2>1, <2>2, <2>3, <2>4, <2>11
  <2> QED
    BY <1>1, <2>5, <2>6, <2>7, <2>8, <2>9, <2>10, <2>11 DEF Next
<1>2. IInv /\ [Next]_vars => [Kept]_mem
  BY <1>1
<1>3. Spec => [][Kept]_mem
  <2> HIDE DEF Kept
  <2> QED
    BY <1>2, InductiveInvariant, PTL DEF Spec
<1> QED
  BY <1>3 DEF NoResurrection
=============================================================================
