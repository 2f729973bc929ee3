------------------------ MODULE SessionConsolidation ------------------------
(***************************************************************************)
(* One session of one user: messages are appended and cached in Redis,     *)
(* working contexts are assembled, the transcript is consolidated into     *)
(* memories, archived and summarised, and memories made from it are        *)
(* forgotten or retired.  Models src/runtime/session.rs,                   *)
(* src/runtime/consolidation.rs, the archive side of lifecycle_forget,     *)
(* retain_memory, src/adapters/s3.rs and the tail of src/adapters/redis.rs.*)
(*                                                                         *)
(* All but the assembly of a context run under the user lease, which       *)
(* append never renews and consolidation renews with claim: whoever lets   *)
(* it lapse may take it again after others have held it.  What forget does *)
(* to the vector store and the graph is in MemoryPropagation.              *)
(***************************************************************************)
EXTENDS Naturals, Sequences, FiniteSets, SequencesExt

CONSTANTS
  Messages,     \* messages, each with its idempotency key
  Versions,     \* consolidation versions a host uses
  Workers,      \* callers; a call has an owner id of its own
  Nobody,       \* no owner, or an owner that has died
  Operations,   \* subset of {"append", "assemble", "fast", "deep", "forget", "retain"}
  TailLimit,    \* length of the hot tail (20)
  ChunkSize,    \* chunk_messages of a deep consolidation
  InitialLog,   \* the messages the session has when the model starts
  MaxCalls,     \* bound on calls
  MaxFaults     \* bound on crashes, failures of a store, and leases that
                \* expire under a working owner, taken together

ASSUME SessionAssumption ==
  /\ Nobody \notin Workers /\ Messages # {}
  /\ Operations \subseteq {"append", "assemble", "fast", "deep", "forget", "retain"}
  /\ TailLimit \in Nat \ {0} /\ ChunkSize \in Nat \ {0}
  /\ InitialLog \in Seq(Messages) /\ IsInjective(InitialLog)
  /\ MaxCalls \in Nat /\ MaxFaults \in Nat

VARIABLES
  log,       \* nextral_session_messages in sequence order
  hot,       \* the Redis tail; a missing key reads as <<>>
  activity,  \* whether session-activity/<user>/<session> is saved
  tomb,      \* forgotten-source rows
  job,       \* consolidation/<job id>
  mem,       \* status of the memories made so far
  summary,   \* message ids of summary/<user>/<session>, {} for none
  started,   \* memories with a forget/<user>/<id> row
  done,      \* those whose row says completed
  manifest,  \* archive/... rows of the transcripts
  object,    \* the object store
  lease,     \* the user lease
  pc, my,    \* control point and locals of each worker
  count      \* calls and faults, lapses and failed invalidations among them

rows == <<log, activity, tomb, job, mem, summary>>
forget == <<started, done>>
archive == <<manifest, object>>
vars == <<rows, hot, forget, archive, lease, pc, my, count>>

Lanes == Operations \cap {"fast", "deep"}
Jobs == Lanes \X Versions
Keys == (Jobs \cap ({"deep"} \X Versions)) \X SUBSET Messages
MemoryId == [job: Jobs, index: Nat, sources: SUBSET Messages]
Record == [status: {"none", "running", "retry_pending", "completed", "failed"},
           input: Seq(Messages), plan: Seq(SUBSET Messages),
           archived: BOOLEAN, accepted: Nat]
NoRecord == [status |-> "none", input |-> <<>>, plan |-> <<>>,
             archived |-> FALSE, accepted |-> 0]

NoId == [job |-> <<>>, index |-> 0, sources |-> {}]
AnyMessage == CHOOSE m \in Messages : TRUE
Locals ==
  [op: {"none"} \cup Operations, m: Messages, j: Jobs \cup {<<>>}, k: Keys \cup {<<>>},
   x: MemoryId \cup {NoId}, rec: Record, tail: Seq(Messages), seen: Seq(Messages),
   sum: SUBSET Messages, barred: SUBSET Messages, todo: SUBSET Messages, keys: SUBSET Keys,
   ids: SUBSET MemoryId, affected: SUBSET MemoryId, covered: SUBSET Messages, ok: BOOLEAN]
NoLocals == [op |-> "none", m |-> AnyMessage, j |-> <<>>, k |-> <<>>, x |-> NoId, rec |-> NoRecord,
             tail |-> <<>>, seen |-> <<>>, sum |-> {}, barred |-> {}, todo |-> {}, keys |-> {}, ids |-> {}, affected |-> {},
             covered |-> {}, ok |-> TRUE]

Init ==
  /\ log = InitialLog /\ hot = <<>> /\ activity = (log # <<>>) /\ tomb = {}
  /\ job = [j \in Jobs |-> NoRecord]
  /\ mem = <<>> /\ summary = {}
  /\ started = {} /\ done = {}
  /\ manifest = [k \in Keys |-> "none"] /\ object = [k \in Keys |-> "none"]
  /\ lease = [owner |-> Nobody, live |-> FALSE]
  /\ pc = [w \in Workers |-> "idle"] /\ my = [w \in Workers |-> NoLocals]
  /\ count = [calls |-> 0, faults |-> 0, lapses |-> 0, unflushed |-> 0]

Goto(w, label) == pc' = [pc EXCEPT ![w] = label]

\* A crash, or an answer of Redis, of the object store or of a drain that is
\* an error.
Fault == count.faults < MaxFaults /\ count' = [count EXCEPT !.faults = @ + 1]

-----------------------------------------------------------------------------
(* The lease.                                                              *)

\* Mutant: claim does not look at the current owner.
ClaimableAlways(w) == TRUE

\* claim: free, expired or already the caller's.
Claimable(w) == ~lease.live \/ lease.owner = w

Claim(w) == Claimable(w) /\ lease' = [owner |-> w, live |-> TRUE]

Release(w) ==
  /\ pc[w] = "release"
  /\ lease' = IF lease.owner = w THEN [owner |-> Nobody, live |-> FALSE] ELSE lease
  /\ Goto(w, "idle")
  /\ my' = [my EXCEPT ![w] = NoLocals]
  /\ UNCHANGED <<rows, hot, forget, archive, count>>

\* 300 seconds pass: at any time for a dead owner, as a fault for others.
ExpireLease ==
  /\ lease.live
  /\ \/ lease.owner = Nobody /\ UNCHANGED count
     \/ /\ lease.owner # Nobody /\ count.faults < MaxFaults
        /\ count' = [count EXCEPT !.faults = @ + 1, !.lapses = @ + 1]
  /\ lease' = [lease EXCEPT !.live = FALSE]
  /\ UNCHANGED <<rows, hot, forget, archive, pc, my>>

Crash(w) ==
  /\ pc[w] # "idle" /\ Fault
  /\ lease' = IF lease.owner = w THEN [lease EXCEPT !.owner = Nobody] ELSE lease
  /\ Goto(w, "idle")
  /\ my' = [my EXCEPT ![w] = NoLocals]
  /\ UNCHANGED <<rows, hot, forget, archive>>

\* An error of PostgreSQL that the caller is told of at once.
FailCall(w) ==
  /\ pc[w] \in {"check", "insert", "tail", "activity", "read", "load", "begin", "finish",
               "close", "verify", "intent", "tomb", "mark"}
  /\ Fault /\ Goto(w, "release")
  /\ UNCHANGED <<rows, hot, forget, archive, lease, my>>

\* A call of an operation begins.
Call(w, op, label) ==
  /\ pc[w] = "idle" /\ op \in Operations /\ count.calls < MaxCalls
  /\ count' = [count EXCEPT !.calls = @ + 1]
  /\ Goto(w, label)

LeasedCall(w, op, label) == Call(w, op, label) /\ Claim(w) /\ UNCHANGED <<rows, hot, forget, archive>>

-----------------------------------------------------------------------------
(* append_session_message.                                                 *)

StartAppend(w, m) ==
  /\ LeasedCall(w, "append", "check")
  /\ my' = [my EXCEPT ![w] = [NoLocals EXCEPT !.op = "append", !.m = m]]

\* A forgotten message cannot be replayed.
CheckMessage(w) ==
  /\ pc[w] = "check"
  /\ Goto(w, IF my[w].m \in tomb THEN "release" ELSE "insert")
  /\ UNCHANGED <<rows, hot, forget, archive, lease, my, count>>

\* Mutant: the idempotency key is not unique.
InsertedAlways(m) == Append(log, m)

\* ON CONFLICT of the idempotency key the row stays what it is.
Inserted(m) == IF m \in ToSet(log) THEN log ELSE Append(log, m)

InsertMessage(w) ==
  /\ pc[w] = "insert"
  /\ log' = Inserted(my[w].m)
  /\ Goto(w, "tail")
  /\ UNCHANGED <<hot, activity, tomb, job, mem, summary, forget, archive, lease, my, count>>

\* session_tail: the last n messages.
SessionTail(n) == IF Len(log) <= n THEN log ELSE SubSeq(log, Len(log) - n + 1, Len(log))

ReadTail(w) ==
  /\ pc[w] = "tail"
  /\ my' = [my EXCEPT ![w].tail = SessionTail(TailLimit)]
  /\ Goto(w, "replace")
  /\ UNCHANGED <<rows, hot, forget, archive, lease, count>>

\* hot_tail_replace: a failure is counted and otherwise ignored.
ReplaceHotTail(w) ==
  /\ pc[w] = "replace"
  /\ \/ hot' = my[w].tail /\ UNCHANGED count
     \/ Fault /\ UNCHANGED hot
  /\ Goto(w, "activity")
  /\ UNCHANGED <<rows, forget, archive, lease, my>>

SaveActivity(w) ==
  /\ pc[w] = "activity"
  /\ activity' = TRUE
  /\ Goto(w, "release")
  /\ UNCHANGED <<log, hot, tomb, job, mem, summary, forget, archive, lease, my, count>>

-----------------------------------------------------------------------------
(* assemble_working_context, without the lease.                            *)

StartAssemble(w) ==
  /\ Call(w, "assemble", "summary")
  /\ my' = [my EXCEPT ![w] = [NoLocals EXCEPT !.op = "assemble", !.barred = tomb]]
  /\ UNCHANGED <<rows, hot, forget, archive, lease>>

\* A summary with a forgotten source is left out.
ReadSummary(w) ==
  /\ pc[w] = "summary"
  /\ my' = [my EXCEPT ![w].sum = IF summary \cap tomb = {} THEN summary ELSE {}]
  /\ Goto(w, "hot")
  /\ UNCHANGED <<rows, hot, forget, archive, lease, count>>

\* seen is the table at that moment, for HotTailExact only.
ReadHotTail(w) ==
  /\ pc[w] = "hot"
  /\ \/ my' = [my EXCEPT ![w].tail = hot, ![w].seen = log]
        /\ Goto(w, "head") /\ UNCHANGED count
     \/ Fault /\ UNCHANGED my /\ Goto(w, "fallback")
  /\ UNCHANGED <<rows, hot, forget, archive, lease>>

\* session_head: as many messages, and the same last one.
MatchesHead(tail, head) ==
  Len(tail) = Len(head) /\ (head # <<>> => tail[Len(tail)] = head[Len(head)])

ReadHead(w) ==
  /\ pc[w] = "head"
  /\ Goto(w, IF MatchesHead(my[w].tail, SessionTail(TailLimit)) THEN "filter" ELSE "fallback")
  /\ UNCHANGED <<rows, hot, forget, archive, lease, my, count>>

ReadWarmTail(w) ==
  /\ pc[w] = "fallback"
  /\ my' = [my EXCEPT ![w].tail = SessionTail(TailLimit)]
  /\ Goto(w, "filter")
  /\ UNCHANGED <<rows, hot, forget, archive, lease, count>>

\* s without the messages of S, in order.
Without(s, S) ==
  LET kept[i \in 0 .. Len(s)] ==
        IF i = 0 THEN <<>> ELSE IF s[i] \in S THEN kept[i - 1] ELSE Append(kept[i - 1], s[i])
  IN  kept[Len(s)]

\* Mutant: the tail is taken as it was cached.
UnforgottenAll(tail) == tail

Unforgotten(tail) == Without(tail, tomb)

FilterTail(w) ==
  /\ pc[w] = "filter"
  /\ my' = [my EXCEPT ![w].tail = Unforgotten(@)]
  /\ Goto(w, "return")
  /\ UNCHANGED <<rows, hot, forget, archive, lease, count>>

ReturnContext(w) ==
  /\ pc[w] = "return"
  /\ Goto(w, "idle")
  /\ my' = [my EXCEPT ![w] = NoLocals]
  /\ UNCHANGED <<rows, hot, forget, archive, lease, count>>

-----------------------------------------------------------------------------
(* consolidate_session.                                                    *)

StartConsolidate(w, j) ==
  /\ LeasedCall(w, j[1], "read")
  /\ my' = [my EXCEPT ![w] = [NoLocals EXCEPT !.op = j[1], !.j = j]]

\* transcript_chunks: the messages in order, n to a chunk.
TranscriptChunks(s, n) ==
  [i \in 1 .. ((Len(s) + n - 1) \div n) |->
     {s[p] : p \in {q \in 1 .. Len(s) : (i - 1) * n < q /\ q <= i * n}}]

\* The candidates a host may send: one per chunk, or any sources of the session.
Candidates(lane, input) ==
  IF lane = "deep" THEN {TranscriptChunks(input, ChunkSize)}
                   ELSE {<<S>> : S \in SUBSET ToSet(input) \ {{}}}

\* The whole transcript is read; it must not hold forgotten messages.
ReadTranscript(w) ==
  /\ pc[w] = "read"
  /\ \/ /\ log = <<>> \/ ToSet(log) \cap tomb # {}
        /\ Goto(w, "release") /\ UNCHANGED my
     \/ /\ log # <<>> /\ ToSet(log) \cap tomb = {}
        /\ \E plan \in Candidates(my[w].op, log) :
             my' = [my EXCEPT ![w].rec.input = log, ![w].rec.plan = plan]
        /\ Goto(w, "load")
  /\ UNCHANGED <<rows, hot, forget, archive, lease, count>>

\* A version stands for one input; what it completed is answered again, what
\* it left is resumed.
LoadRecord(w) ==
  /\ pc[w] = "load"
  /\ LET prev == job[my[w].j]
         same == prev.input = my[w].rec.input /\ prev.plan = my[w].rec.plan
     IN  IF prev.status # "none" /\ (~same \/ prev.status = "completed")
         THEN Goto(w, "release") /\ UNCHANGED my
         ELSE /\ my' = [my EXCEPT ![w].rec.archived = prev.archived,
                                  ![w].rec.accepted = prev.accepted]
              /\ Goto(w, "begin")
  /\ UNCHANGED <<rows, hot, forget, archive, lease, count>>

\* save_progress writes the whole record, whatever is there now.
SaveProgress(w, status, rec, label) ==
  /\ job' = [job EXCEPT ![my[w].j] = [rec EXCEPT !.status = status]]
  /\ my' = [my EXCEPT ![w].rec = rec]
  /\ Goto(w, label)
  /\ UNCHANGED <<log, hot, activity, tomb, mem, summary, forget, archive, lease, count>>

BeginJob(w) ==
  /\ pc[w] = "begin"
  /\ SaveProgress(w, "running", my[w].rec, "archive")

\* Mutant: the error is not kept.
WorkFailsUnnoticed(w) == UNCHANGED my /\ Goto(w, "finish")

\* An error ends the work; the status is saved if the lease can be renewed.
WorkFails(w) == my' = [my EXCEPT ![w].ok = FALSE] /\ Goto(w, "finish")

\* renew_lease before an effect: lost, the work fails.
Renewing(w, from, to) ==
  /\ pc[w] = from
  /\ IF Claimable(w)
     THEN Claim(w) /\ Goto(w, to) /\ UNCHANGED my
     ELSE WorkFails(w) /\ UNCHANGED lease
  /\ UNCHANGED <<rows, hot, forget, archive, count>>

\* A deep consolidation archives the transcript unless its record says so.
StartArchive(w) ==
  \/ my[w].op = "deep" /\ ~my[w].rec.archived /\ Renewing(w, "archive", "manifest")
  \/ /\ pc[w] = "archive" /\ (my[w].op = "fast" \/ my[w].rec.archived)
     /\ Goto(w, "candidate")
     /\ UNCHANGED <<rows, hot, forget, archive, lease, my, count>>

\* The object key holds the job and the hash of the body.
Key(w) == <<my[w].j, ToSet(my[w].rec.input)>>

SetManifest(w, status, label) ==
  /\ manifest' = [manifest EXCEPT ![Key(w)] = status]
  /\ Goto(w, label)
  /\ UNCHANGED <<rows, hot, forget, object, lease, my, count>>

\* Mutant: the manifest is only written once the object is stored.
PendManifestLater(w) ==
  /\ pc[w] = "manifest" /\ Goto(w, "put")
  /\ UNCHANGED <<rows, hot, forget, archive, lease, my, count>>

\* The manifest is saved before the upload, so that forget can find the object.
PendManifest(w) == pc[w] = "manifest" /\ SetManifest(w, "pending", "put")

\* Mutant: a plain PUT replaces whatever the key holds.
PutPlain(k) == object' = [object EXCEPT ![k] = "content"]

\* if-none-match "*": what is there stays there.
Put(k) == object' = [object EXCEPT ![k] = IF @ = "none" THEN "content" ELSE @]

\* 412 is fine for the same content; over a tombstone it is a conflict.  A
\* request may fail before or after it took effect.
PutObject(w) ==
  /\ pc[w] = "put"
  /\ \/ /\ Put(Key(w)) /\ UNCHANGED count
        /\ IF object'[Key(w)] = "content" THEN Goto(w, "stored") /\ UNCHANGED my
                                          ELSE WorkFails(w)
     \/ Fault /\ WorkFails(w) /\ (Put(Key(w)) \/ UNCHANGED object)
  /\ UNCHANGED <<rows, hot, forget, manifest, lease>>

StoreManifest(w) == pc[w] = "stored" /\ SetManifest(w, "stored", "archived")

RecordArchive(w) ==
  /\ pc[w] = "archived"
  /\ SaveProgress(w, "running", [my[w].rec EXCEPT !.archived = TRUE], "candidate")

\* The id is made of the job, the index and the content of the candidate.
NextId(w) == [job |-> my[w].j, index |-> my[w].rec.accepted + 1,
              sources |-> my[w].rec.plan[my[w].rec.accepted + 1]]

Inactive(x) == x \in DOMAIN mem /\ mem[x] # "active"

\* Candidates beyond those accepted before; a forgotten output is not replayed.
NextCandidate(w) ==
  IF my[w].rec.accepted = Len(my[w].rec.plan)
  THEN /\ pc[w] = "candidate" /\ Goto(w, "resume_summary")
       /\ UNCHANGED <<rows, hot, forget, archive, lease, my, count>>
  ELSE Renewing(w, "candidate", "existing")

CheckExisting(w) ==
  /\ pc[w] = "existing"
  /\ IF Inactive(NextId(w)) THEN WorkFails(w) ELSE Goto(w, "ingest") /\ UNCHANGED my
  /\ UNCHANGED <<rows, hot, forget, archive, lease, count>>

\* memory_write: neither resurrection nor a forgotten source.
Refused(x) == Inactive(x) \/ x.sources \cap tomb # {}

\* The drain after the commit may fail although the memory is there.
IngestCandidate(w) ==
  /\ pc[w] = "ingest"
  /\ LET x == NextId(w)
     IN  IF Refused(x)
         THEN WorkFails(w) /\ UNCHANGED <<mem, count>>
         ELSE /\ mem' = [y \in DOMAIN mem \cup {x} |-> IF y = x THEN "active" ELSE mem[y]]
              /\ \/ Goto(w, "progress") /\ UNCHANGED <<my, count>>
                 \/ Fault /\ WorkFails(w)
  /\ UNCHANGED <<log, hot, activity, tomb, job, summary, forget, archive, lease>>

RecordCandidate(w) ==
  /\ pc[w] = "progress"
  /\ SaveProgress(w, "running", [my[w].rec EXCEPT !.accepted = @ + 1], "candidate")

\* A summary is required of a fast consolidation and optional for a deep one.
StartSummary(w) ==
  \/ Renewing(w, "resume_summary", "save_summary")
  \/ /\ pc[w] = "resume_summary" /\ my[w].op = "deep"
     /\ Goto(w, "finish")
     /\ UNCHANGED <<rows, hot, forget, archive, lease, my, count>>

SaveSummary(w) ==
  /\ pc[w] = "save_summary"
  /\ summary' = ToSet(my[w].rec.input)
  /\ Goto(w, "finish")
  /\ UNCHANGED <<log, hot, activity, tomb, job, mem, forget, archive, lease, my, count>>

\* The last renewal; if the lease is lost nothing more is saved.
FinishJob(w) ==
  /\ pc[w] = "finish"
  /\ IF Claimable(w) THEN Claim(w) /\ Goto(w, "close")
                     ELSE Goto(w, "release") /\ UNCHANGED lease
  /\ UNCHANGED <<rows, hot, forget, archive, my, count>>

CloseJob(w) ==
  /\ pc[w] = "close"
  /\ SaveProgress(w, IF my[w].ok THEN "completed" ELSE "retry_pending", my[w].rec, "release")

-----------------------------------------------------------------------------
(* forget_memory, and retain_memory that verifies the archive first.       *)

StartForget(w, op, x) ==
  /\ LeasedCall(w, op, IF op = "retain" THEN "verify" ELSE "intent")
  /\ my' = [my EXCEPT ![w] = [NoLocals EXCEPT !.op = op, !.x = x]]

Sharers(x) == {y \in DOMAIN mem \ {x} : y.sources \cap x.sources # {}}

\* Mutant: only the sources of the memory itself have to be archived.
RequiredOwn(x) == x.sources

\* required_archive_sources: the session, and all that derived memories use.
Required(x) == x.sources \cup ToSet(log) \cup UNION {y.sources : y \in Sharers(x)}

ErasureStarted(x) == x \in started \/ x.sources \cap tomb # {}

\* The transcripts that list a required source and are marked stored.
Listed(R) == {k \in Keys : manifest[k] = "stored" /\ k[2] \cap R # {}}

\* Every one of them is fetched; a missing or tombstoned one is an error.  An
\* erasure that has begun is resumed without.
VerifyArchive(w) ==
  /\ pc[w] = "verify"
  /\ LET R == Required(my[w].x)
         C == UNION {k[2] : k \in Listed(R)}
         fetched == \A k \in Listed(R) : object[k] = "content"
     IN  \/ /\ ErasureStarted(my[w].x) \/ (fetched /\ R \subseteq C)
            /\ my' = [my EXCEPT ![w].covered = IF ErasureStarted(my[w].x) THEN {} ELSE C]
            /\ Goto(w, "authorise") /\ UNCHANGED count
         \/ /\ ~ErasureStarted(my[w].x)
            /\ IF fetched /\ R \subseteq C THEN Fault ELSE UNCHANGED count
            /\ Goto(w, "release") /\ UNCHANGED my
  /\ UNCHANGED <<rows, hot, forget, archive, lease>>

\* renew_lease and fence_job, whose check of the job is in LifecycleJobs.
Authorise(w) ==
  /\ pc[w] = "authorise"
  /\ \/ Claim(w) /\ Goto(w, "intent")
     \/ Goto(w, "release") /\ UNCHANGED lease
  /\ UNCHANGED <<rows, hot, forget, archive, my, count>>

SaveIntent(w) ==
  /\ pc[w] = "intent"
  /\ IF my[w].x \in done
     THEN Goto(w, "release") /\ UNCHANGED <<started, my>>
     ELSE /\ started' = started \cup {my[w].x}
          /\ my' = [my EXCEPT ![w].todo = my[w].x.sources]
          /\ Goto(w, "tomb")
  /\ UNCHANGED <<rows, hot, done, archive, lease, count>>

Tombstone(w) ==
  /\ pc[w] = "tomb"
  /\ IF my[w].todo = {}
     THEN Goto(w, "mark") /\ UNCHANGED <<tomb, my>>
     ELSE \E s \in my[w].todo :
            /\ tomb' = tomb \cup {s}
            /\ my' = [my EXCEPT ![w].todo = @ \ {s}]
            /\ UNCHANGED pc
  /\ UNCHANGED <<log, hot, activity, job, mem, summary, forget, archive, lease, count>>

\* update_memory, then the list of the memories that share a source.
MarkForgotten(w) ==
  /\ pc[w] = "mark"
  /\ mem' = [mem EXCEPT ![my[w].x] = "soft_deleted"]
  /\ my' = [my EXCEPT ![w].ids = Sharers(my[w].x),
                      ![w].affected = Sharers(my[w].x) \cup {my[w].x}]
  /\ Goto(w, "cascade")
  /\ UNCHANGED <<log, hot, activity, tomb, job, summary, forget, archive, lease, count>>

Cascade(w) ==
  /\ pc[w] = "cascade"
  /\ IF my[w].ids = {}
     THEN Goto(w, "flush") /\ UNCHANGED <<mem, my, count>>
     ELSE \E y \in my[w].ids, stored \in BOOLEAN :
            /\ IF stored THEN mem' = [mem EXCEPT ![y] = "soft_deleted"] /\ UNCHANGED count
                         ELSE Fault /\ UNCHANGED mem
            /\ my' = [my EXCEPT ![w].ids = @ \ {y}, ![w].ok = @ /\ stored]
            /\ UNCHANGED pc
  /\ UNCHANGED <<log, hot, activity, tomb, job, summary, forget, archive, lease>>

\* Mutant: the cached tail is left alone.
FlushNothing == UNCHANGED hot

\* invalidate_scope unlinks every key of the user.
Flush == hot' = <<>>

\* The archive rows are listed next, whatever Redis answered.
InvalidateScope(w) ==
  /\ pc[w] = "flush"
  /\ LET live == {k \in Keys : manifest[k] \in {"pending", "stored"}}
     IN  \/ /\ Flush
            /\ my' = [my EXCEPT ![w].keys = live]
            /\ UNCHANGED count
         \/ /\ count.faults < MaxFaults /\ UNCHANGED hot
            /\ my' = [my EXCEPT ![w].keys = live, ![w].ok = FALSE]
            /\ count' = [count EXCEPT !.faults = @ + 1, !.unflushed = @ + 1]
  /\ Goto(w, "purge")
  /\ UNCHANGED <<rows, forget, archive, lease>>

\* Every transcript of the session is replaced by a tombstone; a failure ends
\* the pass.
TombstoneObject(w) ==
  /\ pc[w] = "purge"
  /\ IF my[w].keys = {}
     THEN /\ my' = [my EXCEPT ![w].ids = my[w].affected] /\ Goto(w, "scrub")
          /\ UNCHANGED <<object, count>>
     ELSE \/ \E k \in my[w].keys :
               /\ object' = [object EXCEPT ![k] = "tombstone"]
               /\ my' = [my EXCEPT ![w].k = k] /\ Goto(w, "purged") /\ UNCHANGED count
          \/ /\ Fault
             /\ my' = [my EXCEPT ![w].ids = my[w].affected, ![w].ok = FALSE]
             /\ Goto(w, "scrub") /\ UNCHANGED object
  /\ UNCHANGED <<rows, hot, forget, manifest, lease>>

TombstoneManifest(w) ==
  /\ pc[w] = "purged"
  /\ manifest' = [manifest EXCEPT ![my[w].k] = "tombstoned"]
  /\ my' = [my EXCEPT ![w].keys = @ \ {my[w].k}]
  /\ Goto(w, "purge")
  /\ UNCHANGED <<rows, hot, forget, object, lease, count>>

\* scrub_lifecycle_state of a consolidation record.
ScrubbedJob(r) == IF r.status = "none" THEN r ELSE [r EXCEPT !.status = "failed"]

DeletedFrom(S) == Without(log, S)

\* scrub_sources, one transaction per affected memory: its messages, the
\* summary and the records of the session.
ScrubSources(w) ==
  /\ pc[w] = "scrub"
  /\ IF my[w].ids = {}
     THEN Goto(w, "answer") /\ UNCHANGED <<log, summary, job, my, count>>
     ELSE \/ \E y \in my[w].ids :
               /\ log' = DeletedFrom(y.sources)
               /\ summary' = {}
               /\ job' = [j \in Jobs |-> ScrubbedJob(job[j])]
               /\ my' = [my EXCEPT ![w].ids = @ \ {y}]
               /\ UNCHANGED <<pc, count>>
          \/ /\ Fault
             /\ my' = [my EXCEPT ![w].ok = FALSE] /\ Goto(w, "answer")
             /\ UNCHANGED <<log, summary, job>>
  /\ UNCHANGED <<hot, activity, tomb, mem, forget, archive, lease>>

AnswerForget(w) ==
  /\ pc[w] = "answer"
  /\ done' = IF my[w].ok THEN done \cup {my[w].x} ELSE done
  /\ Goto(w, "release")
  /\ UNCHANGED <<rows, hot, started, archive, lease, my, count>>

-----------------------------------------------------------------------------
AppendStep(w) ==
  \/ \E m \in Messages : StartAppend(w, m)
  \/ CheckMessage(w) \/ InsertMessage(w) \/ ReadTail(w) \/ ReplaceHotTail(w) \/ SaveActivity(w)

AssembleStep(w) ==
  \/ StartAssemble(w) \/ ReadSummary(w) \/ ReadHotTail(w) \/ ReadHead(w) \/ ReadWarmTail(w)
  \/ FilterTail(w) \/ ReturnContext(w)

ConsolidateStep(w) ==
  \/ \E j \in Jobs : StartConsolidate(w, j)
  \/ ReadTranscript(w) \/ LoadRecord(w) \/ BeginJob(w) \/ StartArchive(w) \/ PendManifest(w)
  \/ PutObject(w) \/ StoreManifest(w) \/ RecordArchive(w) \/ NextCandidate(w)
  \/ CheckExisting(w) \/ IngestCandidate(w) \/ RecordCandidate(w) \/ StartSummary(w)
  \/ SaveSummary(w) \/ FinishJob(w) \/ CloseJob(w)

ForgetStep(w) ==
  \/ \E op \in {"forget", "retain"}, x \in DOMAIN mem : StartForget(w, op, x)
  \/ VerifyArchive(w) \/ Authorise(w) \/ SaveIntent(w) \/ Tombstone(w) \/ MarkForgotten(w)
  \/ Cascade(w) \/ InvalidateScope(w) \/ TombstoneObject(w) \/ TombstoneManifest(w)
  \/ ScrubSources(w) \/ AnswerForget(w)

Next ==
  \/ ExpireLease
  \/ \E w \in Workers : \/ AppendStep(w) \/ AssembleStep(w) \/ ConsolidateStep(w)
                        \/ ForgetStep(w) \/ Release(w) \/ FailCall(w) \/ Crash(w)

Spec == Init /\ [][Next]_vars

-----------------------------------------------------------------------------
(* Properties.                                                             *)

\* The control points of each operation.
AppendPcs == {"check", "insert", "tail", "replace", "activity"}
AssemblePcs == {"summary", "hot", "head", "fallback", "filter", "return"}
WorkPcs == {"read", "load", "begin", "archive", "manifest", "put", "stored", "archived", "candidate",
            "existing", "ingest", "progress", "resume_summary", "save_summary", "finish", "close"}
ErasePcs == {"verify", "authorise", "intent", "tomb", "mark", "cascade", "flush", "purge", "purged",
             "scrub", "answer"}

\* Records, manifests and objects stay in their types, and the log holds no
\* message twice.
TypeOK ==
  /\ log \in Seq(Messages) /\ hot \in Seq(Messages) /\ activity \in BOOLEAN
  /\ tomb \subseteq Messages /\ summary \subseteq Messages
  /\ job \in [Jobs -> Record]
  /\ DOMAIN mem \subseteq MemoryId /\ \A x \in DOMAIN mem : mem[x] \in {"active", "soft_deleted"}
  /\ started \subseteq DOMAIN mem /\ done \subseteq started
  /\ manifest \in [Keys -> {"none", "pending", "stored", "tombstoned"}]
  /\ object \in [Keys -> {"none", "content", "tombstone"}]
  /\ lease \in [owner: Workers \cup {Nobody}, live: BOOLEAN]
  /\ pc \in [Workers -> {"idle", "release"} \cup AppendPcs \cup AssemblePcs \cup WorkPcs \cup ErasePcs]
  /\ my \in [Workers -> Locals]
  /\ count \in [calls: Nat, faults: Nat, lapses: Nat, unflushed: Nat]
  /\ IsInjective(log)

\* No context holds a message, or a summary of a message, that was forgotten
\* before its assembly began: whatever Redis still caches, and whoever wrote
\* a tail or a summary after losing the lease (assemble_claimed).
ContextClean ==
  \A w \in Workers : pc[w] = "return" =>
    (ToSet(my[w].tail) \cup my[w].sum) \cap my[w].barred = {}

\* Unless a lease lapses or an invalidation fails, a tail served from Redis is
\* the tail of the table, if nothing was erased between the reading of Redis
\* and that of the head: the number of messages and the last one tell an old
\* tail from the current one (session_tail_with_status).
HotTailExact ==
  [][\A w \in Workers :
       /\ pc[w] = "head" /\ pc'[w] = "filter"
       /\ count.lapses = 0 /\ count.unflushed = 0
       /\ IsPrefix(my[w].seen, log)
       => my[w].tail = SessionTail(TailLimit)]_vars

\* A transcript in the object store has a row that forget will find, at
\* whatever point an archive, a crash or a purge is (lifecycle_archive).
ArchiveFindable ==
  \A k \in Keys : object[k] = "content" => manifest[k] \in {"pending", "stored"}

\* Neither a retried upload nor a resumed consolidation brings back a
\* transcript or a memory, even after losing the lease (put_object,
\* memory_write).
ErasureFinal ==
  [][/\ \A k \in Keys : object[k] = "tombstone" => object'[k] = "tombstone"
     /\ \A x \in DOMAIN mem : x \in DOMAIN mem' /\ (mem[x] # "active" => mem'[x] # "active")]_vars

\* A completed forget has left no message, summary or transcript of its
\* sources, and none is made later, unless a lease lapses (lifecycle_forget).
ForgottenSources ==
  count.lapses = 0 =>
    \A x \in done :
      /\ x.sources \cap (ToSet(log) \cup summary) = {}
      /\ \A k \in Keys : k[2] \cap x.sources # {} => object[k] # "content"
      /\ mem[x] # "active"

\* A completed consolidation has its memories and, if deep, its transcript,
\* however often it crashed, failed and resumed (consolidate_claimed).
CompletedWhole ==
  \A j \in Jobs : job[j].status = "completed" =>
    /\ \A i \in DOMAIN job[j].plan :
         [job |-> j, index |-> i, sources |-> job[j].plan[i]] \in DOMAIN mem
    /\ j[1] = "deep" => object[<<j, ToSet(job[j].input)>>] # "none"

\* Unless a lease lapses, retention deletes no message that was not in a
\* verified transcript, except to resume an erasure (retain_memory).
RetentionCovered ==
  [][\A w \in Workers :
       /\ my[w].op = "retain" /\ pc[w] = "scrub" /\ log' # log
       /\ count.lapses = 0 /\ my[w].covered # {}
       => ToSet(log) \ ToSet(log') \subseteq my[w].covered]_vars

\* The transcripts in the object store are those the rows know of, a completed
\* consolidation has its own, and a completed forget has left none of its sources
\* (lifecycle_archive, consolidate_claimed, lifecycle_forget).
ArchiveWhole == TypeOK /\ ArchiveFindable /\ CompletedWhole /\ ForgottenSources

\* What is erased of a session was covered by an archive or forgotten, and stays
\* erased, against late uploads and resumed consolidations (retain_memory, put_object).
ErasureExact == ErasureFinal /\ RetentionCovered

=============================================================================
