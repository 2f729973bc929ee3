---------------------------- MODULE LifecycleJobs ----------------------------
(***************************************************************************)
(* The durable lifecycle-job queue: hosts enqueue idle, close, deep and    *)
(* retention jobs; workers claim due jobs in batches under expiring,       *)
(* fenced leases, run them, and write progress and outcome back through a  *)
(* guarded save.  Models enqueue_lifecycle_job and execute_lifecycle_jobs  *)
(* (src/runtime/prospective.rs) over the job operations of the PostgreSQL  *)
(* adapter and of the in-memory store.                                     *)
(*                                                                         *)
(* Time is abstract.  A lease is live until Expire says its locked_until   *)
(* has passed; next_attempt_at is "due", or an instant in the future       *)
(* ("timer"), or the instant at which the session will have been idle long *)
(* enough ("idle").                                                        *)
(***************************************************************************)
EXTENDS Naturals, FiniteSets

CONSTANTS
  Jobs,         \* job identities: deterministic_id of the whole request
  Memories,     \* memories named by retention jobs
  Workers,      \* processes that call nextral.jobs.run
  Hosts,        \* callers of nextral.jobs.enqueue
  Owners,       \* lease owner strings
  Owner,        \* worker_owner() of each worker; two workers may collide
  NoOwner,      \* locked_by IS NULL
  Kind,         \* trigger of each job
  Items,        \* memory_ids of a retention job, source memories of the others
  MaxAttempts,  \* max_attempts of the requests
  Limit,        \* jobs claimed by one run
  Store,        \* "postgres" or "memory": where renew_fenced looks the lease up
  EffectsFail,  \* whether retention and consolidation may be refused
  MaxFaults,    \* bound on crashes and on leases lost by a working owner
  MaxActivity   \* bound on session activity

Kinds == {"idle", "close", "deep", "retention"}

ASSUME JobsAssumption ==
  /\ Jobs # {}
  /\ Owner \in [Workers -> Owners]
  /\ NoOwner \notin Owners
  /\ Kind \in [Jobs -> Kinds]
  /\ Items \in [Jobs -> SUBSET Memories]
  /\ MaxAttempts \in Nat \ {0}
  /\ Limit \in Nat \ {0}
  /\ Store \in {"postgres", "memory"}
  /\ EffectsFail \in BOOLEAN
  /\ MaxFaults \in Nat
  /\ MaxActivity \in Nat
  \* The in-memory store belongs to one process.
  /\ Store = "postgres" \/ \A h, k \in Hosts : h = k

VARIABLES
  jobs,          \* the job table
  saw,           \* saw[h]: jobs host h found absent and is about to insert
  stamped,       \* stamped[h]: those of them whose session is marked closed
  pc,            \* control point of each worker
  cur,           \* the job a worker is executing (meaningless when it has none)
  snap,          \* snap[w][j]: w's claim on j with its private copy of the job
  retained,      \* memories whose forget every store acknowledged
  consolidated,  \* consolidation jobs whose output is persisted
  idle,          \* the session has been idle for idle_seconds
  activities,    \* session activity so far
  faults         \* faults so far

workerVars == <<pc, cur, snap>>
effectVars == <<retained, consolidated>>
envVars == <<stamped, idle, activities, faults>>
vars == <<jobs, saw, workerVars, effectVars, envVars>>

Claimable == {"queued", "running", "retry_pending"}
Terminal == {"completed", "terminal_failed"}
Statuses == {"absent"} \cup Claimable \cup Terminal
PcValues == {"ready", "pick", "work", "fenced", "progress", "finish", "failed"}

JobRow == [status: Statuses, attempts: Nat, done: SUBSET Memories,
           due: {"due", "timer", "idle"},
           owner: Owners \cup {NoOwner}, live: BOOLEAN, fence: Nat]
Claim == [fence: Nat, attempts: Nat, done: SUBSET Memories]

NoClaim == [fence |-> 0, attempts |-> 0, done |-> {}]
Absent == [status |-> "absent", attempts |-> 0, done |-> {}, due |-> "timer",
           owner |-> NoOwner, live |-> FALSE, fence |-> 0]
Queued == [Absent EXCEPT !.status = "queued"]

TypeOK ==
  /\ jobs \in [Jobs -> JobRow]
  /\ saw \in [Hosts -> SUBSET Jobs]
  /\ stamped \in [Hosts -> SUBSET Jobs]
  /\ pc \in [Workers -> PcValues]
  /\ cur \in [Workers -> Jobs]
  /\ snap \in [Workers -> [Jobs -> Claim]]
  /\ retained \in SUBSET Memories
  /\ consolidated \in SUBSET Jobs
  /\ idle \in BOOLEAN
  /\ activities \in Nat
  /\ faults \in Nat

Init ==
  /\ jobs = [j \in Jobs |-> Absent]
  /\ saw = [h \in Hosts |-> {}]
  /\ stamped = [h \in Hosts |-> {}]
  /\ pc = [w \in Workers |-> "ready"]
  /\ cur = [w \in Workers |-> CHOOSE j \in Jobs : TRUE]
  /\ snap = [w \in Workers |-> [j \in Jobs |-> NoClaim]]
  /\ retained = {}
  /\ consolidated = {}
  /\ idle = FALSE
  /\ activities = 0
  /\ faults = 0

-----------------------------------------------------------------------------
(* Enqueueing: a lookup, the activity stamp of a close job and the insert,  *)
(* each in a transaction of its own.                                       *)

\* job_get finds nothing; an existing job is returned as it is.
EnqueueLookup(h, j) ==
  /\ jobs[j].status = "absent"
  /\ saw' = [saw EXCEPT ![h] = @ \cup {j}]
  /\ UNCHANGED <<jobs, workerVars, effectVars, envVars>>

\* INSERT ... ON CONFLICT DO NOTHING; the in-memory store overwrites.
JobEnqueue(j) ==
  IF Store = "memory" \/ jobs[j].status = "absent"
  THEN [jobs EXCEPT ![j] = Queued]
  ELSE jobs

\* New session activity moves the idle instant: what was waiting for the old
\* one now waits for an ordinary instant.
DueAfterTouch(due) == IF due = "idle" THEN "timer" ELSE due

Touch(rows) == [j \in Jobs |-> [rows[j] EXCEPT !.due = DueAfterTouch(@)]]

\* A close job first stamps session-activity with the current time.
EnqueueStamp(h, j) ==
  /\ j \in saw[h] \ stamped[h] /\ Kind[j] = "close"
  /\ stamped' = [stamped EXCEPT ![h] = @ \cup {j}]
  /\ idle' = FALSE
  /\ jobs' = Touch(jobs)
  /\ UNCHANGED <<saw, workerVars, effectVars, activities, faults>>

EnqueueInsert(h, j) ==
  /\ j \in saw[h]
  /\ Kind[j] = "close" => j \in stamped[h]
  /\ saw' = [saw EXCEPT ![h] = @ \ {j}]
  /\ stamped' = [stamped EXCEPT ![h] = @ \ {j}]
  /\ jobs' = JobEnqueue(j)
  /\ UNCHANGED <<workerVars, effectVars, idle, activities, faults>>

-----------------------------------------------------------------------------
(* The claim and the guarded save.                                         *)

\* Mutant: the status filter of the claim is lost.
DueJobsAnyStatus == {j \in Jobs : /\ jobs[j].status # "absent"
                                  /\ ~jobs[j].live
                                  /\ jobs[j].due = "due"}

\* Mutant: jobs left "running" by a dead worker are not claimed again.
DueJobsNotRunning == {j \in Jobs : /\ jobs[j].status \in Claimable \ {"running"}
                                   /\ ~jobs[j].live
                                   /\ jobs[j].due = "due"}

DueJobs == {j \in Jobs : /\ jobs[j].status \in Claimable
                         /\ ~jobs[j].live
                         /\ jobs[j].due = "due"}

ClaimedRow(w, row) ==
  [row EXCEPT !.status = "running", !.owner = Owner[w], !.live = TRUE,
              !.fence = @ + 1]

\* lifecycle_job_claim_due: one transaction claims up to Limit due jobs.
ClaimDue(w) ==
  /\ pc[w] = "ready"
  /\ \E S \in SUBSET DueJobs :
       /\ S # {}
       /\ Cardinality(S) = Limit \/ (Cardinality(S) < Limit /\ S = DueJobs)
       /\ jobs' = [j \in Jobs |-> IF j \in S THEN ClaimedRow(w, jobs[j])
                                             ELSE jobs[j]]
       /\ snap' = [snap EXCEPT ![w] =
            [j \in Jobs |-> IF j \in S THEN [fence |-> jobs[j].fence + 1,
                                             attempts |-> jobs[j].attempts,
                                             done |-> jobs[j].done]
                                       ELSE NoClaim]]
  /\ pc' = [pc EXCEPT ![w] = "pick"]
  /\ UNCHANGED <<saw, cur, effectVars, envVars>>

\* Mutant: the guard compares owners and not fences.
GuardOwnerOnly(w, j) == jobs[j].owner = Owner[w] /\ jobs[j].live

\* The WHERE clause of lifecycle_job_save_guarded.
GuardHolds(w, j) ==
  /\ jobs[j].owner = Owner[w]
  /\ jobs[j].fence = snap[w][j].fence
  /\ jobs[j].live

\* The row a guarded save writes: every status but "running" unlocks it.
SavedRow(row, status, claim, due) ==
  [row EXCEPT !.status = status, !.attempts = claim.attempts,
              !.done = claim.done, !.due = due,
              !.owner = IF status = "running" THEN @ ELSE NoOwner,
              !.live = IF status = "running" THEN @ ELSE FALSE]

Save(w, j, status, claim, due) ==
  jobs' = [jobs EXCEPT ![j] = SavedRow(@, status, claim, due)]

DropClaim(w, j) == snap' = [snap EXCEPT ![w][j] = NoClaim]

Goto(w, label) == pc' = [pc EXCEPT ![w] = label]

\* The run returns: its claims are dropped, the leases stay until they expire.
EndRun(w) ==
  /\ Goto(w, "ready")
  /\ snap' = [snap EXCEPT ![w] = [j \in Jobs |-> NoClaim]]
  /\ UNCHANGED cur

-----------------------------------------------------------------------------
(* One job of the batch.                                                   *)

HasClaim(w, j) == snap[w][j].fence # 0

MustPostpone(j) == Kind[j] = "idle" /\ ~idle

\* An idle job whose session is still active goes back to the queue.
Postpone(w, j) ==
  /\ pc[w] = "pick" /\ HasClaim(w, j) /\ MustPostpone(j)
  /\ GuardHolds(w, j)
  /\ Save(w, j, "queued", snap[w][j], "idle")
  /\ DropClaim(w, j)
  /\ UNCHANGED <<saw, pc, cur, effectVars, envVars>>

\* The attempt is counted and persisted before the work begins.
Begin(w, j) ==
  /\ pc[w] = "pick" /\ HasClaim(w, j) /\ ~MustPostpone(j)
  /\ GuardHolds(w, j)
  /\ LET claim == [snap[w][j] EXCEPT !.attempts = @ + 1]
     IN  /\ Save(w, j, "running", claim, "due")
         /\ snap' = [snap EXCEPT ![w][j] = claim]
  /\ cur' = [cur EXCEPT ![w] = j]
  /\ Goto(w, "work")
  /\ UNCHANGED <<saw, effectVars, envVars>>

\* Either save refused: the error leaves the loop and abandons the batch.
AbortBatch(w, j) ==
  /\ pc[w] = "pick" /\ HasClaim(w, j)
  /\ ~GuardHolds(w, j)
  /\ EndRun(w)
  /\ UNCHANGED <<jobs, saw, effectVars, envVars>>

FinishBatch(w) ==
  /\ pc[w] = "pick"
  /\ \A j \in Jobs : ~HasClaim(w, j)
  /\ EndRun(w)
  /\ UNCHANGED <<jobs, saw, effectVars, envVars>>

Pending(w) == Items[cur[w]] \ snap[w][cur[w]].done

\* renew_fenced of a job claim.  The PostgreSQL statement searches
\* nextral_runtime_state, where no job has a row; the in-memory store searches
\* the job table.
JobRenew(w, j) == Store = "memory" /\ GuardHolds(w, j)

\* retain_memory up to fence_job: archive coverage verified, job lease renewed.
FenceJob(w) ==
  /\ pc[w] = "work" /\ Kind[cur[w]] = "retention" /\ Pending(w) # {}
  /\ \/ JobRenew(w, cur[w]) /\ Goto(w, "fenced")
     \/ (~JobRenew(w, cur[w]) \/ EffectsFail) /\ Goto(w, "failed")
  /\ UNCHANGED <<jobs, saw, cur, snap, effectVars, envVars>>

\* Mutant: an "in_progress" response counts as well.
EraseItemAnyResponse(w) ==
  /\ pc[w] = "fenced"
  /\ \E m \in Pending(w) :
       /\ retained' \in {retained, retained \cup {m}}
       /\ snap' = [snap EXCEPT ![w][cur[w]].done = @ \cup {m}]
  /\ Goto(w, "progress")
  /\ UNCHANGED <<jobs, saw, cur, consolidated, envVars>>

\* forget_claimed: only a "completed" response counts the memory as done.
EraseItem(w) ==
  /\ pc[w] = "fenced"
  /\ \/ \E m \in Pending(w) :
          /\ retained' = retained \cup {m}
          /\ snap' = [snap EXCEPT ![w][cur[w]].done = @ \cup {m}]
          /\ Goto(w, "progress")
     \/ /\ EffectsFail
        /\ Goto(w, "failed")
        /\ UNCHANGED <<retained, snap>>
  /\ UNCHANGED <<jobs, saw, cur, consolidated, envVars>>

SaveProgress(w) ==
  /\ pc[w] = "progress"
  /\ IF GuardHolds(w, cur[w])
     THEN Save(w, cur[w], "running", snap[w][cur[w]], "due") /\ Goto(w, "work")
     ELSE UNCHANGED jobs /\ Goto(w, "failed")
  /\ UNCHANGED <<saw, cur, snap, effectVars, envVars>>

RetentionDone(w) ==
  /\ pc[w] = "work" /\ Kind[cur[w]] = "retention" /\ Pending(w) = {}
  /\ Goto(w, "finish")
  /\ UNCHANGED <<jobs, saw, cur, snap, effectVars, envVars>>

\* consolidate_session with the queued host outputs.
Consolidate(w) ==
  /\ pc[w] = "work" /\ Kind[cur[w]] # "retention"
  /\ \/ consolidated' = consolidated \cup {cur[w]} /\ Goto(w, "finish")
     \/ EffectsFail /\ Goto(w, "failed") /\ UNCHANGED consolidated
  /\ UNCHANGED <<jobs, saw, cur, snap, retained, envVars>>

Complete(w) ==
  /\ pc[w] = "finish"
  /\ IF GuardHolds(w, cur[w])
     THEN /\ Save(w, cur[w], "completed", snap[w][cur[w]], "due")
          /\ DropClaim(w, cur[w])
          /\ Goto(w, "pick")
     ELSE UNCHANGED <<jobs, snap>> /\ Goto(w, "failed")
  /\ UNCHANGED <<saw, cur, effectVars, envVars>>

\* The error path: retry in 60 seconds or give up; a refused save is ignored.
FailJob(w) ==
  /\ pc[w] = "failed"
  /\ LET j == cur[w]
     IN  IF GuardHolds(w, j)
         THEN IF snap[w][j].attempts >= MaxAttempts
              THEN Save(w, j, "terminal_failed", snap[w][j], "due")
              ELSE Save(w, j, "retry_pending", snap[w][j], "timer")
         ELSE UNCHANGED jobs
  /\ DropClaim(w, cur[w])
  /\ Goto(w, "pick")
  /\ UNCHANGED <<saw, cur, effectVars, envVars>>

-----------------------------------------------------------------------------
(* Environment: explicit forget, time, session activity, crashes.          *)

\* nextral.memory.forget ends "completed".  scrub_sources rewrites the rows of
\* nextral_runtime_state; it does not visit nextral_lifecycle_jobs.
ForgetMemory(m) ==
  /\ m \notin retained
  /\ retained' = retained \cup {m}
  /\ UNCHANGED <<jobs, saw, workerVars, consolidated, envVars>>

\* append_session_message stamps session-activity.
Activity ==
  /\ activities < MaxActivity
  /\ activities' = activities + 1
  /\ idle' = FALSE
  /\ jobs' = Touch(jobs)
  /\ UNCHANGED <<saw, stamped, workerVars, effectVars, faults>>

DueOnceIdle(due) == IF due = "idle" THEN "due" ELSE due

IdleElapses ==
  /\ ~idle
  /\ idle' = TRUE
  /\ jobs' = [j \in Jobs |-> [jobs[j] EXCEPT !.due = DueOnceIdle(@)]]
  /\ UNCHANGED <<saw, stamped, workerVars, effectVars, activities, faults>>

DueArrives(j) ==
  /\ jobs[j].status # "absent" /\ jobs[j].due = "timer"
  /\ jobs' = [jobs EXCEPT ![j].due = "due"]
  /\ UNCHANGED <<saw, workerVars, effectVars, envVars>>

\* Somebody still works under the current lease of j.
Held(j) == \E w \in Workers : HasClaim(w, j) /\ GuardHolds(w, j)

\* locked_until passes; that is a fault only while the owner still works.
Expire(j) ==
  /\ jobs[j].live
  /\ Held(j) => faults < MaxFaults
  /\ faults' = IF Held(j) THEN faults + 1 ELSE faults
  /\ jobs' = [jobs EXCEPT ![j].live = FALSE]
  /\ UNCHANGED <<saw, stamped, workerVars, effectVars, idle, activities>>

\* The worker process dies, or an error of the store itself ends its run;
\* everything but the table is lost.
Crash(w) ==
  /\ pc[w] # "ready" /\ faults < MaxFaults
  /\ faults' = faults + 1
  /\ EndRun(w)
  /\ UNCHANGED <<jobs, saw, stamped, effectVars, idle, activities>>

WorkerStep(w) ==
  \/ \E j \in Jobs : Postpone(w, j) \/ Begin(w, j) \/ AbortBatch(w, j)
  \/ FinishBatch(w)
  \/ FenceJob(w) \/ EraseItem(w) \/ SaveProgress(w) \/ RetentionDone(w)
  \/ Consolidate(w) \/ Complete(w) \/ FailJob(w)

Next ==
  \/ \E h \in Hosts, j \in Jobs : EnqueueLookup(h, j) \/ EnqueueStamp(h, j)
                                  \/ EnqueueInsert(h, j)
  \/ \E w \in Workers : ClaimDue(w) \/ WorkerStep(w) \/ Crash(w)
  \/ \E j \in Jobs : DueArrives(j) \/ Expire(j)
  \/ \E m \in Memories : ForgetMemory(m)
  \/ Activity
  \/ IdleElapses

Spec == Init /\ [][Next]_vars

\* The worker thread ticks for ever, time passes, and nothing else is forced.
Fairness ==
  /\ \A w \in Workers : WF_vars(ClaimDue(w)) /\ WF_vars(WorkerStep(w))
  /\ \A j \in Jobs : WF_vars(DueArrives(j)) /\ WF_vars(Expire(j))
  /\ WF_vars(IdleElapses)

FairSpec == Spec /\ Fairness
-----------------------------------------------------------------------------
(* Properties.                                                             *)

\* A completed job really took effect: every memory of a retention job was
\* forgotten by all stores and a consolidation job's output is persisted,
\* whatever workers died or lost their lease on the way
\* (execute_lifecycle_jobs, the "completed" save).
CompletedIsReal ==
  \A j \in Jobs : jobs[j].status = "completed" =>
    IF Kind[j] = "retention" THEN Items[j] \subseteq retained
                             ELSE j \in consolidated

\* No guarded save rolls a job back: recorded attempts and completed memory
\* ids only grow, although every save writes a worker's private copy that may
\* have been read long before (lifecycle_job_save_guarded).
ProgressKept ==
  [][\A j \in Jobs : /\ jobs[j].attempts <= jobs'[j].attempts
                     /\ jobs[j].done \subseteq jobs'[j].done]_jobs

\* A completed or terminally failed job is never reopened or rewritten, by a
\* late worker, a second enqueue of the same request or a later claim
\* (job_claim_due, job_save_guarded, job_enqueue).
TerminalFinal ==
  [][\A j \in Jobs : jobs[j].status \in Terminal => jobs'[j] = jobs[j]]_jobs

\* What makes the guard sound.  A claim never runs ahead of its row, two
\* workers never hold claims with the same fence on one job even if their
\* owner strings collide, and the copy behind a claim that is still current is
\* at least as advanced as the row, which is running.
ClaimsSound ==
  /\ \A w \in Workers, j \in Jobs : snap[w][j].fence <= jobs[j].fence
  /\ \A v, w \in Workers, j \in Jobs :
       v # w /\ HasClaim(v, j) => snap[v][j].fence # snap[w][j].fence
  /\ \A w \in Workers, j \in Jobs :
       HasClaim(w, j) /\ snap[w][j].fence = jobs[j].fence =>
         /\ jobs[j].status = "running"
         /\ jobs[j].attempts <= snap[w][j].attempts
         /\ jobs[j].done \subseteq snap[w][j].done

\* The rest of the inductive invariant: who has claims, that recorded progress
\* happened, and the shape of rows nobody works on.
BusyHasClaim ==
  \A w \in Workers :
    /\ pc[w] \notin {"ready", "pick"} => HasClaim(w, cur[w])
    /\ pc[w] = "ready" => \A j \in Jobs : ~HasClaim(w, j)

ProgressHappened ==
  /\ \A j \in Jobs : jobs[j].done \subseteq retained
  /\ \A w \in Workers, j \in Jobs : snap[w][j].done \subseteq retained
  /\ \A w \in Workers : pc[w] = "finish" =>
       IF Kind[cur[w]] = "retention" THEN Items[cur[w]] \subseteq snap[w][cur[w]].done
                                     ELSE cur[w] \in consolidated

RestingRows ==
  /\ \A j \in Jobs : jobs[j].status = "absent" => jobs[j] = Absent
  /\ \A j \in Jobs : jobs[j].status \in Terminal =>
       jobs[j].due = "due" /\ ~jobs[j].live /\ jobs[j].owner = NoOwner
  /\ Store = "memory" =>
       \A h \in Hosts : \A j \in saw[h] : jobs[j].status = "absent"

IInv == /\ TypeOK /\ ClaimsSound /\ BusyHasClaim
        /\ ProgressHappened /\ RestingRows /\ CompletedIsReal

\* Every enqueued job is settled once crashes and lost leases stop: a claim
\* abandoned by a dead worker expires and the job is claimed again
\* (job_claim_due takes expired "running" rows).
JobsSettle ==
  \A j \in Jobs : jobs[j].status # "absent" ~> jobs[j].status \in Terminal

=============================================================================
