------------------------ MODULE LifecycleJobsProofs ------------------------
(***************************************************************************)
(* Proofs about LifecycleJobs, for every set of jobs, workers and hosts    *)
(* and every assignment of owner strings.  The first lemmas say what one   *)
(* write does to a row, to the table or to the claims; the step lemmas     *)
(* after them only use those facts.                                        *)
(***************************************************************************)
EXTENDS LifecycleJobs, TLAPS

Dues == {"due", "timer", "idle"}

\* What the guarded save writes: the claim's copy; the row keeps its fence.
LEMMA SavedRowFacts ==
  ASSUME NEW row \in JobRow, NEW status \in Statuses, NEW claim \in Claim,
         NEW due \in Dues
  PROVE  LET new == SavedRow(row, status, claim, due)
         IN  /\ new \in JobRow
             /\ new.status = status /\ new.attempts = claim.attempts
             /\ new.done = claim.done /\ new.due = due
             /\ new.fence = row.fence
             /\ status # "running" => new.owner = NoOwner /\ ~new.live
  BY DEF SavedRow, JobRow, Claim, Dues

\* A guarded save replaces one row of the table.
LEMMA SaveFacts ==
  ASSUME jobs \in [Jobs -> JobRow], NEW w, NEW j \in Jobs,
         NEW status \in Statuses, NEW claim \in Claim, NEW due \in Dues,
         Save(w, j, status, claim, due)
  PROVE  /\ jobs' \in [Jobs -> JobRow]
         /\ \A k \in Jobs : k # j => jobs'[k] = jobs[k]
         /\ jobs'[j].status = status /\ jobs'[j].attempts = claim.attempts
         /\ jobs'[j].done = claim.done /\ jobs'[j].due = due
         /\ jobs'[j].fence = jobs[j].fence
         /\ status # "running" => jobs'[j].owner = NoOwner /\ ~jobs'[j].live
<1>1. jobs' = [jobs EXCEPT ![j] = SavedRow(jobs[j], status, claim, due)]
  BY DEF Save
<1>2. SavedRow(jobs[j], status, claim, due) \in JobRow
  BY SavedRowFacts
<1>3. /\ jobs' \in [Jobs -> JobRow]
      /\ jobs'[j] = SavedRow(jobs[j], status, claim, due)
      /\ \A k \in Jobs : k # j => jobs'[k] = jobs[k]
  BY <1>1, <1>2
<1> DEFINE new == SavedRow(jobs[j], status, claim, due)
<1>4. /\ new.status = status /\ new.attempts = claim.attempts
      /\ new.done = claim.done /\ new.due = due
      /\ new.fence = jobs[j].fence
      /\ status # "running" => new.owner = NoOwner /\ ~new.live
  BY SavedRowFacts
<1> QED
  BY <1>3, <1>4

\* What the claim of due jobs writes.
LEMMA ClaimedRowFacts ==
  ASSUME NEW w \in Workers, NEW row \in JobRow
  PROVE  LET new == ClaimedRow(w, row)
         IN  /\ new \in JobRow
             /\ new.status = "running" /\ new.live
             /\ new.fence = row.fence + 1
             /\ new.attempts = row.attempts /\ new.done = row.done
<1>1. Owner[w] \in Owners
  BY JobsAssumption
<1>2. "running" \in Statuses
  BY DEF Statuses, Claimable
<1> DEFINE a == [row EXCEPT !.status = "running"]
           b == [a EXCEPT !.owner = Owner[w]]
           c == [b EXCEPT !.live = TRUE]
           d == [c EXCEPT !.fence = row.fence + 1]
<1>3. /\ a \in JobRow /\ a.status = "running" /\ a.fence = row.fence
      /\ a.attempts = row.attempts /\ a.done = row.done
  BY <1>2 DEF JobRow
<1> HIDE DEF a
<1>4. /\ b \in JobRow /\ b.status = "running" /\ b.fence = row.fence
      /\ b.attempts = row.attempts /\ b.done = row.done
  BY <1>1, <1>3 DEF JobRow
<1> HIDE DEF b
<1>5. /\ c \in JobRow /\ c.status = "running" /\ c.fence = row.fence /\ c.live
      /\ c.attempts = row.attempts /\ c.done = row.done
  BY <1>4 DEF JobRow
<1> HIDE DEF c
<1>6. /\ d \in JobRow /\ d.status = "running" /\ d.fence = row.fence + 1 /\ d.live
      /\ d.attempts = row.attempts /\ d.done = row.done
  BY <1>5 DEF JobRow
<1>7. ClaimedRow(w, row) = d
  BY <1>3, <1>4, <1>5 DEF ClaimedRow, a, b, c, JobRow
<1> HIDE DEF d
<1> QED
  BY <1>6, <1>7

\* Moving the instant at which a row falls due changes nothing else of it.
LEMMA DueRowFacts ==
  ASSUME NEW row \in JobRow, NEW due \in Dues
  PROVE  LET new == [row EXCEPT !.due = due]
         IN  /\ new \in JobRow
             /\ new.status = row.status /\ new.attempts = row.attempts
             /\ new.done = row.done /\ new.owner = row.owner
             /\ new.live = row.live /\ new.fence = row.fence
             /\ due = row.due => new = row
  BY DEF JobRow, Dues

\* Two rows that differ at most in when they fall due, and do so only if the
\* first one awaits the idle instant or an ordinary timer.
Retimed(row, new) ==
  /\ new \in JobRow
  /\ new.status = row.status /\ new.attempts = row.attempts
  /\ new.done = row.done /\ new.owner = row.owner
  /\ new.live = row.live /\ new.fence = row.fence
  /\ row.due # "idle" => new = row

\* Session activity only moves the instants that wait for the session.
LEMMA TouchFacts ==
  ASSUME NEW rows \in [Jobs -> JobRow]
  PROVE  \A j \in Jobs : Retimed(rows[j], Touch(rows)[j])
<1> SUFFICES ASSUME NEW j \in Jobs
             PROVE  Retimed(rows[j], Touch(rows)[j])
  OBVIOUS
<1>1. rows[j] \in JobRow
  OBVIOUS
<1>2. /\ DueAfterTouch(rows[j].due) \in Dues
      /\ rows[j].due # "idle" => DueAfterTouch(rows[j].due) = rows[j].due
  BY <1>1 DEF JobRow, DueAfterTouch, Dues
<1>3. Touch(rows)[j] = [rows[j] EXCEPT !.due = DueAfterTouch(rows[j].due)]
  BY <1>1 DEF Touch
<1> QED
  BY <1>1, <1>2, <1>3, DueRowFacts DEF Retimed

\* The same when the session has been idle long enough.
LEMMA OnceIdleFacts ==
  ASSUME NEW row \in JobRow
  PROVE  Retimed(row, [row EXCEPT !.due = DueOnceIdle(row.due)])
<1>1. /\ DueOnceIdle(row.due) \in Dues
      /\ row.due # "idle" => DueOnceIdle(row.due) = row.due
  BY DEF JobRow, DueOnceIdle, Dues
<1> QED
  BY <1>1, DueRowFacts DEF Retimed

\* Expiry clears the live flag and nothing else.
LEMMA ExpiredRowFacts ==
  ASSUME NEW row \in JobRow
  PROVE  LET new == [row EXCEPT !.live = FALSE]
         IN  /\ new \in JobRow
             /\ new.status = row.status /\ new.attempts = row.attempts
             /\ new.done = row.done /\ new.owner = row.owner
             /\ new.due = row.due /\ new.fence = row.fence
  BY DEF JobRow

\* Replacing one claim of one worker leaves all others alone.
LEMMA ClaimUpdate ==
  ASSUME NEW s \in [Workers -> [Jobs -> Claim]], NEW w \in Workers,
         NEW j \in Jobs, NEW c \in Claim, NEW t,
         t = [s EXCEPT ![w][j] = c]
  PROVE  /\ t \in [Workers -> [Jobs -> Claim]]
         /\ t[w][j] = c
         /\ \A v \in Workers, k \in Jobs : v # w \/ k # j => t[v][k] = s[v][k]
  OBVIOUS

LEMMA NoClaimFacts ==
  NoClaim \in Claim /\ NoClaim.fence = 0 /\ NoClaim.attempts = 0 /\ NoClaim.done = {}
  BY DEF NoClaim, Claim

\* Dropping the claims of a run leaves those of the other workers alone.
LEMMA EndRunFacts ==
  ASSUME TypeOK, NEW w \in Workers, EndRun(w)
  PROVE  /\ snap' \in [Workers -> [Jobs -> Claim]]
         /\ \A k \in Jobs : snap'[w][k] = NoClaim
         /\ \A v \in Workers : v # w => snap'[v] = snap[v]
         /\ pc' = [pc EXCEPT ![w] = "ready"]
         /\ cur' = cur
<1>1. snap \in [Workers -> [Jobs -> Claim]]
  BY DEF TypeOK
<1>2. snap' = [snap EXCEPT ![w] = [j \in Jobs |-> NoClaim]]
  BY DEF EndRun
<1>3. [j \in Jobs |-> NoClaim] \in [Jobs -> Claim]
  BY NoClaimFacts
<1>4. pc' = [pc EXCEPT ![w] = "ready"] /\ cur' = cur
  BY DEF EndRun, Goto
<1> QED
  BY <1>1, <1>2, <1>3, <1>4

\* A counted attempt and a finished memory keep a claim well formed.
LEMMA BumpedClaim ==
  ASSUME NEW c \in Claim
  PROVE  LET new == [c EXCEPT !.attempts = @ + 1]
         IN  /\ new \in Claim /\ new.fence = c.fence /\ new.done = c.done
             /\ new.attempts = c.attempts + 1
  BY DEF Claim

LEMMA GrownClaim ==
  ASSUME NEW c \in Claim, NEW m \in Memories
  PROVE  LET new == [c EXCEPT !.done = @ \cup {m}]
         IN  /\ new \in Claim /\ new.fence = c.fence
             /\ new.attempts = c.attempts /\ new.done = c.done \cup {m}
  BY DEF Claim

\* An insert writes a fresh queued row or leaves the table alone.
LEMMA EnqueueFacts ==
  ASSUME NEW j \in Jobs, jobs \in [Jobs -> JobRow]
  PROVE  /\ JobEnqueue(j) \in [Jobs -> JobRow]
         /\ \A k \in Jobs : k # j => JobEnqueue(j)[k] = jobs[k]
         /\ \/ JobEnqueue(j)[j] = jobs[j]
            \/ /\ JobEnqueue(j)[j] = Queued
               /\ jobs[j].status = "absent" \/ Store = "memory"
<1>1. Queued \in JobRow
  BY DEF Queued, Absent, JobRow, Statuses, Claimable
<1> QED
  BY <1>1 DEF JobEnqueue

LEMMA StatusFacts ==
  /\ \A s \in {"queued", "running", "completed", "retry_pending", "terminal_failed"} :
       s \in Statuses
  /\ "due" \in Dues /\ "timer" \in Dues /\ "idle" \in Dues
  BY DEF Statuses, Claimable, Terminal, Dues

-----------------------------------------------------------------------------
(* Every step preserves the types.                                         *)

\* One claim of one worker is replaced by c.
ClaimStep(w, j, c) ==
  /\ snap' \in [Workers -> [Jobs -> Claim]]
  /\ snap'[w][j] = c
  /\ \A v \in Workers, k \in Jobs : v # w \/ k # j => snap'[v][k] = snap[v][k]

LEMMA DropClaimFacts ==
  ASSUME TypeOK, NEW w \in Workers, NEW j \in Jobs, DropClaim(w, j)
  PROVE  ClaimStep(w, j, NoClaim)
<1>1. snap \in [Workers -> [Jobs -> Claim]] /\ snap' = [snap EXCEPT ![w][j] = NoClaim]
  BY DEF TypeOK, DropClaim
<1> QED
  BY <1>1, NoClaimFacts, ClaimUpdate DEF ClaimStep

LEMMA BeginFacts ==
  ASSUME TypeOK, NEW w \in Workers, NEW j \in Jobs, Begin(w, j)
  PROVE  \E claim \in Claim :
           /\ claim.fence = snap[w][j].fence /\ claim.done = snap[w][j].done
           /\ claim.attempts = snap[w][j].attempts + 1
           /\ Save(w, j, "running", claim, "due")
           /\ ClaimStep(w, j, claim)
<1> DEFINE claim == [snap[w][j] EXCEPT !.attempts = @ + 1]
<1>1. snap \in [Workers -> [Jobs -> Claim]] /\ snap[w][j] \in Claim
  BY DEF TypeOK
<1>2. /\ claim \in Claim /\ claim.fence = snap[w][j].fence
      /\ claim.done = snap[w][j].done /\ claim.attempts = snap[w][j].attempts + 1
  BY <1>1, BumpedClaim
<1>3. Save(w, j, "running", claim, "due") /\ snap' = [snap EXCEPT ![w][j] = claim]
  BY DEF Begin
<1> HIDE DEF claim
<1>4. ClaimStep(w, j, claim)
  BY <1>1, <1>2, <1>3, ClaimUpdate DEF ClaimStep
<1> QED
  BY <1>2, <1>3, <1>4

\* forget_claimed succeeded for m, which the claim now counts as done.
LEMMA EraseFacts ==
  ASSUME TypeOK, NEW w \in Workers, EraseItem(w), snap' # snap
  PROVE  \E m \in Memories, c \in Claim :
           /\ retained' = retained \cup {m}
           /\ ClaimStep(w, cur[w], c)
           /\ c.fence = snap[w][cur[w]].fence /\ c.attempts = snap[w][cur[w]].attempts
           /\ c.done = snap[w][cur[w]].done \cup {m}
<1>1. PICK m \in Pending(w) :
        /\ retained' = retained \cup {m}
        /\ snap' = [snap EXCEPT ![w][cur[w]].done = @ \cup {m}]
  BY DEF EraseItem
<1>2. /\ snap \in [Workers -> [Jobs -> Claim]] /\ cur[w] \in Jobs
      /\ snap[w][cur[w]] \in Claim
  BY DEF TypeOK
<1>3. m \in Memories
  <2>1. Items[cur[w]] \in SUBSET Memories
    BY <1>2, JobsAssumption
  <2> QED
    BY <2>1, <1>1 DEF Pending
<1> DEFINE c == [snap[w][cur[w]] EXCEPT !.done = @ \cup {m}]
<1>4. /\ c \in Claim /\ c.fence = snap[w][cur[w]].fence
      /\ c.attempts = snap[w][cur[w]].attempts
      /\ c.done = snap[w][cur[w]].done \cup {m}
  BY <1>2, <1>3, GrownClaim
<1>5. snap' = [snap EXCEPT ![w][cur[w]] = c]
  BY <1>1
<1> HIDE DEF c
<1>6. ClaimStep(w, cur[w], c)
  BY <1>2, <1>4, <1>5, ClaimUpdate DEF ClaimStep
<1> QED
  BY <1>1, <1>3, <1>4, <1>6

\* What one claim transaction does to the rows and to the claims of its worker.
LEMMA ClaimDueFacts ==
  ASSUME TypeOK, NEW w \in Workers, ClaimDue(w)
  PROVE  /\ jobs' \in [Jobs -> JobRow]
         /\ snap' \in [Workers -> [Jobs -> Claim]]
         /\ \A v \in Workers : v # w => snap'[v] = snap[v]
         /\ \A j \in Jobs :
              \/ jobs'[j] = jobs[j] /\ snap'[w][j] = NoClaim
              \/ /\ jobs[j].status \in Claimable
                 /\ jobs'[j].status = "running"
                 /\ jobs'[j].fence = jobs[j].fence + 1
                 /\ jobs'[j].attempts = jobs[j].attempts
                 /\ jobs'[j].done = jobs[j].done
                 /\ snap'[w][j].fence = jobs[j].fence + 1
                 /\ snap'[w][j].attempts = jobs[j].attempts
                 /\ snap'[w][j].done = jobs[j].done
<1> DEFINE fresh(j) == [fence |-> jobs[j].fence + 1, attempts |-> jobs[j].attempts,
                        done |-> jobs[j].done]
<1>1. PICK S \in SUBSET DueJobs :
        /\ jobs' = [j \in Jobs |-> IF j \in S THEN ClaimedRow(w, jobs[j]) ELSE jobs[j]]
        /\ snap' = [snap EXCEPT ![w] = [j \in Jobs |-> IF j \in S THEN fresh(j) ELSE NoClaim]]
  BY DEF ClaimDue
<1>2. jobs \in [Jobs -> JobRow] /\ snap \in [Workers -> [Jobs -> Claim]]
  BY DEF TypeOK
<1>3. \A j \in Jobs :
        /\ ClaimedRow(w, jobs[j]) \in JobRow
        /\ ClaimedRow(w, jobs[j]).status = "running"
        /\ ClaimedRow(w, jobs[j]).fence = jobs[j].fence + 1
        /\ ClaimedRow(w, jobs[j]).attempts = jobs[j].attempts
        /\ ClaimedRow(w, jobs[j]).done = jobs[j].done
  BY <1>2, ClaimedRowFacts
<1>4. \A j \in Jobs :
        /\ fresh(j) \in Claim
        /\ fresh(j).fence = jobs[j].fence + 1 /\ fresh(j).attempts = jobs[j].attempts
        /\ fresh(j).done = jobs[j].done
  <2> SUFFICES ASSUME NEW j \in Jobs
               PROVE  /\ fresh(j) \in Claim
                      /\ fresh(j).fence = jobs[j].fence + 1
                      /\ fresh(j).attempts = jobs[j].attempts
                      /\ fresh(j).done = jobs[j].done
    OBVIOUS
  <2>1. /\ jobs[j].fence \in Nat /\ jobs[j].attempts \in Nat
        /\ jobs[j].done \in SUBSET Memories
    BY <1>2 DEF JobRow
  <2> QED
    BY <2>1 DEF Claim
<1>5. \A j \in S : jobs[j].status \in Claimable
  BY DEF DueJobs
<1> HIDE DEF fresh
<1>6. [j \in Jobs |-> IF j \in S THEN fresh(j) ELSE NoClaim] \in [Jobs -> Claim]
  BY <1>4, NoClaimFacts
<1>7. snap' \in [Workers -> [Jobs -> Claim]] /\ \A v \in Workers : v # w => snap'[v] = snap[v]
  BY <1>1, <1>2, <1>6
<1>8. jobs' \in [Jobs -> JobRow]
  BY <1>1, <1>2, <1>3
<1>9. \A j \in Jobs : /\ jobs'[j] = IF j \in S THEN ClaimedRow(w, jobs[j]) ELSE jobs[j]
                      /\ snap'[w][j] = IF j \in S THEN fresh(j) ELSE NoClaim
  BY <1>1, <1>2
<1> QED
  BY <1>3, <1>4, <1>5, <1>7, <1>8, <1>9

-----------------------------------------------------------------------------
(* Kinds of step: as far as the table and the claims are concerned,   *)
(* every step is a lookup, an insert, a claim, a guarded save that passes, *)
(* a step that leaves the table alone, or the passing of time.             *)

\* Nothing but when it falls due and whether its lease is live changes in j,
\* and nothing at all if j is absent or terminal.
Kept(j) ==
  /\ jobs'[j].status = jobs[j].status /\ jobs'[j].attempts = jobs[j].attempts
  /\ jobs'[j].done = jobs[j].done /\ jobs'[j].fence = jobs[j].fence
  /\ jobs[j].status \in Terminal \cup {"absent"} => jobs'[j] = jobs[j]

Timing ==
  /\ jobs' \in [Jobs -> JobRow]
  /\ \A j \in Jobs : Kept(j)
  /\ UNCHANGED <<saw, workerVars, effectVars>>

Inserts(h, j) ==
  /\ jobs' \in [Jobs -> JobRow]
  /\ j \in saw[h] /\ saw' = [saw EXCEPT ![h] = @ \ {j}]
  /\ \A k \in Jobs \ {j} : Kept(k)
  /\ \/ Kept(j) /\ Store = "postgres"
     \/ /\ jobs[j] = Absent
        /\ jobs'[j].status = "queued" /\ jobs'[j].attempts = 0
        /\ jobs'[j].done = {} /\ jobs'[j].fence = 0
  /\ UNCHANGED <<workerVars, effectVars>>

Saves(w, j, status, claim) ==
  /\ HasClaim(w, j) /\ GuardHolds(w, j)
  /\ status \notin {"absent"}
  /\ claim \in Claim /\ claim.fence = snap[w][j].fence
  /\ snap[w][j].attempts <= claim.attempts /\ claim.done = snap[w][j].done
  /\ jobs' \in [Jobs -> JobRow]
  /\ \A k \in Jobs : k # j => jobs'[k] = jobs[k]
  /\ jobs'[j].status = status /\ jobs'[j].attempts = claim.attempts
  /\ jobs'[j].done = claim.done /\ jobs'[j].fence = jobs[j].fence
  /\ status \in Terminal =>
       jobs'[j].due = "due" /\ ~jobs'[j].live /\ jobs'[j].owner = NoOwner
  /\ status = "completed" => pc[w] = "finish" /\ cur[w] = j
  /\ ClaimStep(w, j, IF status = "running" THEN claim ELSE NoClaim)
  /\ UNCHANGED <<saw, effectVars>>

Quiet ==
  /\ UNCHANGED <<jobs, saw>>
  /\ snap' \in [Workers -> [Jobs -> Claim]]
  /\ \A v \in Workers, k \in Jobs :
       \/ snap'[v][k] = NoClaim
       \/ /\ snap'[v][k].fence = snap[v][k].fence
          /\ snap'[v][k].attempts = snap[v][k].attempts
          /\ snap[v][k].done \subseteq snap'[v][k].done
          /\ snap'[v][k].done \subseteq snap[v][k].done \cup retained'
  /\ retained \subseteq retained' /\ consolidated \subseteq consolidated'

StepKind ==
  \/ \E h \in Hosts, j \in Jobs : EnqueueLookup(h, j) \/ Inserts(h, j)
  \/ \E w \in Workers : ClaimDue(w)
  \/ \E w \in Workers, j \in Jobs, status \in Statuses, claim \in Claim :
       Saves(w, j, status, claim)
  \/ Quiet
  \/ Timing

LEMMA RetimedKept ==
  ASSUME IInv, NEW j \in Jobs, Retimed(jobs[j], jobs'[j])
  PROVE  Kept(j)
<1>1. jobs[j].status \in Terminal \cup {"absent"} => jobs[j].due # "idle"
  BY DEF IInv, RestingRows, Absent
<1> QED
  BY <1>1 DEF Kept, Retimed

LEMMA InsertKind ==
  ASSUME IInv, NEW h \in Hosts, NEW j \in Jobs, EnqueueInsert(h, j)
  PROVE  Inserts(h, j)
<1>1. jobs \in [Jobs -> JobRow]
  BY DEF IInv, TypeOK
<1>2. /\ JobEnqueue(j) \in [Jobs -> JobRow]
      /\ \A k \in Jobs : k # j => JobEnqueue(j)[k] = jobs[k]
      /\ \/ JobEnqueue(j)[j] = jobs[j]
         \/ /\ JobEnqueue(j)[j] = Queued
            /\ jobs[j].status = "absent" \/ Store = "memory"
  BY <1>1, EnqueueFacts
<1>3. jobs' = JobEnqueue(j)
  BY DEF EnqueueInsert
<1>4. jobs' \in [Jobs -> JobRow]
  BY <1>2, <1>3
<1>5. \A k \in Jobs \ {j} : Kept(k)
  BY <1>2, <1>3 DEF Kept
<1>6. j \in saw[h] /\ saw' = [saw EXCEPT ![h] = @ \ {j}] /\ UNCHANGED <<workerVars, effectVars>>
  BY DEF EnqueueInsert
<1>7. Store = "memory" => jobs[j].status = "absent"
  BY <1>6 DEF IInv, RestingRows
<1>8. jobs[j].status = "absent" => jobs[j] = Absent
  BY DEF IInv, RestingRows
<1>9. Store \in {"postgres", "memory"}
  BY JobsAssumption
<1>10. CASE jobs[j].status # "absent"
  <2>1. JobEnqueue(j)[j] = jobs[j] /\ Store = "postgres"
    BY <1>10, <1>2, <1>7, <1>9
  <2>2. Kept(j)
    BY <2>1, <1>3 DEF Kept
  <2> QED
    BY <2>1, <2>2, <1>4, <1>5, <1>6 DEF Inserts
<1>11. CASE jobs[j].status = "absent"
  <2>1. JobEnqueue(j)[j] = Queued
    BY <1>11, <1>1 DEF JobEnqueue
  <2>2. /\ jobs'[j].status = "queued" /\ jobs'[j].attempts = 0
        /\ jobs'[j].done = {} /\ jobs'[j].fence = 0
    BY <2>1, <1>3 DEF Queued, Absent
  <2> QED
    BY <2>2, <1>4, <1>5, <1>6, <1>8, <1>11 DEF Inserts
<1> QED
  BY <1>10, <1>11

LEMMA TimingKind ==
  ASSUME IInv,
         \/ Activity \/ IdleElapses
         \/ \E h \in Hosts, j \in Jobs : EnqueueStamp(h, j)
         \/ \E j \in Jobs : DueArrives(j) \/ Expire(j)
  PROVE  Timing
<1>1. jobs \in [Jobs -> JobRow]
  BY DEF IInv, TypeOK
<1>2. CASE Activity \/ IdleElapses \/ \E h \in Hosts, j \in Jobs : EnqueueStamp(h, j)
  <2>1. \A k \in Jobs : Retimed(jobs[k], jobs'[k])
    BY <1>1, <1>2, TouchFacts, OnceIdleFacts DEF Activity, IdleElapses, EnqueueStamp
  <2>2. jobs' = [k \in Jobs |-> jobs'[k]]
    BY <1>2 DEF Activity, IdleElapses, EnqueueStamp, Touch
  <2>3. jobs' \in [Jobs -> JobRow]
    BY <2>1, <2>2 DEF Retimed
  <2>4. UNCHANGED <<saw, workerVars, effectVars>>
    BY <1>2 DEF Activity, IdleElapses, EnqueueStamp
  <2> QED
    BY <2>1, <2>3, <2>4, RetimedKept DEF Timing
<1>3. ASSUME NEW j \in Jobs, DueArrives(j) PROVE Timing
  <2>1. jobs' = [jobs EXCEPT ![j] = [jobs[j] EXCEPT !.due = "due"]]
    BY <1>3 DEF DueArrives
  <2>2. jobs[j].status \notin Terminal \cup {"absent"}
    BY <1>3 DEF DueArrives, IInv, RestingRows
  <2>3. jobs' \in [Jobs -> JobRow] /\ \A k \in Jobs : Kept(k)
    BY <1>1, <2>1, <2>2, DueRowFacts, StatusFacts DEF Kept
  <2>4. UNCHANGED <<saw, workerVars, effectVars>>
    BY <1>3 DEF DueArrives
  <2> QED
    BY <2>3, <2>4 DEF Timing
<1>4. ASSUME NEW j \in Jobs, Expire(j) PROVE Timing
  <2>1. jobs' = [jobs EXCEPT ![j] = [jobs[j] EXCEPT !.live = FALSE]]
    BY <1>4 DEF Expire
  <2>2. jobs[j].status \notin Terminal \cup {"absent"}
    BY <1>4 DEF Expire, IInv, RestingRows, Absent
  <2>3. jobs' \in [Jobs -> JobRow] /\ \A k \in Jobs : Kept(k)
    BY <1>1, <2>1, <2>2, ExpiredRowFacts DEF Kept
  <2>4. UNCHANGED <<saw, workerVars, effectVars>>
    BY <1>4 DEF Expire
  <2> QED
    BY <2>3, <2>4 DEF Timing
<1> QED
  BY <1>2, <1>3, <1>4

LEMMA ClaimTypes ==
  ASSUME IInv, NEW w \in Workers
  PROVE  /\ jobs \in [Jobs -> JobRow] /\ snap \in [Workers -> [Jobs -> Claim]]
         /\ \A j \in Jobs : snap[w][j] \in Claim
         /\ cur[w] \in Jobs
         /\ pc[w] \notin {"ready", "pick"} => HasClaim(w, cur[w])
  BY DEF IInv, TypeOK, BusyHasClaim

LEMMA GuardedSave ==
  ASSUME jobs \in [Jobs -> JobRow],
         NEW w \in Workers, NEW j \in Jobs, NEW status \in Statuses \ {"absent"},
         NEW claim \in Claim, NEW due \in Dues,
         HasClaim(w, j), GuardHolds(w, j),
         claim.fence = snap[w][j].fence, claim.done = snap[w][j].done,
         snap[w][j].attempts <= claim.attempts,
         Save(w, j, status, claim, due),
         status \in Terminal => due = "due",
         status = "completed" => pc[w] = "finish" /\ cur[w] = j,
         ClaimStep(w, j, IF status = "running" THEN claim ELSE NoClaim),
         UNCHANGED <<saw, effectVars>>
  PROVE  Saves(w, j, status, claim)
<1>1. /\ jobs' \in [Jobs -> JobRow]
      /\ \A k \in Jobs : k # j => jobs'[k] = jobs[k]
      /\ jobs'[j].status = status /\ jobs'[j].attempts = claim.attempts
      /\ jobs'[j].done = claim.done /\ jobs'[j].due = due
      /\ jobs'[j].fence = jobs[j].fence
      /\ status # "running" => jobs'[j].owner = NoOwner /\ ~jobs'[j].live
  BY SaveFacts
<1>2. status \in Terminal => status # "running"
  BY DEF Terminal
<1> QED
  BY <1>1, <1>2 DEF Saves

\* The guarded saves, and the five places that issue one.
LEMMA SavesKind ==
  ASSUME IInv, NEW w \in Workers,
         \/ \E j \in Jobs : Postpone(w, j) \/ Begin(w, j)
         \/ SaveProgress(w) /\ GuardHolds(w, cur[w])
         \/ Complete(w) /\ GuardHolds(w, cur[w])
         \/ FailJob(w) /\ GuardHolds(w, cur[w])
  PROVE  \E j \in Jobs, status \in Statuses, claim \in Claim : Saves(w, j, status, claim)
<1>0. TypeOK
  BY DEF IInv
<1>a. /\ jobs \in [Jobs -> JobRow] /\ snap \in [Workers -> [Jobs -> Claim]]
      /\ \A j \in Jobs : snap[w][j] \in Claim
      /\ cur[w] \in Jobs
      /\ pc[w] \notin {"ready", "pick"} => HasClaim(w, cur[w])
  BY ClaimTypes
<1>b. \A j \in Jobs : snap[w][j].attempts <= snap[w][j].attempts
  <2>1. \A j \in Jobs : snap[w][j].attempts \in Nat
    BY <1>a DEF Claim
  <2> QED
    BY <2>1
<1>1. ASSUME NEW j \in Jobs, Postpone(w, j)
      PROVE  Saves(w, j, "queued", snap[w][j])
  <2>1. /\ HasClaim(w, j) /\ GuardHolds(w, j) /\ Save(w, j, "queued", snap[w][j], "idle")
        /\ DropClaim(w, j) /\ UNCHANGED <<saw, effectVars>>
    BY <1>1 DEF Postpone
  <2>2. ClaimStep(w, j, NoClaim)
    BY <2>1, <1>0, DropClaimFacts
  <2> QED
    BY <2>1, <2>2, <1>a, <1>b, GuardedSave, StatusFacts DEF Terminal
<1>2. ASSUME NEW j \in Jobs, Begin(w, j)
      PROVE  \E claim \in Claim : Saves(w, j, "running", claim)
  <2>1. HasClaim(w, j) /\ GuardHolds(w, j) /\ UNCHANGED <<saw, effectVars>>
    BY <1>2 DEF Begin
  <2>2. PICK claim \in Claim :
          /\ claim.fence = snap[w][j].fence /\ claim.done = snap[w][j].done
          /\ claim.attempts = snap[w][j].attempts + 1
          /\ Save(w, j, "running", claim, "due")
          /\ ClaimStep(w, j, claim)
    BY <1>0, <1>2, BeginFacts
  <2>3. snap[w][j].attempts <= claim.attempts
    BY <2>2, <1>a DEF Claim
  <2>4. Saves(w, j, "running", claim)
    BY <2>1, <2>2, <2>3, <1>a, GuardedSave, StatusFacts DEF Terminal
  <2> QED
    BY <2>4
<1>3. ASSUME SaveProgress(w), GuardHolds(w, cur[w])
      PROVE  Saves(w, cur[w], "running", snap[w][cur[w]])
  <2>1. /\ HasClaim(w, cur[w]) /\ UNCHANGED <<saw, effectVars>> /\ snap' = snap
        /\ Save(w, cur[w], "running", snap[w][cur[w]], "due")
    BY <1>3, <1>a DEF SaveProgress
  <2>2. ClaimStep(w, cur[w], snap[w][cur[w]])
    BY <2>1, <1>a DEF ClaimStep
  <2> QED
    BY <2>1, <2>2, <1>3, <1>a, <1>b, GuardedSave, StatusFacts DEF Terminal
<1>4. ASSUME Complete(w), GuardHolds(w, cur[w])
      PROVE  Saves(w, cur[w], "completed", snap[w][cur[w]])
  <2>1. /\ HasClaim(w, cur[w]) /\ UNCHANGED <<saw, effectVars>>
        /\ Save(w, cur[w], "completed", snap[w][cur[w]], "due")
        /\ DropClaim(w, cur[w]) /\ pc[w] = "finish"
    BY <1>4, <1>a DEF Complete
  <2>2. ClaimStep(w, cur[w], NoClaim)
    BY <2>1, <1>0, <1>a, DropClaimFacts
  <2> QED
    BY <2>1, <2>2, <1>4, <1>a, <1>b, GuardedSave, StatusFacts DEF Terminal
<1>5. ASSUME FailJob(w), GuardHolds(w, cur[w])
      PROVE  \E status \in Statuses : Saves(w, cur[w], status, snap[w][cur[w]])
  <2>1. /\ HasClaim(w, cur[w]) /\ UNCHANGED <<saw, effectVars>>
        /\ DropClaim(w, cur[w])
    BY <1>5, <1>a DEF FailJob
  <2>4. ClaimStep(w, cur[w], NoClaim)
    BY <2>1, <1>0, <1>a, DropClaimFacts
  <2>2. CASE Save(w, cur[w], "terminal_failed", snap[w][cur[w]], "due")
    <3>1. Saves(w, cur[w], "terminal_failed", snap[w][cur[w]])
      BY <2>1, <2>2, <2>4, <1>5, <1>a, <1>b, GuardedSave, StatusFacts
         DEF Terminal
    <3> QED
      BY <3>1, StatusFacts
  <2>3. CASE Save(w, cur[w], "retry_pending", snap[w][cur[w]], "timer")
    <3>1. Saves(w, cur[w], "retry_pending", snap[w][cur[w]])
      BY <2>1, <2>3, <2>4, <1>5, <1>a, <1>b, GuardedSave, StatusFacts
         DEF Terminal
    <3> QED
      BY <3>1, StatusFacts
  <2> QED
    BY <2>2, <2>3, <1>5 DEF FailJob
<1> QED
  BY <1>1, <1>2, <1>3, <1>4, <1>5, <1>a, StatusFacts

\* The steps that leave the table alone.
LEMMA QuietKind ==
  ASSUME IInv, NEW w \in Workers,
         \/ \E j \in Jobs : AbortBatch(w, j)
         \/ FinishBatch(w) \/ FenceJob(w) \/ EraseItem(w) \/ RetentionDone(w)
         \/ Consolidate(w) \/ Crash(w)
         \/ SaveProgress(w) /\ ~GuardHolds(w, cur[w])
         \/ Complete(w) /\ ~GuardHolds(w, cur[w])
         \/ FailJob(w) /\ ~GuardHolds(w, cur[w])
  PROVE  Quiet
<1>0. TypeOK
  BY DEF IInv
<1>a. snap \in [Workers -> [Jobs -> Claim]] /\ cur[w] \in Jobs
  BY ClaimTypes
<1>1. CASE EndRun(w) /\ UNCHANGED <<jobs, saw, effectVars>>
  <2>1. /\ snap' \in [Workers -> [Jobs -> Claim]]
        /\ \A k \in Jobs : snap'[w][k] = NoClaim
        /\ \A v \in Workers : v # w => snap'[v] = snap[v]
    BY <1>0, <1>1, EndRunFacts
  <2> QED
    BY <1>1, <2>1 DEF Quiet, effectVars
<1>2. CASE UNCHANGED <<jobs, saw, snap>> /\ retained \subseteq retained'
           /\ consolidated \subseteq consolidated'
  BY <1>2, <1>a DEF Quiet
<1>3. CASE DropClaim(w, cur[w]) /\ UNCHANGED <<jobs, saw, effectVars>>
  <2>1. ClaimStep(w, cur[w], NoClaim)
    BY <1>0, <1>3, <1>a, DropClaimFacts
  <2> QED
    BY <1>3, <2>1 DEF Quiet, ClaimStep, effectVars
<1>4. CASE EraseItem(w)
  <2>1. CASE snap' = snap
    BY <1>2, <1>4, <2>1 DEF EraseItem
  <2>2. CASE snap' # snap
    <3>1. PICK m \in Memories, c \in Claim :
           /\ retained' = retained \cup {m}
           /\ ClaimStep(w, cur[w], c)
           /\ c.fence = snap[w][cur[w]].fence /\ c.attempts = snap[w][cur[w]].attempts
           /\ c.done = snap[w][cur[w]].done \cup {m}
      BY <1>0, <1>4, <2>2, EraseFacts
    <3>2. UNCHANGED <<jobs, saw, consolidated>>
      BY <1>4 DEF EraseItem
    <3> QED
      BY <3>1, <3>2 DEF Quiet, ClaimStep
  <2> QED
    BY <2>1, <2>2
<1>5. CASE (\E j \in Jobs : AbortBatch(w, j)) \/ FinishBatch(w) \/ Crash(w)
  BY <1>1, <1>5 DEF AbortBatch, FinishBatch, Crash
<1>6. CASE FenceJob(w) \/ RetentionDone(w) \/ Consolidate(w)
  BY <1>2, <1>6 DEF FenceJob, RetentionDone, Consolidate, effectVars
<1>7. CASE /\ ~GuardHolds(w, cur[w])
           /\ SaveProgress(w) \/ Complete(w)
  BY <1>2, <1>7 DEF SaveProgress, Complete, effectVars
<1>8. CASE FailJob(w) /\ ~GuardHolds(w, cur[w])
  BY <1>3, <1>8 DEF FailJob
<1> QED
  BY <1>4, <1>5, <1>6, <1>7, <1>8

\* Together: every step of the specification has one of the kinds.
LEMMA EveryStepHasKind ==
  ASSUME IInv, [Next]_vars
  PROVE  StepKind
<1>1. ASSUME NEW h \in Hosts, NEW j \in Jobs,
             EnqueueLookup(h, j) \/ EnqueueStamp(h, j) \/ EnqueueInsert(h, j)
      PROVE  StepKind
  BY <1>1, InsertKind, TimingKind DEF StepKind
<1>2. ASSUME NEW w \in Workers, ClaimDue(w) PROVE StepKind
  BY <1>2 DEF StepKind
<1>3. ASSUME NEW w \in Workers, WorkerStep(w) \/ Crash(w) PROVE StepKind
  <2>1. CASE \/ \E j \in Jobs : Postpone(w, j) \/ Begin(w, j)
             \/ SaveProgress(w) /\ GuardHolds(w, cur[w])
             \/ Complete(w) /\ GuardHolds(w, cur[w])
             \/ FailJob(w) /\ GuardHolds(w, cur[w])
    BY <2>1, SavesKind DEF StepKind
  <2>2. CASE \/ \E j \in Jobs : AbortBatch(w, j)
             \/ FinishBatch(w) \/ FenceJob(w) \/ EraseItem(w) \/ RetentionDone(w)
             \/ Consolidate(w) \/ Crash(w)
             \/ SaveProgress(w) /\ ~GuardHolds(w, cur[w])
             \/ Complete(w) /\ ~GuardHolds(w, cur[w])
             \/ FailJob(w) /\ ~GuardHolds(w, cur[w])
    BY <2>2, QuietKind DEF StepKind
  <2> QED
    BY <1>3, <2>1, <2>2 DEF WorkerStep
<1>4. ASSUME Activity \/ IdleElapses \/ \E j \in Jobs : DueArrives(j) \/ Expire(j)
      PROVE  StepKind
  BY <1>4, TimingKind DEF StepKind
<1>5. ASSUME NEW m \in Memories, ForgetMemory(m) PROVE StepKind
  <2>1. Quiet
    BY <1>5 DEF ForgetMemory, Quiet, workerVars, IInv, TypeOK
  <2> QED
    BY <2>1 DEF StepKind
<1>6. CASE UNCHANGED vars
  <2>1. Quiet
    BY <1>6 DEF vars, workerVars, effectVars, Quiet, IInv, TypeOK
  <2> QED
    BY <2>1 DEF StepKind
<1> QED
  BY <1>1, <1>2, <1>3, <1>4, <1>5, <1>6 DEF Next

-----------------------------------------------------------------------------
(* Each part of the inductive invariant is preserved by every kind.        *)

LEMMA TableTypes ==
  ASSUME IInv, StepKind
  PROVE  jobs' \in [Jobs -> JobRow] /\ snap' \in [Workers -> [Jobs -> Claim]]
<1>0. TypeOK /\ jobs \in [Jobs -> JobRow] /\ snap \in [Workers -> [Jobs -> Claim]]
  BY DEF IInv, TypeOK
<1>1. ASSUME NEW h \in Hosts, NEW j \in Jobs, EnqueueLookup(h, j) \/ Inserts(h, j)
      PROVE  jobs' \in [Jobs -> JobRow] /\ snap' \in [Workers -> [Jobs -> Claim]]
  BY <1>0, <1>1 DEF EnqueueLookup, Inserts, workerVars
<1>2. ASSUME NEW w \in Workers, ClaimDue(w)
      PROVE  jobs' \in [Jobs -> JobRow] /\ snap' \in [Workers -> [Jobs -> Claim]]
  BY <1>0, <1>2, ClaimDueFacts
<1>3. ASSUME NEW w \in Workers, NEW j \in Jobs, NEW status \in Statuses,
             NEW claim \in Claim, Saves(w, j, status, claim)
      PROVE  jobs' \in [Jobs -> JobRow] /\ snap' \in [Workers -> [Jobs -> Claim]]
  BY <1>3 DEF Saves, ClaimStep
<1>4. CASE Quiet
  BY <1>0, <1>4 DEF Quiet
<1>5. CASE Timing
  BY <1>0, <1>5 DEF Timing, workerVars
<1> QED
  BY <1>1, <1>2, <1>3, <1>4, <1>5 DEF StepKind

\* Every step of every actor preserves the types.
LEMMA TypeStep ==
  ASSUME IInv, [Next]_vars
  PROVE  TypeOK'
<1>a. jobs' \in [Jobs -> JobRow] /\ snap' \in [Workers -> [Jobs -> Claim]]
  BY EveryStepHasKind, TableTypes
<1>b. /\ saw \in [Hosts -> SUBSET Jobs] /\ stamped \in [Hosts -> SUBSET Jobs] /\ pc \in [Workers -> PcValues]
      /\ cur \in [Workers -> Jobs] /\ retained \in SUBSET Memories
      /\ consolidated \in SUBSET Jobs /\ idle \in BOOLEAN
      /\ activities \in Nat /\ faults \in Nat
  BY DEF IInv, TypeOK
<1> DEFINE Rest == /\ saw' \in [Hosts -> SUBSET Jobs] /\ stamped' \in [Hosts -> SUBSET Jobs]
                   /\ pc' \in [Workers -> PcValues]
                   /\ cur' \in [Workers -> Jobs] /\ retained' \in SUBSET Memories
                   /\ consolidated' \in SUBSET Jobs /\ idle' \in BOOLEAN
                   /\ activities' \in Nat /\ faults' \in Nat
<1> USE DEF PcValues, workerVars, effectVars, envVars, Goto
<1>1. ASSUME NEW h \in Hosts, NEW j \in Jobs,
             EnqueueLookup(h, j) \/ EnqueueStamp(h, j) \/ EnqueueInsert(h, j)
      PROVE  Rest
  BY <1>1, <1>b DEF EnqueueLookup, EnqueueStamp, EnqueueInsert
<1>2. ASSUME NEW w \in Workers, ClaimDue(w) PROVE Rest
  BY <1>2, <1>b DEF ClaimDue
<1>3. ASSUME NEW w \in Workers, NEW j \in Jobs, Postpone(w, j) \/ Begin(w, j) \/ AbortBatch(w, j)
      PROVE  Rest
  BY <1>3, <1>b DEF Postpone, Begin, AbortBatch, EndRun
<1>4. ASSUME NEW w \in Workers, FinishBatch(w) \/ Crash(w) PROVE Rest
  BY <1>4, <1>b DEF FinishBatch, Crash, EndRun
<1>5. ASSUME NEW w \in Workers, FenceJob(w) \/ SaveProgress(w) \/ RetentionDone(w)
                                \/ Consolidate(w) \/ Complete(w) \/ FailJob(w)
      PROVE  Rest
  BY <1>5, <1>b DEF FenceJob, SaveProgress, RetentionDone, Consolidate, Complete, FailJob
<1>6. ASSUME NEW w \in Workers, EraseItem(w) PROVE Rest
  <2>1. Pending(w) \in SUBSET Memories
    <3>1. Items[cur[w]] \in SUBSET Memories
      BY <1>b, JobsAssumption
    <3> QED
      BY <3>1 DEF Pending
  <2> QED
    BY <1>6, <1>b, <2>1 DEF EraseItem
<1>7. ASSUME NEW j \in Jobs, DueArrives(j) \/ Expire(j) PROVE Rest
  BY <1>7, <1>b DEF DueArrives, Expire
<1>8. ASSUME NEW m \in Memories, ForgetMemory(m) PROVE Rest
  BY <1>8, <1>b DEF ForgetMemory
<1>9. ASSUME Activity \/ IdleElapses PROVE Rest
  <2>1. /\ UNCHANGED <<saw, stamped, workerVars, effectVars, faults>>
        /\ activities' = activities \/ activities' = activities + 1
    BY <1>9 DEF Activity, IdleElapses
  <2>2. idle' = TRUE \/ idle' = FALSE
    BY <1>9 DEF Activity, IdleElapses
  <2>3. idle' \in BOOLEAN
    BY <2>2
  <2> QED
    BY <2>1, <2>3, <1>b
<1>10. ASSUME UNCHANGED vars PROVE Rest
  BY <1>10, <1>b DEF vars
<1>11. Rest
  <2> HIDE DEF Rest
  <2> QED
    BY <1>1, <1>2, <1>3, <1>4, <1>5, <1>6, <1>7, <1>8, <1>9, <1>10 DEF Next, WorkerStep
<1> QED
  BY <1>a, <1>11 DEF TypeOK

\* A worker whose guard holds works on a running row that its copy is at least
\* as advanced as, and no other worker has that fence.
LEMMA GuardFacts ==
  ASSUME IInv, NEW w \in Workers, NEW j \in Jobs, HasClaim(w, j), GuardHolds(w, j)
  PROVE  /\ jobs[j].status = "running"
         /\ jobs[j].attempts <= snap[w][j].attempts
         /\ jobs[j].done \subseteq snap[w][j].done
         /\ snap[w][j].fence = jobs[j].fence
         /\ \A v \in Workers : v # w => snap[v][j].fence # jobs[j].fence
<1>1. snap[w][j].fence = jobs[j].fence
  BY DEF GuardHolds
<1> QED
  BY <1>1 DEF IInv, ClaimsSound

LEMMA ClaimNumbers ==
  ASSUME IInv
  PROVE  /\ \A j \in Jobs : jobs[j].fence \in Nat /\ jobs[j].attempts \in Nat
         /\ \A w \in Workers, j \in Jobs : snap[w][j].fence \in Nat /\ snap[w][j].attempts \in Nat
  BY DEF IInv, TypeOK, JobRow, Claim

LEMMA ClaimsStep ==
  ASSUME IInv, StepKind
  PROVE  ClaimsSound'
<1>n. /\ \A j \in Jobs : jobs[j].fence \in Nat /\ jobs[j].attempts \in Nat
      /\ \A w \in Workers, j \in Jobs : snap[w][j].fence \in Nat /\ snap[w][j].attempts \in Nat
  BY ClaimNumbers
<1>c. ClaimsSound
  BY DEF IInv
<1> USE DEF HasClaim
<1>1. ASSUME NEW h \in Hosts, NEW j \in Jobs, EnqueueLookup(h, j)
      PROVE  ClaimsSound'
  BY <1>1, <1>c DEF EnqueueLookup, ClaimsSound, workerVars
<1>2. ASSUME NEW h \in Hosts, NEW j \in Jobs, Inserts(h, j)
      PROVE  ClaimsSound'
  <2>1. snap' = snap
    BY <1>2 DEF Inserts, workerVars
  <2>2. \A k \in Jobs : Kept(k) \/ (jobs[k].fence = 0 /\ jobs'[k].fence = 0)
    <3>1. Absent.fence = 0
      BY DEF Absent
    <3> QED
      BY <1>2, <3>1 DEF Inserts
  <2> QED
    BY <2>1, <2>2, <1>c, <1>n DEF ClaimsSound, Kept
<1>3. ASSUME NEW w \in Workers, ClaimDue(w) PROVE ClaimsSound'
  <2>0. TypeOK
    BY DEF IInv
  <2>1. /\ \A v \in Workers : v # w => snap'[v] = snap[v]
        /\ \A j \in Jobs :
              \/ jobs'[j] = jobs[j] /\ snap'[w][j].fence = 0
              \/ /\ jobs'[j].status = "running"
                 /\ jobs'[j].fence = jobs[j].fence + 1
                 /\ jobs'[j].attempts = jobs[j].attempts
                 /\ jobs'[j].done = jobs[j].done
                 /\ snap'[w][j].fence = jobs[j].fence + 1
                 /\ snap'[w][j].attempts = jobs[j].attempts
                 /\ snap'[w][j].done = jobs[j].done
    BY <2>0, <1>3, ClaimDueFacts, NoClaimFacts
  <2>2. \A v \in Workers, j \in Jobs : snap'[v][j].fence <= jobs'[j].fence
    BY <2>1, <1>n, <1>c DEF ClaimsSound
  <2>3. \A v, u \in Workers, j \in Jobs :
          u # v /\ snap'[u][j].fence # 0 => snap'[u][j].fence # snap'[v][j].fence
    BY <2>1, <1>n, <1>c DEF ClaimsSound
  <2>4. \A v \in Workers, j \in Jobs :
          snap'[v][j].fence # 0 /\ snap'[v][j].fence = jobs'[j].fence =>
            /\ jobs'[j].status = "running"
            /\ jobs'[j].attempts <= snap'[v][j].attempts
            /\ jobs'[j].done \subseteq snap'[v][j].done
    BY <2>1, <1>n, <1>c DEF ClaimsSound
  <2> QED
    BY <2>2, <2>3, <2>4 DEF ClaimsSound
<1>4. ASSUME NEW w \in Workers, NEW j \in Jobs, NEW status \in Statuses,
             NEW claim \in Claim, Saves(w, j, status, claim)
      PROVE  ClaimsSound'
  <2>1. /\ snap[w][j].fence = jobs[j].fence
        /\ \A v \in Workers : v # w => snap[v][j].fence # jobs[j].fence
    BY <1>4, GuardFacts DEF Saves
  <2>2. \/ snap'[w][j].fence = 0
        \/ /\ status = "running"
           /\ snap'[w][j] = claim /\ claim.fence = snap[w][j].fence
    BY <1>4, NoClaimFacts DEF Saves, ClaimStep
  <2>3. \A v \in Workers, k \in Jobs : v # w \/ k # j => snap'[v][k] = snap[v][k]
    BY <1>4 DEF Saves, ClaimStep
  <2>4. /\ \A k \in Jobs : k # j => jobs'[k] = jobs[k]
        /\ jobs'[j].status = status /\ jobs'[j].attempts = claim.attempts
        /\ jobs'[j].done = claim.done /\ jobs'[j].fence = jobs[j].fence
        /\ claim.attempts \in Nat
    BY <1>4 DEF Saves, Claim
  <2>5. \A v \in Workers, k \in Jobs : snap'[v][k].fence <= jobs'[k].fence
    BY <2>1, <2>2, <2>3, <2>4, <1>n, <1>c DEF ClaimsSound
  <2>6. \A v, u \in Workers, k \in Jobs :
          u # v /\ snap'[u][k].fence # 0 => snap'[u][k].fence # snap'[v][k].fence
    BY <2>1, <2>2, <2>3, <2>4, <1>n, <1>c DEF ClaimsSound
  <2>7. ASSUME NEW v \in Workers, NEW k \in Jobs,
               snap'[v][k].fence # 0, snap'[v][k].fence = jobs'[k].fence
        PROVE  /\ jobs'[k].status = "running"
               /\ jobs'[k].attempts <= snap'[v][k].attempts
               /\ jobs'[k].done \subseteq snap'[v][k].done
    <3>1. CASE k # j
      BY <3>1, <2>7, <2>3, <2>4, <1>c DEF ClaimsSound
    <3>2. CASE k = j /\ v # w
      BY <3>2, <2>7, <2>1, <2>3, <2>4
    <3>3. CASE k = j /\ v = w
      BY <3>3, <2>7, <2>2, <2>4
    <3> QED
      BY <3>1, <3>2, <3>3
  <2> QED
    BY <2>5, <2>6, <2>7 DEF ClaimsSound
<1>5. CASE Quiet
  <2>1. jobs' = jobs
    BY <1>5 DEF Quiet
  <2>2. \A v \in Workers, k \in Jobs :
          \/ snap'[v][k].fence = 0
          \/ /\ snap'[v][k].fence = snap[v][k].fence
             /\ snap'[v][k].attempts = snap[v][k].attempts
             /\ snap[v][k].done \subseteq snap'[v][k].done
    BY <1>5, NoClaimFacts DEF Quiet
  <2> QED
    BY <2>1, <2>2, <1>c, <1>n DEF ClaimsSound
<1>6. CASE Timing
  BY <1>6, <1>c DEF Timing, Kept, ClaimsSound, workerVars
<1> QED
  BY <1>1, <1>2, <1>3, <1>4, <1>5, <1>6 DEF StepKind

LEMMA BusyStep ==
  ASSUME IInv, [Next]_vars
  PROVE  BusyHasClaim'
<1>0. TypeOK
  BY DEF IInv
<1>a. /\ pc \in [Workers -> PcValues] /\ cur \in [Workers -> Jobs]
      /\ snap \in [Workers -> [Jobs -> Claim]]
  BY DEF IInv, TypeOK
<1>b. BusyHasClaim
  BY DEF IInv
\* A step of w that keeps or replaces one claim.
<1>c. ASSUME NEW w \in Workers, NEW j \in Jobs, NEW c, ClaimStep(w, j, c),
             NEW label \in PcValues, pc' = [pc EXCEPT ![w] = label],
             cur' \in [Workers -> Jobs], \A v \in Workers : v # w => cur'[v] = cur[v],
             label # "ready",
             label = "pick" \/ (cur'[w] = j /\ c.fence # 0)
      PROVE  BusyHasClaim'
  <2> SUFFICES ASSUME NEW v \in Workers
               PROVE  /\ pc'[v] \notin {"ready", "pick"} => snap'[v][cur'[v]].fence # 0
                      /\ pc'[v] = "ready" => \A k \in Jobs : snap'[v][k].fence = 0
    BY DEF BusyHasClaim, HasClaim
  <2>1. CASE v = w
    BY <1>a, <1>c, <2>1 DEF ClaimStep
  <2>2. CASE v # w
    <3>1. pc'[v] = pc[v] /\ cur'[v] = cur[v] /\ cur[v] \in Jobs
      BY <1>a, <1>c, <2>2
    <3>2. \A k \in Jobs : snap'[v][k] = snap[v][k]
      BY <1>c, <2>2 DEF ClaimStep
    <3> QED
      BY <3>1, <3>2, <1>b DEF BusyHasClaim, HasClaim
  <2> QED
    BY <2>1, <2>2
\* A step of w that ends its run.
<1>d. ASSUME NEW w \in Workers, EndRun(w) PROVE BusyHasClaim'
  <2>1. /\ \A k \in Jobs : snap'[w][k] = NoClaim
        /\ \A v \in Workers : v # w => snap'[v] = snap[v]
        /\ pc' = [pc EXCEPT ![w] = "ready"]
        /\ cur' = cur
    BY <1>0, <1>d, EndRunFacts
  <2> QED
    BY <2>1, <1>a, <1>b, NoClaimFacts DEF BusyHasClaim, HasClaim
\* A step of w that keeps all claims while it is busy.
<1>e. ASSUME NEW w \in Workers, pc[w] \notin {"ready", "pick"}, UNCHANGED <<cur, snap>>,
             NEW label \in PcValues \ {"ready"}, pc' = [pc EXCEPT ![w] = label]
      PROVE  BusyHasClaim'
  BY <1>e, <1>a, <1>b DEF BusyHasClaim, HasClaim
<1>f. ASSUME UNCHANGED workerVars PROVE BusyHasClaim'
  BY <1>f, <1>b DEF BusyHasClaim, HasClaim, workerVars
<1>l. {"pick", "work", "fenced", "progress", "finish", "failed"} \subseteq PcValues \ {"ready"}
  BY DEF PcValues
<1>1. ASSUME NEW h \in Hosts, NEW j \in Jobs,
             EnqueueLookup(h, j) \/ EnqueueStamp(h, j) \/ EnqueueInsert(h, j)
      PROVE  BusyHasClaim'
  BY <1>1, <1>f DEF EnqueueLookup, EnqueueStamp, EnqueueInsert
<1>2. ASSUME NEW w \in Workers, ClaimDue(w) PROVE BusyHasClaim'
  <2>1. \A v \in Workers : v # w => snap'[v] = snap[v]
    BY <1>0, <1>2, ClaimDueFacts
  <2>2. pc' = [pc EXCEPT ![w] = "pick"] /\ cur' = cur
    BY <1>2 DEF ClaimDue
  <2> QED
    BY <2>1, <2>2, <1>a, <1>b DEF BusyHasClaim, HasClaim
<1>3. ASSUME NEW w \in Workers, NEW j \in Jobs, Postpone(w, j) PROVE BusyHasClaim'
  <2>1. ClaimStep(w, j, NoClaim)
    BY <1>0, <1>3, DropClaimFacts DEF Postpone
  <2>2. pc' = [pc EXCEPT ![w] = "pick"] /\ cur' = cur
    BY <1>3, <1>a DEF Postpone
  <2> QED
    BY <2>1, <2>2, <1>a, <1>c, <1>l
<1>4. ASSUME NEW w \in Workers, NEW j \in Jobs, Begin(w, j) PROVE BusyHasClaim'
  <2>1. PICK claim \in Claim : claim.fence = snap[w][j].fence /\ ClaimStep(w, j, claim)
    BY <1>0, <1>4, BeginFacts
  <2>2. /\ pc' = [pc EXCEPT ![w] = "work"] /\ cur' = [cur EXCEPT ![w] = j]
        /\ snap[w][j].fence # 0
    BY <1>4 DEF Begin, Goto, HasClaim
  <2>3. cur' \in [Workers -> Jobs] /\ cur'[w] = j /\ \A v \in Workers : v # w => cur'[v] = cur[v]
    BY <2>2, <1>a
  <2> QED
    BY <2>1, <2>2, <2>3, <1>c, <1>l
<1>5. ASSUME NEW w \in Workers,
             (\E j \in Jobs : AbortBatch(w, j)) \/ FinishBatch(w) \/ Crash(w)
      PROVE  BusyHasClaim'
  BY <1>5, <1>d DEF AbortBatch, FinishBatch, Crash
<1>6. ASSUME NEW w \in Workers,
             FenceJob(w) \/ SaveProgress(w) \/ RetentionDone(w) \/ Consolidate(w)
      PROVE  BusyHasClaim'
  <2>1. UNCHANGED <<cur, snap>> /\ pc[w] \notin {"ready", "pick"}
    BY <1>6 DEF FenceJob, SaveProgress, RetentionDone, Consolidate
  <2>2. \E label \in {"work", "fenced", "finish", "failed"} : pc' = [pc EXCEPT ![w] = label]
    BY <1>6 DEF FenceJob, SaveProgress, RetentionDone, Consolidate, Goto
  <2> QED
    BY <2>1, <2>2, <1>e, <1>l
<1>7. ASSUME NEW w \in Workers, EraseItem(w) PROVE BusyHasClaim'
  <2>1. cur' = cur /\ pc[w] = "fenced"
    BY <1>7 DEF EraseItem
  <2>2. CASE snap' = snap
    <3>1. \E label \in {"progress", "failed"} : pc' = [pc EXCEPT ![w] = label]
      BY <1>7 DEF EraseItem, Goto
    <3> QED
      BY <2>1, <2>2, <3>1, <1>e, <1>l
  <2>3. CASE snap' # snap
    <3>1. PICK c \in Claim : /\ ClaimStep(w, cur[w], c)
                             /\ c.fence = snap[w][cur[w]].fence
      BY <1>0, <1>7, <2>3, EraseFacts
    <3>2. c.fence # 0
      BY <3>1, <2>1, <1>b DEF BusyHasClaim, HasClaim
    <3>3. pc' = [pc EXCEPT ![w] = "progress"]
      BY <1>7, <2>3 DEF EraseItem, Goto
    <3>4. cur[w] \in Jobs
      BY <1>a
    <3> QED
      BY <2>1, <3>1, <3>2, <3>3, <3>4, <1>a, <1>c, <1>l
  <2> QED
    BY <2>2, <2>3
<1>8. ASSUME NEW w \in Workers, Complete(w) \/ FailJob(w) PROVE BusyHasClaim'
  <2>1. cur' = cur /\ pc[w] \notin {"ready", "pick"} /\ cur[w] \in Jobs
    BY <1>8, <1>a DEF Complete, FailJob
  <2>2. CASE DropClaim(w, cur[w]) /\ Goto(w, "pick")
    <3>1. ClaimStep(w, cur[w], NoClaim) /\ pc' = [pc EXCEPT ![w] = "pick"]
      BY <2>1, <2>2, <1>0, DropClaimFacts DEF Goto
    <3> QED
      BY <3>1, <2>1, <1>a, <1>c, <1>l
  <2>3. CASE snap' = snap /\ Goto(w, "failed")
    BY <2>1, <2>3, <1>e, <1>l DEF Goto
  <2> QED
    BY <2>2, <2>3, <1>8 DEF Complete, FailJob
<1>9. ASSUME \/ \E j \in Jobs : DueArrives(j) \/ Expire(j)
             \/ \E m \in Memories : ForgetMemory(m)
             \/ Activity \/ IdleElapses \/ UNCHANGED vars
      PROVE  BusyHasClaim'
  <2>1. UNCHANGED workerVars
    BY <1>9 DEF DueArrives, Expire, ForgetMemory, Activity, IdleElapses, vars
  <2> QED
    BY <2>1, <1>f
<1> QED
  BY <1>1, <1>2, <1>3, <1>4, <1>5, <1>6, <1>7, <1>8, <1>9 DEF Next, WorkerStep

\* Recorded progress happened: the first two conjuncts of ProgressHappened.
LEMMA DoneStep ==
  ASSUME IInv, StepKind
  PROVE  /\ \A k \in Jobs : jobs'[k].done \subseteq retained'
         /\ \A v \in Workers, k \in Jobs : snap'[v][k].done \subseteq retained'
         /\ retained \subseteq retained' /\ consolidated \subseteq consolidated'
<1> DEFINE Goal == /\ \A k \in Jobs : jobs'[k].done \subseteq retained'
                   /\ \A v \in Workers, k \in Jobs : snap'[v][k].done \subseteq retained'
                   /\ retained \subseteq retained' /\ consolidated \subseteq consolidated'
<1>0. TypeOK
  BY DEF IInv
<1>p. /\ \A j \in Jobs : jobs[j].done \subseteq retained
      /\ \A w \in Workers, j \in Jobs : snap[w][j].done \subseteq retained
  BY DEF IInv, ProgressHappened
<1> USE DEF workerVars, effectVars
<1>1. ASSUME NEW h \in Hosts, NEW j \in Jobs, EnqueueLookup(h, j) PROVE Goal
  BY <1>1, <1>p DEF EnqueueLookup
<1>2. ASSUME NEW h \in Hosts, NEW j \in Jobs, Inserts(h, j) PROVE Goal
  BY <1>2, <1>p DEF Inserts, Kept
<1>3. ASSUME NEW w \in Workers, ClaimDue(w) PROVE Goal
  <2>1. /\ \A v \in Workers : v # w => snap'[v] = snap[v]
        /\ \A j \in Jobs : jobs'[j].done = jobs[j].done
        /\ \A j \in Jobs : snap'[w][j].done = {} \/ snap'[w][j].done = jobs[j].done
    BY <1>0, <1>3, ClaimDueFacts, NoClaimFacts
  <2>2. UNCHANGED effectVars
    BY <1>3 DEF ClaimDue
  <2> QED
    BY <2>1, <2>2, <1>p
<1>4. ASSUME NEW w \in Workers, NEW j \in Jobs, NEW status \in Statuses,
             NEW claim \in Claim, Saves(w, j, status, claim)
      PROVE  Goal
  <2>1. /\ UNCHANGED effectVars
        /\ \A k \in Jobs : k # j => jobs'[k] = jobs[k]
        /\ jobs'[j].done = snap[w][j].done
        /\ snap'[w][j].done = {} \/ snap'[w][j].done = snap[w][j].done
        /\ \A v \in Workers, k \in Jobs : v # w \/ k # j => snap'[v][k] = snap[v][k]
    BY <1>4, NoClaimFacts DEF Saves, ClaimStep
  <2> QED
    BY <2>1, <1>p
<1>5. ASSUME Quiet PROVE Goal
  <2>1. /\ jobs' = jobs /\ retained \subseteq retained' /\ consolidated \subseteq consolidated'
        /\ \A v \in Workers, k \in Jobs :
             \/ snap'[v][k].done = {}
             \/ snap'[v][k].done \subseteq snap[v][k].done \cup retained'
    BY <1>5, NoClaimFacts DEF Quiet
  <2> QED
    BY <2>1, <1>p
<1>6. ASSUME Timing PROVE Goal
  BY <1>6, <1>p DEF Timing, Kept
<1> QED
  BY <1>1, <1>2, <1>3, <1>4, <1>5, <1>6 DEF StepKind

\* A worker about to complete a job has done all of it: the last conjunct.
LEMMA FinishStep ==
  ASSUME IInv, [Next]_vars, consolidated \subseteq consolidated'
  PROVE  \A w \in Workers : pc'[w] = "finish" =>
           IF Kind[cur'[w]] = "retention" THEN Items[cur'[w]] \subseteq snap'[w][cur'[w]].done
                                          ELSE cur'[w] \in consolidated'
<1> DEFINE Ready(w) == IF Kind[cur[w]] = "retention" THEN Items[cur[w]] \subseteq snap[w][cur[w]].done
                                                     ELSE cur[w] \in consolidated
           Goal(w) == pc'[w] = "finish" =>
             IF Kind[cur'[w]] = "retention" THEN Items[cur'[w]] \subseteq snap'[w][cur'[w]].done
                                            ELSE cur'[w] \in consolidated'
<1>0. TypeOK
  BY DEF IInv
<1>a. /\ pc \in [Workers -> PcValues] /\ cur \in [Workers -> Jobs]
      /\ snap \in [Workers -> [Jobs -> Claim]]
  BY DEF IInv, TypeOK
<1>b. \A w \in Workers : pc[w] = "finish" => Ready(w)
  BY DEF IInv, ProgressHappened
\* Steps of others.
<1>c. ASSUME NEW v \in Workers, pc'[v] = pc[v], cur'[v] = cur[v], snap'[v][cur[v]] = snap[v][cur[v]]
      PROVE  Goal(v)
  BY <1>b, <1>c
<1>d. ASSUME NEW v \in Workers, pc'[v] # "finish" PROVE Goal(v)
  BY <1>d
<1>e. ASSUME UNCHANGED workerVars PROVE \A v \in Workers : Goal(v)
  <2> HIDE DEF Goal
  <2> QED
    BY <1>c, <1>e DEF workerVars
<1>f. ASSUME NEW w \in Workers,
             \A v \in Workers : v # w => /\ pc'[v] = pc[v] /\ cur'[v] = cur[v]
                                         /\ snap'[v][cur[v]] = snap[v][cur[v]],
             Goal(w)
      PROVE  \A v \in Workers : Goal(v)
  <2> HIDE DEF Goal
  <2> QED
    BY <1>c, <1>f
<1>g. ASSUME NEW w \in Workers, NEW j \in Jobs, NEW c, ClaimStep(w, j, c)
      PROVE  \A v \in Workers : v # w => snap'[v][cur[v]] = snap[v][cur[v]]
  BY <1>g, <1>a DEF ClaimStep
<1> HIDE DEF Goal, Ready
<1>1. ASSUME NEW h \in Hosts, NEW j \in Jobs,
             EnqueueLookup(h, j) \/ EnqueueStamp(h, j) \/ EnqueueInsert(h, j)
      PROVE  \A v \in Workers : Goal(v)
  BY <1>1, <1>e DEF EnqueueLookup, EnqueueStamp, EnqueueInsert
<1>2. ASSUME NEW w \in Workers, ClaimDue(w) PROVE \A v \in Workers : Goal(v)
  <2>1. \A v \in Workers : v # w => snap'[v] = snap[v]
    BY <1>0, <1>2, ClaimDueFacts
  <2>2. pc' = [pc EXCEPT ![w] = "pick"] /\ cur' = cur
    BY <1>2 DEF ClaimDue
  <2>3. pc'[w] # "finish" /\ \A v \in Workers : v # w => pc'[v] = pc[v]
    BY <2>2, <1>a
  <2> QED
    BY <2>1, <2>2, <2>3, <1>d, <1>f
<1>3. ASSUME NEW w \in Workers, NEW j \in Jobs, Postpone(w, j) \/ Begin(w, j)
      PROVE  \A v \in Workers : Goal(v)
  <2>1. \E c : ClaimStep(w, j, c)
    BY <1>0, <1>3, DropClaimFacts, BeginFacts DEF Postpone
  <2>2. pc'[w] # "finish" /\ \A v \in Workers : v # w => pc'[v] = pc[v] /\ cur'[v] = cur[v]
    BY <1>3, <1>a DEF Postpone, Begin, Goto
  <2> QED
    BY <2>1, <2>2, <1>d, <1>f, <1>g
<1>4. ASSUME NEW w \in Workers,
             (\E j \in Jobs : AbortBatch(w, j)) \/ FinishBatch(w) \/ Crash(w)
      PROVE  \A v \in Workers : Goal(v)
  <2>1. EndRun(w)
    BY <1>4 DEF AbortBatch, FinishBatch, Crash
  <2>2. /\ \A v \in Workers : v # w => snap'[v] = snap[v]
        /\ pc' = [pc EXCEPT ![w] = "ready"] /\ cur' = cur
    BY <1>0, <2>1, EndRunFacts
  <2>3. pc'[w] # "finish" /\ \A v \in Workers : v # w => pc'[v] = pc[v]
    BY <2>2, <1>a
  <2> QED
    BY <2>2, <2>3, <1>d, <1>f
<1>5. ASSUME NEW w \in Workers, FenceJob(w) \/ SaveProgress(w)
      PROVE  \A v \in Workers : Goal(v)
  <2>1. UNCHANGED <<cur, snap>>
    BY <1>5 DEF FenceJob, SaveProgress
  <2>2. pc'[w] # "finish" /\ \A v \in Workers : v # w => pc'[v] = pc[v]
    BY <1>5, <1>a DEF FenceJob, SaveProgress, Goto
  <2> QED
    BY <2>1, <2>2, <1>d, <1>f
<1>6. ASSUME NEW w \in Workers, EraseItem(w)
      PROVE  \A v \in Workers : Goal(v)
  <2>1. cur' = cur /\ cur[w] \in Jobs
    BY <1>6, <1>a DEF EraseItem
  <2>2. \A v \in Workers : v # w => snap'[v][cur[v]] = snap[v][cur[v]]
    BY <1>0, <1>6, <2>1, EraseFacts, <1>g
  <2>3. pc'[w] # "finish" /\ \A v \in Workers : v # w => pc'[v] = pc[v]
    BY <1>6, <1>a DEF EraseItem, Goto
  <2> QED
    BY <2>1, <2>2, <2>3, <1>d, <1>f
<1>7. ASSUME NEW w \in Workers, RetentionDone(w) \/ Consolidate(w)
      PROVE  \A v \in Workers : Goal(v)
  <2>1. UNCHANGED <<cur, snap>> /\ \A v \in Workers : v # w => pc'[v] = pc[v]
    BY <1>7, <1>a DEF RetentionDone, Consolidate, Goto
  <2>2. CASE RetentionDone(w)
    BY <2>1, <2>2, <1>f DEF RetentionDone, Pending, Goal
  <2>3. CASE Consolidate(w) /\ cur[w] \in consolidated'
    BY <2>1, <2>3, <1>f DEF Consolidate, Goal
  <2>4. CASE Consolidate(w) /\ cur[w] \notin consolidated'
    <3>1. pc'[w] # "finish"
      BY <2>4, <1>a DEF Consolidate, Goto
    <3> QED
      BY <2>1, <3>1, <1>d, <1>f
  <2> QED
    BY <1>7, <2>2, <2>3, <2>4
<1>8. ASSUME NEW w \in Workers, Complete(w) \/ FailJob(w)
      PROVE  \A v \in Workers : Goal(v)
  <2>1. cur' = cur /\ cur[w] \in Jobs
    BY <1>8, <1>a DEF Complete, FailJob
  <2>2. \A v \in Workers : v # w => snap'[v][cur[v]] = snap[v][cur[v]]
    <3>1. snap' = snap \/ DropClaim(w, cur[w])
      BY <1>8 DEF Complete, FailJob
    <3> QED
      BY <3>1, <2>1, <1>0, DropClaimFacts, <1>g
  <2>3. pc'[w] # "finish" /\ \A v \in Workers : v # w => pc'[v] = pc[v]
    BY <1>8, <1>a DEF Complete, FailJob, Goto
  <2> QED
    BY <2>1, <2>2, <2>3, <1>d, <1>f
<1>9. ASSUME \/ \E j \in Jobs : DueArrives(j) \/ Expire(j)
             \/ \E m \in Memories : ForgetMemory(m)
             \/ Activity \/ IdleElapses \/ UNCHANGED vars
      PROVE  \A v \in Workers : Goal(v)
  <2>1. UNCHANGED workerVars
    BY <1>9 DEF DueArrives, Expire, ForgetMemory, Activity, IdleElapses, vars
  <2> QED
    BY <2>1, <1>e
<1>10. \A v \in Workers : Goal(v)
  BY <1>1, <1>2, <1>3, <1>4, <1>5, <1>6, <1>7, <1>8, <1>9 DEF Next, WorkerStep
<1> QED
  BY <1>10 DEF Goal

\* Rows nobody works on keep their shape.
LEMMA RestingStep ==
  ASSUME IInv, StepKind
  PROVE  RestingRows'
<1>0. TypeOK /\ saw \in [Hosts -> SUBSET Jobs]
  BY DEF IInv, TypeOK
<1>r. RestingRows
  BY DEF IInv
<1>t. "queued" \notin Terminal \cup {"absent"} /\ "running" \notin Terminal \cup {"absent"}
  BY DEF Terminal
<1>1. ASSUME NEW h \in Hosts, NEW j \in Jobs, EnqueueLookup(h, j) PROVE RestingRows'
  BY <1>0, <1>1, <1>r DEF EnqueueLookup, RestingRows
<1>2. ASSUME NEW h \in Hosts, NEW j \in Jobs, Inserts(h, j) PROVE RestingRows'
  <2>1. \A k \in Jobs : Kept(k) \/ (k = j /\ jobs'[k].status = "queued")
    BY <1>2 DEF Inserts
  <2>2. Store = "memory" => \A g \in Hosts : g = h
    BY JobsAssumption
  <2>3. \A g \in Hosts : saw'[g] = IF g = h THEN saw[g] \ {j} ELSE saw[g]
    BY <1>0, <1>2 DEF Inserts
  <2>4. \A k \in Jobs : jobs'[k].status = "absent" => jobs'[k] = Absent
    BY <2>1, <1>r, <1>t DEF RestingRows, Kept
  <2>5. \A k \in Jobs : jobs'[k].status \in Terminal =>
          jobs'[k].due = "due" /\ ~jobs'[k].live /\ jobs'[k].owner = NoOwner
    BY <2>1, <1>r, <1>t DEF RestingRows, Kept
  <2>6. Store = "memory" => \A g \in Hosts : \A k \in saw'[g] : jobs'[k].status = "absent"
    <3> SUFFICES ASSUME Store = "memory", NEW g \in Hosts, NEW k \in saw'[g]
                 PROVE  jobs'[k].status = "absent"
      OBVIOUS
    <3>1. g = h /\ k \in saw[g] /\ k # j /\ k \in Jobs
      BY <2>2, <2>3, <1>0
    <3>2. jobs[k].status = "absent"
      BY <3>1, <1>r DEF RestingRows
    <3> QED
      BY <3>1, <3>2, <2>1 DEF Kept
  <2> QED
    BY <2>4, <2>5, <2>6 DEF RestingRows
<1>3. ASSUME NEW w \in Workers, ClaimDue(w) PROVE RestingRows'
  <2>1. \A j \in Jobs : \/ jobs'[j] = jobs[j]
                        \/ jobs[j].status \in Claimable /\ jobs'[j].status = "running"
    BY <1>0, <1>3, ClaimDueFacts
  <2>2. saw' = saw /\ "absent" \notin Claimable
    BY <1>3 DEF ClaimDue, Claimable
  <2> QED
    BY <2>1, <2>2, <1>0, <1>r, <1>t DEF RestingRows
<1>4. ASSUME NEW w \in Workers, NEW j \in Jobs, NEW status \in Statuses,
             NEW claim \in Claim, Saves(w, j, status, claim)
      PROVE  RestingRows'
  <2>1. jobs[j].status = "running"
    BY <1>4, GuardFacts DEF Saves
  <2>2. /\ saw' = saw /\ \A k \in Jobs : k # j => jobs'[k] = jobs[k]
        /\ jobs'[j].status # "absent"
        /\ jobs'[j].status \in Terminal =>
             jobs'[j].due = "due" /\ ~jobs'[j].live /\ jobs'[j].owner = NoOwner
    BY <1>4 DEF Saves
  <2> QED
    BY <2>1, <2>2, <1>0, <1>r DEF RestingRows
<1>5. CASE Quiet
  BY <1>5, <1>r DEF Quiet, RestingRows
<1>6. CASE Timing
  BY <1>6, <1>0, <1>r DEF Timing, Kept, RestingRows
<1> QED
  BY <1>1, <1>2, <1>3, <1>4, <1>5, <1>6 DEF StepKind

\* A row becomes completed only by the save of a worker that finished it.
LEMMA CompletedStep ==
  ASSUME IInv, StepKind
  PROVE  CompletedIsReal'
<1> DEFINE Real(j) == IF Kind[j] = "retention" THEN Items[j] \subseteq retained
                                               ELSE j \in consolidated
<1>0. TypeOK
  BY DEF IInv
<1>1. retained \subseteq retained' /\ consolidated \subseteq consolidated'
  BY DoneStep
<1>2. \A j \in Jobs : jobs[j].status = "completed" => Real(j)
  BY DEF IInv, CompletedIsReal
<1>3. ASSUME NEW j \in Jobs, jobs'[j].status = "completed", jobs[j].status # "completed"
      PROVE  Real(j)
  <2>1. PICK w \in Workers, claim \in Claim : Saves(w, j, "completed", claim)
    <3>1. ASSUME NEW h \in Hosts, NEW k \in Jobs, EnqueueLookup(h, k) \/ Inserts(h, k)
          PROVE  FALSE
      BY <1>3, <3>1 DEF EnqueueLookup, Inserts, Kept
    <3>2. ASSUME NEW w \in Workers, ClaimDue(w) PROVE FALSE
      BY <1>0, <1>3, <3>2, ClaimDueFacts
    <3>3. ~Quiet /\ ~Timing
      BY <1>3 DEF Quiet, Timing, Kept
    <3>4. PICK w \in Workers, k \in Jobs, status \in Statuses, claim \in Claim :
            Saves(w, k, status, claim)
      BY <3>1, <3>2, <3>3 DEF StepKind
    <3>5. k = j /\ status = "completed"
      BY <1>3, <3>4 DEF Saves
    <3> QED
      BY <3>4, <3>5
  <2>2. pc[w] = "finish" /\ cur[w] = j
    BY <2>1 DEF Saves
  <2> QED
    BY <2>2 DEF IInv, ProgressHappened
<1> QED
  BY <1>1, <1>2, <1>3 DEF CompletedIsReal

\* The inductive step.
LEMMA InductiveStep == IInv /\ [Next]_vars => IInv'
<1> SUFFICES ASSUME IInv, [Next]_vars PROVE IInv'
  OBVIOUS
<1>1. StepKind
  BY EveryStepHasKind
<1>2. ProgressHappened'
  BY <1>1, DoneStep, FinishStep DEF ProgressHappened
<1> QED
  BY <1>1, <1>2, TypeStep, ClaimsStep, BusyStep, RestingStep, CompletedStep DEF IInv

\* The initial state satisfies the inductive invariant.
LEMMA InitIInv == Init => IInv
<1> SUFFICES ASSUME Init PROVE IInv
  OBVIOUS
<1>1. (CHOOSE j \in Jobs : TRUE) \in Jobs
  BY JobsAssumption
<1>2. TypeOK
  BY <1>1 DEF Init, TypeOK, JobRow, Absent, NoClaim, Claim, Statuses, PcValues
<1>3. ClaimsSound
  BY DEF Init, ClaimsSound, HasClaim, Absent, NoClaim
<1>4. BusyHasClaim /\ ProgressHappened /\ RestingRows /\ CompletedIsReal
  BY DEF Init, BusyHasClaim, HasClaim, ProgressHappened, RestingRows,
         CompletedIsReal, Absent, NoClaim, Terminal
<1> QED
  BY <1>2, <1>3, <1>4 DEF IInv

-----------------------------------------------------------------------------
(* The theorems.                                                           *)

\* The inductive invariant holds in every behaviour of the queue.
THEOREM Invariance == Spec => []IInv
  BY InitIInv, InductiveStep, PTL DEF Spec

\* Every variable keeps its type, whatever the jobs, workers and hosts.
THEOREM TypeCorrect == Spec => []TypeOK
<1>1. IInv => TypeOK
  BY DEF IInv
<1> QED
  BY <1>1, Invariance, PTL

\* Fences never run ahead of their row and never coincide, and a current
\* claim's copy is never behind the row, for any number of workers and any
\* collisions between their owner strings (job_claim_due).
THEOREM ClaimsCorrect == Spec => []ClaimsSound
<1>1. IInv => ClaimsSound
  BY DEF IInv
<1> QED
  BY <1>1, Invariance, PTL

\* A job is recorded "completed" only after all its effects happened
\* (execute_lifecycle_jobs).
THEOREM CompletionCorrect == Spec => []CompletedIsReal
<1>1. IInv => CompletedIsReal
  BY DEF IInv
<1> QED
  BY <1>1, Invariance, PTL

\* No step lowers the recorded attempts or forgets a completed memory id
\* (lifecycle_job_save_guarded).
THEOREM ProgressCorrect == Spec => ProgressKept
<1> DEFINE Keeps == \A j \in Jobs : /\ jobs[j].attempts <= jobs'[j].attempts
                                    /\ jobs[j].done \subseteq jobs'[j].done
<1>1. ASSUME IInv, [Next]_vars PROVE [Keeps]_jobs
  <2>0. TypeOK /\ StepKind
    BY <1>1, EveryStepHasKind DEF IInv
  <2>n. \A j \in Jobs : jobs[j].attempts \in Nat
    BY <1>1, ClaimNumbers
  <2>1. ASSUME NEW h \in Hosts, NEW j \in Jobs, EnqueueLookup(h, j) \/ Inserts(h, j)
        PROVE  [Keeps]_jobs
    <3>1. Absent.attempts = 0 /\ Absent.done = {}
      BY DEF Absent
    <3> QED
      BY <2>1, <2>n, <3>1 DEF EnqueueLookup, Inserts, Kept
  <2>2. ASSUME NEW w \in Workers, ClaimDue(w) PROVE Keeps
    BY <2>0, <2>2, <2>n, ClaimDueFacts
  <2>3. ASSUME NEW w \in Workers, NEW j \in Jobs, NEW status \in Statuses,
               NEW claim \in Claim, Saves(w, j, status, claim)
        PROVE  Keeps
    <3>1. /\ jobs[j].attempts <= snap[w][j].attempts /\ jobs[j].done \subseteq snap[w][j].done
      BY <1>1, <2>3, GuardFacts DEF Saves
    <3>2. /\ snap[w][j].attempts <= claim.attempts /\ claim.done = snap[w][j].done
          /\ \A k \in Jobs : k # j => jobs'[k] = jobs[k]
          /\ jobs'[j].attempts = claim.attempts /\ jobs'[j].done = claim.done
      BY <2>3 DEF Saves
    <3>3. snap[w][j].attempts \in Nat /\ claim.attempts \in Nat
      BY <1>1, ClaimNumbers DEF Claim
    <3> QED
      BY <3>1, <3>2, <3>3, <2>n
  <2>4. ASSUME Quiet \/ Timing PROVE [Keeps]_jobs
    BY <2>4, <2>n DEF Quiet, Timing, Kept
  <2> QED
    BY <2>0, <2>1, <2>2, <2>3, <2>4 DEF StepKind
<1>2. Spec => [][Keeps]_jobs
  BY <1>1, Invariance, PTL DEF Spec
<1> QED
  BY <1>2 DEF ProgressKept

\* A completed or terminally failed job is never rewritten (job_claim_due,
\* job_save_guarded, job_enqueue).
THEOREM TerminalCorrect == Spec => TerminalFinal
<1> DEFINE Final == \A j \in Jobs : jobs[j].status \in Terminal => jobs'[j] = jobs[j]
<1>1. ASSUME IInv, [Next]_vars PROVE Final
  <2>0. TypeOK /\ StepKind
    BY <1>1, EveryStepHasKind DEF IInv
  <2>t. "absent" \notin Terminal /\ "running" \notin Terminal
    BY DEF Terminal
  <2>1. ASSUME NEW h \in Hosts, NEW j \in Jobs, EnqueueLookup(h, j) \/ Inserts(h, j)
        PROVE  Final
    <3>1. Absent.status = "absent"
      BY DEF Absent
    <3> QED
      BY <2>1, <2>t, <3>1 DEF EnqueueLookup, Inserts, Kept
  <2>2. ASSUME NEW w \in Workers, ClaimDue(w) PROVE Final
    <3>1. \A s \in Terminal : s \notin Claimable
      BY DEF Terminal, Claimable
    <3> QED
      BY <2>0, <2>2, <3>1, ClaimDueFacts
  <2>3. ASSUME NEW w \in Workers, NEW j \in Jobs, NEW status \in Statuses,
               NEW claim \in Claim, Saves(w, j, status, claim)
        PROVE  Final
    <3>1. jobs[j].status = "running"
      BY <1>1, <2>3, GuardFacts DEF Saves
    <3> QED
      BY <2>3, <2>t, <3>1 DEF Saves
  <2>4. ASSUME Quiet \/ Timing PROVE Final
    BY <2>4 DEF Quiet, Timing, Kept
  <2> QED
    BY <2>0, <2>1, <2>2, <2>3, <2>4 DEF StepKind
<1>2. Spec => [][Final]_jobs
  BY <1>1, Invariance, PTL DEF Spec
<1> QED
  BY <1>2 DEF TerminalFinal

=============================================================================
