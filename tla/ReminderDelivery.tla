-------------------------- MODULE ReminderDelivery --------------------------
(***************************************************************************)
(* Reminders of one user: clients schedule, transition and forget; workers *)
(* call the host webhook for reminders that are due.  Every call holds the *)
(* user's lease "privacy/<user>", fenced except in forget.  Models         *)
(* src/runtime/reminders.rs, the reminder state machine of                 *)
(* src/domain/reminder.rs, and of forget the part that touches reminders.  *)
(*                                                                         *)
(* A reminder is stored twice: the delivery state the executor trusts and  *)
(* the row that list_due_reminders selects from.  All reminders here come  *)
(* from the one memory that forget may remove.  worker_owner() gives each  *)
(* call an owner string of its own, so an actor stands for its current     *)
(* call and never meets a lease of its own from an earlier one.            *)
(***************************************************************************)
EXTENDS Naturals, FiniteSets

CONSTANTS
  Reminders,    \* reminder ids: deterministic_id of the dedupe key
  Workers,      \* callers of execute_due_reminders
  Clients,      \* callers of schedule, transition and forget
  Nobody,       \* locked_by IS NULL
  MaxRetries,   \* max_retries of the execute requests
  HostTargets,  \* statuses that transition_reminder is asked for
  MaxCalls,     \* bound on the calls of clients
  MaxCrashes,   \* bound on crashes
  MaxLapses,    \* bound on leases that expire under a working owner
  MaxQuiet,     \* bound on postponements for quiet hours
  ForgetMayLapse \* whether forget may take longer than its 300 seconds

Actors == Workers \cup Clients

ASSUME ReminderAssumption ==
  /\ Reminders # {}
  /\ Nobody \notin Actors
  /\ Workers \cap Clients = {}
  /\ MaxRetries \in Nat
  /\ HostTargets \subseteq {"due", "dispatched", "completed", "failed",
                            "retry_scheduled", "cancelled", "expired"}
  /\ MaxCalls \in Nat /\ MaxCrashes \in Nat /\ MaxLapses \in Nat /\ MaxQuiet \in Nat
  /\ ForgetMayLapse \in BOOLEAN

VARIABLES
  state,      \* delivery states, "reminder/<user>/<id>" in nextral_runtime_state
  row,        \* nextral_reminders
  lease,      \* the user's lease
  gone,       \* the source memory is tombstoned
  forgotten,  \* forget has scrubbed everything derived from it
  posted,     \* webhook calls made for each reminder
  delivered,  \* reminders the host has processed
  pc,         \* control point of each actor
  fence,      \* fence of the actor's claim
  cur,        \* the reminder an actor works on
  copy,       \* its private copy of the delivery state
  todo,       \* reminders left of the list a worker read
  count       \* calls, crashes, lapses and postponements so far

localVars == <<fence, cur, copy, todo>>
hostVars == <<posted, delivered>>
vars == <<state, row, lease, gone, forgotten, hostVars, pc, localVars, count>>

Terminal == {"completed", "cancelled", "expired"}
DueStatuses == {"scheduled", "due", "retry_scheduled"}
Statuses == {"absent", "dispatched", "failed"} \cup DueStatuses \cup Terminal

Row == [status: Statuses, attempts: Nat, due: {"due", "later"}, scrubbed: BOOLEAN]
Delivery == [status: Statuses, attempts: Nat, due: {"due", "later"},
             scrubbed: BOOLEAN, receipt: BOOLEAN]
PcValues == {"idle", "schedule", "insert", "transition", "intent", "scrub",
             "list", "next", "load", "check", "upsert", "save_next", "save_post",
             "save_ack", "post", "posted_ack", "posted_error", "release"}

RowOf(s) == [status |-> s.status, attempts |-> s.attempts,
             due |-> s.due, scrubbed |-> s.scrubbed]
Absent == [status |-> "absent", attempts |-> 0, due |-> "later",
           scrubbed |-> FALSE, receipt |-> FALSE]
Scheduled == [Absent EXCEPT !.status = "scheduled"]

AnyReminder == CHOOSE r \in Reminders : TRUE

TypeOK ==
  /\ state \in [Reminders -> Delivery]
  /\ row \in [Reminders -> Row]
  /\ lease \in [owner: Actors \cup {Nobody}, live: BOOLEAN, fence: Nat]
  /\ gone \in BOOLEAN /\ forgotten \in BOOLEAN
  /\ posted \in [Reminders -> Nat]
  /\ delivered \in SUBSET Reminders
  /\ pc \in [Actors -> PcValues]
  /\ fence \in [Actors -> Nat]
  /\ cur \in [Actors -> Reminders]
  /\ copy \in [Actors -> Delivery]
  /\ todo \in [Actors -> SUBSET Reminders]
  /\ count \in [calls: Nat, crashes: Nat, lapses: Nat, quiet: Nat]

Init ==
  /\ state = [r \in Reminders |-> Absent]
  /\ row = [r \in Reminders |-> RowOf(Absent)]
  /\ lease = [owner |-> Nobody, live |-> FALSE, fence |-> 0]
  /\ gone = FALSE /\ forgotten = FALSE
  /\ posted = [r \in Reminders |-> 0]
  /\ delivered = {}
  /\ pc = [a \in Actors |-> "idle"]
  /\ fence = [a \in Actors |-> 0]
  /\ cur = [a \in Actors |-> AnyReminder]
  /\ copy = [a \in Actors |-> Absent]
  /\ todo = [a \in Actors |-> {}]
  /\ count = [calls |-> 0, crashes |-> 0, lapses |-> 0, quiet |-> 0]

Goto(a, label) == pc' = [pc EXCEPT ![a] = label]

\* The call is over and its locals are gone.
EndCall(a) ==
  /\ Goto(a, "idle")
  /\ fence' = [fence EXCEPT ![a] = 0]
  /\ cur' = [cur EXCEPT ![a] = AnyReminder]
  /\ copy' = [copy EXCEPT ![a] = Absent]
  /\ todo' = [todo EXCEPT ![a] = {}]

-----------------------------------------------------------------------------
(* The user lease.                                                         *)

\* claim_fenced: a lease nobody holds, or that has expired, is taken with the
\* next fence.
ClaimFenced(a) ==
  /\ ~lease.live
  /\ lease' = [owner |-> a, live |-> TRUE, fence |-> lease.fence + 1]
  /\ fence' = [fence EXCEPT ![a] = lease.fence + 1]

\* Mutant: the claim does not respect a live lease.
ClaimStolen(a) ==
  /\ lease' = [lease EXCEPT !.owner = a, !.live = TRUE]
  /\ fence' = [fence EXCEPT ![a] = lease.fence]

\* The unfenced claim of forget_memory replaces the owner and keeps the fence.
ClaimUnfenced(a) ==
  /\ ~lease.live
  /\ lease' = [lease EXCEPT !.owner = a, !.live = TRUE]
  /\ fence' = [fence EXCEPT ![a] = lease.fence]

\* Mutant: commits and renewals are not fenced.
HoldsAlways(a) == TRUE

\* What renew_fenced and commit_reminder_delivery require of a claim.
Holds(a) == lease.owner = a /\ lease.fence = fence[a] /\ lease.live

\* release_fenced, and release: nothing unless the claim is still the lease.
Release(a) ==
  /\ pc[a] = "release"
  /\ lease' = IF lease.owner = a /\ lease.fence = fence[a]
              THEN [lease EXCEPT !.owner = Nobody, !.live = FALSE]
              ELSE lease
  /\ EndCall(a)
  /\ UNCHANGED <<state, row, gone, forgotten, hostVars, count>>

\* Mutant: the row is left to a later refresh.
CommitStateOnly(a, label) ==
  IF Holds(a)
  THEN /\ state' = [state EXCEPT ![cur[a]] = copy[a]]
       /\ UNCHANGED row
       /\ Goto(a, label)
  ELSE UNCHANGED <<state, row>> /\ Goto(a, "release")

\* commit_reminder_delivery: state and row in one transaction under the lease;
\* a lost lease fails the whole call.
Commit(a, label) ==
  IF Holds(a)
  THEN /\ state' = [state EXCEPT ![cur[a]] = copy[a]]
       /\ row' = [row EXCEPT ![cur[a]] = RowOf(copy[a])]
       /\ Goto(a, label)
  ELSE UNCHANGED <<state, row>> /\ Goto(a, "release")

-----------------------------------------------------------------------------
(* Clients.                                                                *)

BeginCall(c, label) ==
  /\ pc[c] = "idle" /\ count.calls < MaxCalls
  /\ count' = [count EXCEPT !.calls = @ + 1]
  /\ Goto(c, label)

StartSchedule(c, r) ==
  /\ BeginCall(c, "schedule")
  /\ ClaimFenced(c)
  /\ cur' = [cur EXCEPT ![c] = r]
  /\ UNCHANGED <<state, row, gone, forgotten, hostVars, copy, todo>>

\* Mutant: a second schedule of the same key starts over.
ScheduleAgain(c) ==
  /\ pc[c] = "schedule"
  /\ IF ~gone
     THEN copy' = [copy EXCEPT ![c] = Scheduled] /\ Goto(c, "insert")
     ELSE UNCHANGED copy /\ Goto(c, "release")
  /\ UNCHANGED <<state, row, lease, gone, forgotten, hostVars, fence, cur, todo, count>>

\* The source must be active; a reminder that exists is returned as it is.
ScheduleLoad(c) ==
  /\ pc[c] = "schedule"
  /\ IF ~gone /\ state[cur[c]].status = "absent"
     THEN copy' = [copy EXCEPT ![c] = Scheduled] /\ Goto(c, "insert")
     ELSE UNCHANGED copy /\ Goto(c, "release")
  /\ UNCHANGED <<state, row, lease, gone, forgotten, hostVars, fence, cur, todo, count>>

Save(a, at, label) ==
  /\ pc[a] = at
  /\ Commit(a, label)
  /\ UNCHANGED <<lease, gone, forgotten, hostVars, localVars, count>>

\* ReminderRecord::transition.
Allowed ==
  {<<"scheduled", "due">>, <<"due", "dispatched">>,
   <<"dispatched", "completed">>, <<"dispatched", "failed">>,
   <<"failed", "retry_scheduled">>, <<"retry_scheduled", "dispatched">>,
   <<"retry_scheduled", "due">>}
  \cup ((DueStatuses \cup {"dispatched", "failed"}) \X {"cancelled", "expired"})

Transitioned(s, to) ==
  [s EXCEPT !.status = to,
            !.attempts = IF to = "dispatched" THEN @ + 1 ELSE @]

StartTransition(c, r) ==
  /\ state[r].status # "absent"
  /\ BeginCall(c, "transition")
  /\ ClaimFenced(c)
  /\ cur' = [cur EXCEPT ![c] = r]
  /\ UNCHANGED <<state, row, gone, forgotten, hostVars, copy, todo>>

TransitionLoad(c) ==
  /\ pc[c] = "transition"
  /\ LET s == state[cur[c]]
     IN  \E to \in HostTargets :
           IF <<s.status, to>> \in Allowed
           THEN copy' = [copy EXCEPT ![c] = Transitioned(s, to)] /\ Goto(c, "insert")
           ELSE UNCHANGED copy /\ Goto(c, "release")
  /\ UNCHANGED <<state, row, lease, gone, forgotten, hostVars, fence, cur, todo, count>>

StartForget(c) ==
  /\ ~forgotten
  /\ BeginCall(c, "intent")
  /\ ClaimUnfenced(c)
  /\ UNCHANGED <<state, row, gone, forgotten, hostVars, cur, copy, todo>>

\* forget_claimed up to update_memory: intent, tombstones, soft deletion.
ForgetIntent(c) ==
  /\ pc[c] = "intent"
  /\ gone' = TRUE
  /\ Goto(c, "scrub")
  /\ UNCHANGED <<state, row, lease, forgotten, hostVars, localVars, count>>

\* Mutant: a status that is not one of ReminderStatus.
ScrubbedStatusClosed(status) ==
  IF status \in Terminal \cup {"absent"} THEN status ELSE "closed"

ScrubbedStatus(status) ==
  IF status \in Terminal \cup {"absent"} THEN status ELSE "cancelled"

\* Mutant: only nextral_reminders is scrubbed.
ScrubRowsOnly(c) ==
  /\ pc[c] = "scrub"
  /\ row' = [r \in Reminders |->
       [row[r] EXCEPT !.status = ScrubbedStatus(@),
                      !.scrubbed = row[r].status # "absent"]]
  /\ forgotten' = TRUE
  /\ Goto(c, "release")
  /\ UNCHANGED <<state, lease, gone, hostVars, localVars, count>>

\* scrub_sources: one transaction over rows and delivery states, unfenced.
\* Reminders that do not exist are not affected.
Scrub(c) ==
  /\ pc[c] = "scrub"
  /\ state' = [r \in Reminders |->
       [state[r] EXCEPT !.status = ScrubbedStatus(@),
                        !.scrubbed = state[r].status # "absent"]]
  /\ row' = [r \in Reminders |->
       [row[r] EXCEPT !.status = ScrubbedStatus(@),
                      !.scrubbed = row[r].status # "absent"]]
  /\ forgotten' = TRUE
  /\ Goto(c, "release")
  /\ UNCHANGED <<lease, gone, hostVars, localVars, count>>

-----------------------------------------------------------------------------
(* Workers: execute_due_reminders.                                         *)

\* Mutant: reminders waiting for a retry are not listed.
DueVisibleFirstOnly(q) == q.status \in {"scheduled", "due"} /\ q.due = "due"

DueVisible(q) == q.status \in DueStatuses /\ q.due = "due"

\* A call that would find nothing due changes nothing and is left out.
StartExecute(w) ==
  /\ pc[w] = "idle"
  /\ \E r \in Reminders : DueVisible(row[r])
  /\ ClaimFenced(w)
  /\ Goto(w, "list")
  /\ UNCHANGED <<state, row, gone, forgotten, hostVars, cur, copy, todo, count>>

ListDue(w) ==
  /\ pc[w] = "list"
  /\ todo' = [todo EXCEPT ![w] = {r \in Reminders : DueVisible(row[r])}]
  /\ Goto(w, "next")
  /\ UNCHANGED <<state, row, lease, gone, forgotten, hostVars, fence, cur, copy, count>>

\* The next reminder of the list, after the lease is renewed.
PickNext(w) ==
  /\ pc[w] = "next"
  /\ IF todo[w] = {} \/ ~Holds(w)
     THEN UNCHANGED <<cur, todo>> /\ Goto(w, "release")
     ELSE \E r \in todo[w] : /\ cur' = [cur EXCEPT ![w] = r]
                             /\ todo' = [todo EXCEPT ![w] = @ \ {r}]
                             /\ Goto(w, "load")
  /\ UNCHANGED <<state, row, lease, gone, forgotten, hostVars, fence, copy, count>>

Acknowledged(s) ==
  [s EXCEPT !.status = IF @ = "dispatched" THEN "completed" ELSE @]

\* The delivery state decides; the listed row only selected it.
Load(w) ==
  /\ pc[w] = "load"
  /\ LET s == state[cur[w]]
     IN  \/ /\ s.status \in Terminal
            /\ copy' = [copy EXCEPT ![w] = s]
            /\ Goto(w, "upsert")
         \/ /\ s.status \notin Terminal /\ s.due = "later"
            /\ UNCHANGED copy
            /\ Goto(w, "next")
         \/ /\ s.status \notin Terminal /\ s.due = "due" /\ s.receipt
            /\ copy' = [copy EXCEPT ![w] = Acknowledged(s)]
            /\ Goto(w, "save_next")
         \/ /\ s.status \notin Terminal /\ s.due = "due" /\ ~s.receipt
            /\ copy' = [copy EXCEPT ![w] = s]
            /\ Goto(w, "check")
  /\ UNCHANGED <<state, row, lease, gone, forgotten, hostVars, fence, cur, todo, count>>

\* upsert_reminder of the loaded copy: no lease is checked.
Upsert(w) ==
  /\ pc[w] = "upsert"
  /\ row' = [row EXCEPT ![cur[w]] = RowOf(copy[w])]
  /\ Goto(w, "next")
  /\ UNCHANGED <<state, lease, gone, forgotten, hostVars, localVars, count>>

\* Mutant: a retry is not counted.
StartedUncounted(s) ==
  IF s.status = "retry_scheduled" THEN [s EXCEPT !.status = "dispatched"]
  ELSE IF s.status = "dispatched" THEN s ELSE Transitioned(s, "dispatched")

\* A dispatch counts an attempt unless the reminder is already dispatched.
Started(s) ==
  IF s.status = "dispatched" THEN s ELSE Transitioned(s, "dispatched")

\* Source, privacy and channel, expiry, quiet hours, then dispatch.  What the
\* request's privacy scope, the channel, the clock and the timezone decide is
\* a free choice.
Check(w) ==
  /\ pc[w] = "check"
  /\ LET s == copy[w]
     IN  IF gone
         THEN /\ copy' = [copy EXCEPT ![w].status = "cancelled"]
              /\ Goto(w, "save_next")
              /\ UNCHANGED count
         ELSE \/ /\ \E to \in {"cancelled", "expired"} :
                      copy' = [copy EXCEPT ![w].status = to]
                 /\ Goto(w, "save_next")
                 /\ UNCHANGED count
              \/ /\ count.quiet < MaxQuiet
                 /\ count' = [count EXCEPT !.quiet = @ + 1]
                 /\ copy' = [copy EXCEPT ![w].due = "later"]
                 /\ Goto(w, "save_next")
              \/ /\ copy' = [copy EXCEPT ![w] = Started(s)]
                 /\ Goto(w, "save_post")
                 /\ UNCHANGED count
  /\ UNCHANGED <<state, row, lease, gone, forgotten, hostVars, fence, cur, todo>>

\* lifecycle_dispatch: the host processes the request and the acknowledgement
\* arrives or is lost, or the host refuses.
Post(w) ==
  /\ pc[w] = "post"
  /\ posted' = [posted EXCEPT ![cur[w]] = @ + 1]
  /\ \/ delivered' = delivered \cup {cur[w]} /\ Goto(w, "posted_ack")
     \/ delivered' = delivered \cup {cur[w]} /\ Goto(w, "posted_error")
     \/ UNCHANGED delivered /\ Goto(w, "posted_error")
  /\ UNCHANGED <<state, row, lease, gone, forgotten, localVars, count>>

\* Mutant: any response of the host is taken for an acknowledgement.
OutcomeAlwaysAck(w) ==
  /\ pc[w] \in {"posted_ack", "posted_error"}
  /\ IF ~Holds(w) THEN UNCHANGED copy /\ Goto(w, "release")
     ELSE copy' = [copy EXCEPT ![w].receipt = TRUE] /\ Goto(w, "save_ack")
  /\ UNCHANGED <<state, row, lease, gone, forgotten, hostVars, fence, cur, todo, count>>

\* A lease lost during the webhook call ends the run with nothing recorded.
Outcome(w) ==
  /\ pc[w] \in {"posted_ack", "posted_error"}
  /\ IF ~Holds(w) THEN UNCHANGED copy /\ Goto(w, "release")
     ELSE \/ /\ pc[w] = "posted_ack"
             /\ copy' = [copy EXCEPT ![w].receipt = TRUE]
             /\ Goto(w, "save_ack")
          \/ /\ pc[w] = "posted_error" /\ copy[w].attempts <= MaxRetries
             /\ copy' = [copy EXCEPT ![w].status = "retry_scheduled", ![w].due = "later"]
             /\ Goto(w, "save_next")
          \/ /\ pc[w] = "posted_error" /\ copy[w].attempts > MaxRetries
             /\ copy' = [copy EXCEPT ![w].status = "expired"]
             /\ Goto(w, "save_next")
  /\ UNCHANGED <<state, row, lease, gone, forgotten, hostVars, fence, cur, todo, count>>

\* The acknowledgement is persisted before the completion.
SaveAck(w) ==
  /\ pc[w] = "save_ack"
  /\ Commit(w, "save_next")
  /\ copy' = [copy EXCEPT ![w].status = "completed"]
  /\ UNCHANGED <<lease, gone, forgotten, hostVars, fence, cur, todo, count>>

-----------------------------------------------------------------------------
(* Time and crashes.                                                       *)

\* next_attempt_at passes, in both copies of the reminder.
DueArrives(r) ==
  /\ state[r].status # "absent" /\ state[r].due = "later"
  /\ state' = [state EXCEPT ![r].due = "due"]
  /\ row' = [row EXCEPT ![r].due = "due"]
  /\ UNCHANGED <<lease, gone, forgotten, hostVars, pc, localVars, count>>

\* locked_until passes, perhaps under an owner that still works.  Forget never
\* renews its 300 seconds.
Expire ==
  /\ lease.live
  /\ \/ /\ pc[lease.owner] = "idle"
        /\ UNCHANGED count
     \/ /\ pc[lease.owner] # "idle"
        /\ pc[lease.owner] \in {"intent", "scrub"} => ForgetMayLapse
        /\ count.lapses < MaxLapses
        /\ count' = [count EXCEPT !.lapses = @ + 1]
  /\ lease' = [lease EXCEPT !.live = FALSE]
  /\ UNCHANGED <<state, row, gone, forgotten, hostVars, pc, localVars>>

Crash(a) ==
  /\ pc[a] # "idle" /\ count.crashes < MaxCrashes
  /\ count' = [count EXCEPT !.crashes = @ + 1]
  /\ EndCall(a)
  /\ UNCHANGED <<state, row, lease, gone, forgotten, hostVars>>

ClientStep(c) ==
  \/ ScheduleLoad(c) \/ TransitionLoad(c) \/ Save(c, "insert", "release")
  \/ ForgetIntent(c) \/ Scrub(c) \/ Release(c)

WorkerStep(w) ==
  \/ ListDue(w) \/ PickNext(w) \/ Load(w) \/ Upsert(w) \/ Check(w)
  \/ Save(w, "save_next", "next") \/ Save(w, "save_post", "post")
  \/ Post(w) \/ Outcome(w) \/ SaveAck(w) \/ Release(w)

Next ==
  \/ \E c \in Clients, r \in Reminders : StartSchedule(c, r) \/ StartTransition(c, r)
  \/ \E c \in Clients : StartForget(c) \/ ClientStep(c)
  \/ \E w \in Workers : StartExecute(w) \/ WorkerStep(w)
  \/ \E r \in Reminders : DueArrives(r)
  \/ \E a \in Actors : Crash(a)
  \/ Expire

Spec == Init /\ [][Next]_vars

\* Workers tick for ever, calls run to their end and time passes.
Fairness ==
  /\ \A w \in Workers : WF_vars(StartExecute(w)) /\ WF_vars(WorkerStep(w))
  /\ \A c \in Clients : WF_vars(ClientStep(c))
  /\ \A r \in Reminders : WF_vars(DueArrives(r))
  /\ WF_vars(Expire /\ UNCHANGED count)

FairSpec == Spec /\ Fairness
-----------------------------------------------------------------------------
(* Properties.                                                             *)

\* The listed row never disagrees with the delivery state about whether and
\* how often a reminder was attempted, although the two are written by fenced
\* commits, by an unfenced upsert and by forget.
StoresAgree ==
  \A r \in Reminders : /\ row[r].status = state[r].status
                       /\ row[r].attempts = state[r].attempts

\* A reminder that completed, was cancelled or expired stays so: no worker
\* with a stale copy and no second schedule of the same dedupe key revives it
\* (schedule_claimed: "must never reset a completed or retrying reminder").
TerminalStays ==
  [][\A r \in Reminders : state[r].status \in Terminal =>
       /\ state'[r].status = state[r].status
       /\ state'[r].attempts = state[r].attempts]_state

\* Every webhook call is covered by an attempt that was durable before it, and
\* retries are bounded, crashes and lost leases included (execute_claimed).
PostsBounded ==
  \A r \in Reminders : /\ posted[r] <= state[r].attempts
                       /\ state[r].attempts <= MaxRetries + 1

\* "completed" is recorded only for a reminder the host really processed.
CompletedDelivered ==
  \A r \in Reminders : state[r].status = "completed" => r \in delivered

\* Once the acknowledgement is durable the host is never called again ("replay
\* will not call the host again", src/runtime/reminders.rs).
NoRepost ==
  [][\A r \in Reminders : posted'[r] # posted[r] => ~state[r].receipt]_posted

\* After forget, everything derived from the source is closed and scrubbed, in
\* both stores, and stays so (docs/memory/workflow/forget-and-redaction.md:
\* "Remove/redact the relevant ... exact derived references in ... reminder
\* state"), as long as leases outlast what is done under them.
ForgetFinal ==
  forgotten /\ count.lapses = 0 => \A r \in Reminders :
    /\ state[r].status = "absent" \/ (state[r].status \in Terminal /\ state[r].scrubbed)
    /\ row[r].status = "absent" \/ (row[r].status \in Terminal /\ row[r].scrubbed)

\* The host is not called for a source that has been forgotten, as long as leases
\* outlast what is done under them.
NoPostAfterForget == [][forgotten /\ count.lapses = 0 => UNCHANGED posted]_posted

\* Every scheduled reminder is eventually delivered, cancelled or expired,
\* through retries and quiet hours, as long as no process dies or loses its
\* lease (execute_claimed).
RemindersSettle ==
  \A r \in Reminders :
    state[r].status # "absent" ~> state[r].status \in Terminal \/ count.crashes + count.lapses > 0

\* What the stores say of a delivery is one story, and it covers every call of the
\* webhook: the copies agree, attempts were counted first, completion was acknowledged.
DeliveryRecorded == TypeOK /\ StoresAgree /\ PostsBounded /\ CompletedDelivered

\* What was closed, acknowledged or forgotten is neither reopened nor delivered again,
\* whichever schedule, late answer or worker that lost its lease comes after
\* (execute_claimed).
NothingReopened == TerminalStays /\ NoRepost /\ NoPostAfterForget

=============================================================================
