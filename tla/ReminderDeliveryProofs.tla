----------------------- MODULE ReminderDeliveryProofs -----------------------
(***************************************************************************)
(* Proofs about ReminderDelivery, for any reminders, workers and clients,  *)
(* any number of crashes and of leases that lapse under workers: what the  *)
(* stores say of a delivery is true, and nothing closed is reopened.       *)
(***************************************************************************)
EXTENDS ReminderDelivery, TLAPS

\* What the theorems assume of the environment.  Forget never renews its lease, so it is
\* taken to end within it; and hosts that transition a reminder by hand do not themselves
\* dispatch, complete or retry it.
Restrained ==
  /\ ~ForgetMayLapse
  /\ HostTargets \cap {"dispatched", "completed", "retry_scheduled"} = {}

\* A delivery record k of reminder r that may be stored: what it counts and claims is so.
Recorded(k, r) ==
  /\ k.status = "absent" => k.attempts = 0
  /\ k.status \in DueStatuses => k.attempts <= MaxRetries
  /\ k.attempts <= MaxRetries + 1
  /\ posted[r] <= k.attempts
  /\ k.receipt \/ k.status = "completed" => r \in delivered

\* The copy k of a call that holds the lease, against the record s it will replace.
AtWork == {"load", "check", "save_next", "save_post", "save_ack", "post", "posted_ack", "posted_error"}
Posted == {"posted_ack", "posted_error", "save_ack"}

HolderOK(a) ==
  LET s == state[cur[a]]
      k == copy[a]
  IN
  /\ pc[a] # "upsert"
  /\ pc[a] \in AtWork \cup {"next"} => \A r \in todo[a] : state[r].status \in DueStatuses
  /\ pc[a] \in AtWork => cur[a] \notin todo[a]
  /\ pc[a] \in AtWork \ {"load"} => k.status # "absent"
  /\ pc[a] \in {"load", "check", "save_post"} => s.status \in DueStatuses
  /\ pc[a] = "check" => k.status = s.status /\ k.attempts = s.attempts /\ ~k.receipt /\ ~s.receipt
  /\ pc[a] = "save_post" => k.status = "dispatched" /\ k.attempts = s.attempts + 1 /\ ~k.receipt
  /\ pc[a] \in {"post"} \cup Posted =>
       s.status = "dispatched" /\ k.status = "dispatched" /\ k.attempts = s.attempts
  /\ pc[a] \in {"post", "posted_ack", "posted_error"} => ~k.receipt
  /\ pc[a] \in {"posted_ack", "save_ack"} => cur[a] \in delivered
  /\ pc[a] = "save_next" =>
       /\ s.status \in DueStatuses \cup {"dispatched"} /\ k.attempts = s.attempts
       /\ k.status \in DueStatuses \cup {"cancelled", "expired", "completed"}
       /\ k.status \in DueStatuses => k.attempts <= MaxRetries
       /\ k.receipt \/ k.status = "completed" => cur[a] \in delivered
  /\ pc[a] = "insert" =>
       \/ s.status = "absent" /\ ~gone /\ k = Scheduled
       \/ /\ s.status \notin Terminal \cup {"absent"}
          /\ k.attempts = s.attempts /\ k.receipt = s.receipt
          /\ k.status \in {"due", "cancelled", "expired", "failed"}
          /\ k.status = "due" => s.status \in DueStatuses

\* The attempt of a webhook call that is about to be made is on record, whoever has the
\* lease by now.
PostOK(a) ==
  LET s == state[cur[a]]
  IN  s.status \notin DueStatuses \cup {"absent"} /\ posted[cur[a]] < s.attempts /\ ~s.receipt

\* A copy that is written back without the lease is closed, and the record still is.
UpsertOK(a) ==
  LET s == state[cur[a]]
  IN  copy[a].status \in Terminal /\ copy[a].status = s.status /\ copy[a].attempts = s.attempts

ActorOK(a) ==
  /\ Holds(a) => HolderOK(a)
  /\ pc[a] = "post" => PostOK(a)
  /\ pc[a] = "upsert" => UpsertOK(a)
  /\ pc[a] \in {"intent", "scrub"} => Holds(a)
  /\ pc[a] = "scrub" => gone
  /\ count.lapses = 0 /\ pc[a] # "idle" => Holds(a)

\* Of two calls on one reminder at most one is at the webhook or past it.
Distinct ==
  \A a, b \in Actors :
    /\ a # b /\ pc[b] = "post"
    /\ pc[a] = "post" \/ (Holds(a) /\ pc[a] \in Posted \cup {"save_next"})
    => cur[a] # cur[b]

IInv ==
  /\ TypeOK /\ StoresAgree
  /\ \A r \in Reminders : Recorded(state[r], r)
  /\ \A a \in Actors : ActorOK(a)
  /\ Distinct
  /\ lease.live => lease.owner \in Actors
  /\ forgotten => gone
  /\ ForgetFinal

-----------------------------------------------------------------------------
(* Types.                                                                  *)

\* The types of all variables, as the conjuncts that actions change.
LEMMA TypeNext ==
  ASSUME state' \in [Reminders -> Delivery], row' \in [Reminders -> Row],
         lease' \in [owner: Actors \cup {Nobody}, live: BOOLEAN, fence: Nat],
         gone' \in BOOLEAN, forgotten' \in BOOLEAN,
         posted' \in [Reminders -> Nat], delivered' \in SUBSET Reminders,
         pc' \in [Actors -> PcValues], fence' \in [Actors -> Nat],
         cur' \in [Actors -> Reminders], copy' \in [Actors -> Delivery],
         todo' \in [Actors -> SUBSET Reminders],
         count' \in [calls: Nat, crashes: Nat, lapses: Nat, quiet: Nat]
  PROVE  TypeOK'
  BY DEF TypeOK

\* The values a reminder starts from are well-formed.
LEMMA AbsentTyped ==
  /\ Absent \in Delivery /\ Scheduled \in Delivery /\ AnyReminder \in Reminders
  /\ Absent.status = "absent" /\ Absent.attempts = 0 /\ ~Absent.receipt
  /\ Scheduled.status = "scheduled" /\ Scheduled.attempts = 0 /\ ~Scheduled.receipt
<1>1. AnyReminder \in Reminders
  BY ReminderAssumption DEF AnyReminder
<1> QED
  BY <1>1 DEF Absent, Scheduled, Delivery, Statuses, DueStatuses

\* The row of a delivery state is well-formed and agrees with it.
LEMMA RowTyped ==
  ASSUME NEW s \in Delivery
  PROVE  /\ RowOf(s) \in Row /\ RowOf(s).status = s.status /\ RowOf(s).attempts = s.attempts
         /\ RowOf(s).scrubbed = s.scrubbed
  BY DEF RowOf, Row, Delivery

\* The fields of an actor's record and copy.
LEMMA Fields ==
  ASSUME TypeOK, NEW a \in Actors
  PROVE  /\ cur[a] \in Reminders /\ copy[a] \in Delivery /\ state[cur[a]] \in Delivery
         /\ copy[a].status \in Statuses /\ copy[a].attempts \in Nat
         /\ copy[a].receipt \in BOOLEAN
         /\ state[cur[a]].attempts \in Nat /\ state[cur[a]].receipt \in BOOLEAN
<1>1. cur[a] \in Reminders /\ copy[a] \in Delivery /\ state[cur[a]] \in Delivery
  BY DEF TypeOK
<1> QED
  BY <1>1 DEF Delivery

\* A move of one actor leaves the others where they are.
LEMMA GotoTyped ==
  ASSUME TypeOK, NEW a \in Actors, NEW label \in PcValues, Goto(a, label)
  PROVE  /\ pc' \in [Actors -> PcValues] /\ pc'[a] = label
         /\ \A b \in Actors : b # a => pc'[b] = pc[b]
  BY DEF TypeOK, Goto

-----------------------------------------------------------------------------
(* Steps that change nothing but the call of one actor and the lease.      *)

\* The locals of everyone but a are untouched.
Others(a) ==
  \A b \in Actors : b # a =>
    pc'[b] = pc[b] /\ fence'[b] = fence[b] /\ cur'[b] = cur[b] /\ copy'[b] = copy[b] /\ todo'[b] = todo[b]

\* a takes a lease that is not live, or its own ends.
LeaseOf(a) ==
  \/ lease' = lease
  \/ ~lease.live /\ lease'.owner = a
  \/ lease.owner = a /\ ~lease'.live

\* Whether another actor holds the lease does not depend on a step that leaves it.
LEMMA OthersHold ==
  ASSUME NEW a \in Actors, Others(a), LeaseOf(a), NEW b \in Actors, b # a
  PROVE  Holds(b)' <=> Holds(b)
  BY DEF Others, LeaseOf, Holds

LEMMA LocalKeeps ==
  ASSUME IInv, NEW a \in Actors, Others(a), LeaseOf(a), TypeOK', ActorOK(a)',
         UNCHANGED <<state, row, gone, forgotten, hostVars>>,
         count'.lapses = 0 => count.lapses = 0,
         lease'.live => lease'.owner \in Actors,
         pc'[a] # "post",
         Holds(a)' /\ pc'[a] \in Posted \cup {"save_next"} =>
           \A b \in Actors : b # a /\ pc[b] = "post" => cur'[a] # cur[b]
  PROVE  IInv'
<1>1. UNCHANGED <<state, row, gone, forgotten, posted, delivered>>
  BY DEF hostVars
<1>2. StoresAgree' /\ (\A r \in Reminders : Recorded(state[r], r)') /\ (forgotten => gone)' /\ ForgetFinal'
  BY <1>1 DEF IInv, StoresAgree, Recorded, ForgetFinal
<1>3. ASSUME NEW b \in Actors, b # a PROVE ActorOK(b)'
  <2>1. Holds(b)' <=> Holds(b)
    BY <1>3, OthersHold
  <2>2. ActorOK(b)
    BY DEF IInv
  <2>3. /\ pc'[b] = pc[b] /\ fence'[b] = fence[b] /\ cur'[b] = cur[b]
        /\ copy'[b] = copy[b] /\ todo'[b] = todo[b]
    BY <1>3 DEF Others
  <2>4. HolderOK(b) => HolderOK(b)'
    BY <1>1, <2>3 DEF HolderOK
  <2>5. (PostOK(b) => PostOK(b)') /\ (UpsertOK(b) => UpsertOK(b)')
    BY <1>1, <2>3 DEF PostOK, UpsertOK
  <2> QED
    BY <1>1, <2>1, <2>2, <2>3, <2>4, <2>5 DEF ActorOK
<1>4. Distinct'
  <2> SUFFICES ASSUME NEW d \in Actors, NEW b \in Actors, d # b, pc'[b] = "post",
                      pc'[d] = "post" \/ (Holds(d)' /\ pc'[d] \in Posted \cup {"save_next"})
               PROVE  cur'[d] # cur'[b]
    BY DEF Distinct
  <2>1. b # a /\ pc[b] = "post" /\ cur'[b] = cur[b]
    BY DEF Others
  <2>2. CASE d = a
    BY <2>1, <2>2
  <2>3. CASE d # a
    <3>1. pc'[d] = pc[d] /\ cur'[d] = cur[d] /\ (Holds(d)' <=> Holds(d))
      BY <2>3, OthersHold DEF Others
    <3> QED
      BY <2>1, <3>1 DEF IInv, Distinct
  <2> QED
    BY <2>2, <2>3
<1> QED
  BY <1>2, <1>3, <1>4 DEF IInv

\* Both claims leave the caller holding the lease.
LEMMA ClaimGives ==
  ASSUME TypeOK, NEW a \in Actors, ClaimFenced(a) \/ ClaimUnfenced(a)
  PROVE  /\ lease' \in [owner: Actors \cup {Nobody}, live: BOOLEAN, fence: Nat]
         /\ lease'.owner \in Actors /\ LeaseOf(a) /\ Holds(a)'
         /\ fence' \in [Actors -> Nat] /\ \A b \in Actors : b # a => fence'[b] = fence[b]
<1>1. /\ lease \in [owner: Actors \cup {Nobody}, live: BOOLEAN, fence: Nat]
      /\ fence \in [Actors -> Nat] /\ lease.fence \in Nat
  BY DEF TypeOK
<1>2. PICK f \in Nat : /\ lease' = [owner |-> a, live |-> TRUE, fence |-> f]
                       /\ fence' = [fence EXCEPT ![a] = f]
  <2>1. CASE ClaimFenced(a)
    <3>1. lease.fence + 1 \in Nat
      BY <1>1
    <3> QED
      BY <2>1, <3>1 DEF ClaimFenced
  <2>2. CASE ClaimUnfenced(a)
    <3>1. lease' = [owner |-> a, live |-> TRUE, fence |-> lease.fence]
      BY <1>1, <2>2 DEF ClaimUnfenced
    <3> QED
      BY <1>1, <2>2, <3>1 DEF ClaimUnfenced
  <2> QED
    BY <2>1, <2>2
<1>3. ~lease.live
  BY DEF ClaimFenced, ClaimUnfenced
<1>4. /\ lease' \in [owner: Actors \cup {Nobody}, live: BOOLEAN, fence: Nat]
      /\ lease'.owner = a /\ lease'.live /\ lease'.fence = f
  BY <1>2
<1>5. /\ fence' \in [Actors -> Nat] /\ fence'[a] = f
      /\ \A b \in Actors : b # a => fence'[b] = fence[b]
  BY <1>1, <1>2
<1> QED
  BY <1>3, <1>4, <1>5 DEF LeaseOf, Holds

\* A call that begins: nothing is known of the reminder yet.
LEMMA BeginKeeps ==
  ASSUME IInv, NEW a \in Actors, ClaimFenced(a) \/ ClaimUnfenced(a),
         NEW label \in {"schedule", "transition", "intent", "list"}, Goto(a, label),
         cur' \in [Actors -> Reminders], \A b \in Actors : b # a => cur'[b] = cur[b],
         UNCHANGED <<state, row, gone, forgotten, hostVars, copy, todo>>,
         count' = count \/ count' = [count EXCEPT !.calls = @ + 1]
  PROVE  IInv'
<1>1. TypeOK
  BY DEF IInv
<1>2. /\ lease' \in [owner: Actors \cup {Nobody}, live: BOOLEAN, fence: Nat]
      /\ lease'.owner \in Actors /\ LeaseOf(a) /\ Holds(a)'
      /\ fence' \in [Actors -> Nat] /\ \A b \in Actors : b # a => fence'[b] = fence[b]
  BY <1>1, ClaimGives
<1>3. /\ pc' \in [Actors -> PcValues] /\ pc'[a] = label
      /\ \A b \in Actors : b # a => pc'[b] = pc[b]
  BY <1>1, GotoTyped DEF PcValues
<1>4. count' \in [calls: Nat, crashes: Nat, lapses: Nat, quiet: Nat] /\ count'.lapses = count.lapses
  BY <1>1 DEF TypeOK
<1>5. TypeOK'
  BY <1>1, <1>2, <1>3, <1>4, TypeNext DEF TypeOK, hostVars
<1>6. Others(a)
  BY <1>2, <1>3 DEF Others
<1>7. ActorOK(a)'
  BY <1>2, <1>3 DEF ActorOK, HolderOK, AtWork, Posted
<1> QED
  BY <1>2, <1>3, <1>4, <1>5, <1>6, <1>7, LocalKeeps DEF Posted

\* A call that begins keeps the invariant.
LEMMA StartsKeep ==
  ASSUME IInv, NEW a \in Actors,
         \/ \E r \in Reminders : StartSchedule(a, r) \/ StartTransition(a, r)
         \/ StartForget(a) \/ StartExecute(a)
  PROVE  IInv'
<1>1. cur \in [Actors -> Reminders]
  BY DEF IInv, TypeOK
<1>2. ASSUME NEW r \in Reminders, StartSchedule(a, r) \/ StartTransition(a, r) PROVE IInv'
  <2>1. cur' \in [Actors -> Reminders] /\ \A b \in Actors : b # a => cur'[b] = cur[b]
    BY <1>1, <1>2 DEF StartSchedule, StartTransition
  <2> QED
    BY <1>2, <2>1, BeginKeeps DEF StartSchedule, StartTransition, BeginCall
<1>3. CASE StartForget(a) \/ StartExecute(a)
  BY <1>1, <1>3, BeginKeeps DEF StartForget, StartExecute, BeginCall
<1> QED
  BY <1>2, <1>3

\* A call that ends.
LEMMA EndKeeps ==
  ASSUME IInv, NEW a \in Actors, EndCall(a), LeaseOf(a),
         lease' \in [owner: Actors \cup {Nobody}, live: BOOLEAN, fence: Nat],
         lease'.live => lease'.owner \in Actors,
         UNCHANGED <<state, row, gone, forgotten, hostVars>>,
         count' = count \/ count' = [count EXCEPT !.crashes = @ + 1]
  PROVE  IInv'
<1>1. TypeOK
  BY DEF IInv
<1>2. /\ pc' \in [Actors -> PcValues] /\ pc'[a] = "idle"
      /\ fence' \in [Actors -> Nat] /\ cur' \in [Actors -> Reminders]
      /\ copy' \in [Actors -> Delivery] /\ todo' \in [Actors -> SUBSET Reminders]
      /\ Others(a)
  BY <1>1, AbsentTyped DEF TypeOK, EndCall, Goto, PcValues, Others
<1>3. count' \in [calls: Nat, crashes: Nat, lapses: Nat, quiet: Nat] /\ count'.lapses = count.lapses
  BY <1>1 DEF TypeOK
<1>4. TypeOK'
  BY <1>1, <1>2, <1>3, TypeNext DEF TypeOK, hostVars
<1>5. ActorOK(a)'
  BY <1>2 DEF ActorOK, HolderOK, AtWork, Posted
<1> QED
  BY <1>2, <1>3, <1>4, <1>5, LocalKeeps DEF Posted

\* The release of a lease and a crash keep it.
LEMMA EndsKeep ==
  ASSUME IInv, NEW a \in Actors, Release(a) \/ Crash(a)
  PROVE  IInv'
<1>1. lease \in [owner: Actors \cup {Nobody}, live: BOOLEAN, fence: Nat] /\ (lease.live => lease.owner \in Actors)
  BY DEF IInv, TypeOK
<1>2. CASE Release(a)
  <2>1. /\ lease' \in [owner: Actors \cup {Nobody}, live: BOOLEAN, fence: Nat]
        /\ (lease'.live => lease'.owner \in Actors) /\ LeaseOf(a)
    BY <1>1, <1>2 DEF Release, LeaseOf
  <2> QED
    BY <1>2, <2>1, EndKeeps DEF Release
<1>3. CASE Crash(a)
  BY <1>1, <1>3, EndKeeps DEF Crash, LeaseOf
<1> QED
  BY <1>2, <1>3

\* A step that moves the call of a on and at most fills in its copy, its reminder and its list.
LEMMA WorkKeeps ==
  ASSUME IInv, NEW a \in Actors, NEW label \in PcValues \ {"post"}, Goto(a, label),
         NEW k \in Delivery, NEW r \in Reminders, NEW todos \in SUBSET Reminders,
         copy' = [copy EXCEPT ![a] = k], cur' = [cur EXCEPT ![a] = r],
         todo' = [todo EXCEPT ![a] = todos],
         UNCHANGED <<state, row, lease, gone, forgotten, hostVars, fence>>,
         count' = count \/ count' = [count EXCEPT !.quiet = @ + 1],
         pc[a] # "idle", label \notin {"intent", "scrub"},
         pc'[a] = label /\ copy'[a] = k /\ cur'[a] = r /\ todo'[a] = todos =>
           /\ Holds(a) => HolderOK(a)'
           /\ label = "upsert" => UpsertOK(a)',
         Holds(a) /\ label \in Posted \cup {"save_next"} =>
           \A b \in Actors : b # a /\ pc[b] = "post" => r # cur[b]
  PROVE  IInv'
<1>1. TypeOK /\ ActorOK(a)
  BY DEF IInv
<1>2. /\ pc' \in [Actors -> PcValues] /\ pc'[a] = label
      /\ \A b \in Actors : b # a => pc'[b] = pc[b]
  BY <1>1, GotoTyped
<1>3. /\ copy' \in [Actors -> Delivery] /\ cur' \in [Actors -> Reminders]
      /\ todo' \in [Actors -> SUBSET Reminders]
      /\ copy'[a] = k /\ cur'[a] = r /\ todo'[a] = todos
      /\ \A b \in Actors : b # a => copy'[b] = copy[b] /\ cur'[b] = cur[b] /\ todo'[b] = todo[b]
  BY <1>1 DEF TypeOK
<1>4. count' \in [calls: Nat, crashes: Nat, lapses: Nat, quiet: Nat] /\ count'.lapses = count.lapses
  BY <1>1 DEF TypeOK
<1>5. TypeOK'
  BY <1>1, <1>2, <1>3, <1>4, TypeNext DEF TypeOK, hostVars
<1>6. Others(a) /\ LeaseOf(a) /\ (Holds(a)' <=> Holds(a))
  BY <1>2, <1>3 DEF Others, LeaseOf, Holds
<1>7. ActorOK(a)'
  BY <1>1, <1>2, <1>3, <1>4, <1>6 DEF ActorOK
<1>8. lease'.live => lease'.owner \in Actors
  BY DEF IInv
<1> QED
  BY <1>2, <1>3, <1>4, <1>5, <1>6, <1>7, <1>8, LocalKeeps

\* The labels that no other call has to know of.
LEMMA QuietLabels ==
  ASSUME NEW label \in {"next", "release", "load", "check", "insert", "save_post"}
  PROVE  /\ label \in PcValues \ {"post"}
         /\ label \notin {"intent", "scrub", "upsert", "save_next"} \cup Posted
  BY DEF PcValues, Posted

\* What WorkKeeps asks of the parts that a step leaves alone.
LEMMA Unmoved ==
  ASSUME TypeOK, NEW a \in Actors
  PROVE  /\ copy = [copy EXCEPT ![a] = copy[a]] /\ copy[a] \in Delivery
         /\ cur = [cur EXCEPT ![a] = cur[a]] /\ cur[a] \in Reminders
         /\ todo = [todo EXCEPT ![a] = todo[a]] /\ todo[a] \in SUBSET Reminders
  BY DEF TypeOK

LEMMA ScheduleKeeps ==
  ASSUME IInv, NEW a \in Actors, ScheduleLoad(a)
  PROVE  IInv'
<1>1. TypeOK
  BY DEF IInv
<1> DEFINE fresh == ~gone /\ state[cur[a]].status = "absent"
           k == IF fresh THEN Scheduled ELSE copy[a]
           label == IF fresh THEN "insert" ELSE "release"
<1>2. /\ copy' = [copy EXCEPT ![a] = k] /\ Goto(a, label) /\ pc[a] = "schedule"
      /\ cur' = [cur EXCEPT ![a] = cur[a]] /\ todo' = [todo EXCEPT ![a] = todo[a]]
      /\ UNCHANGED <<state, row, lease, gone, forgotten, hostVars, fence, count>>
  BY <1>1, Unmoved DEF ScheduleLoad
<1>3. k \in Delivery /\ cur[a] \in Reminders /\ todo[a] \in SUBSET Reminders
  BY <1>1, Unmoved, AbsentTyped
<1>4. label \in PcValues \ {"post"} /\ label \notin {"intent", "scrub", "upsert", "save_next"} \cup Posted
  BY DEF PcValues, Posted
<1>5. ASSUME pc'[a] = label, copy'[a] = k, cur'[a] = cur[a] PROVE HolderOK(a)'
  BY <1>2, <1>5 DEF HolderOK, AtWork, Posted
<1> HIDE DEF k, label
<1> QED
  BY <1>2, <1>3, <1>4, <1>5, WorkKeeps

LEMMA TransitionKeeps ==
  ASSUME IInv, Restrained, NEW a \in Actors, TransitionLoad(a)
  PROVE  IInv'
<1>1. TypeOK
  BY DEF IInv
<1> DEFINE s == state[cur[a]]
<1>2. s \in Delivery /\ s.status \in Statuses /\ s.attempts \in Nat
  BY <1>1, Fields DEF Delivery
<1>3. PICK to \in HostTargets :
        IF <<s.status, to>> \in Allowed
        THEN copy' = [copy EXCEPT ![a] = Transitioned(s, to)] /\ Goto(a, "insert")
        ELSE UNCHANGED copy /\ Goto(a, "release")
  BY DEF TransitionLoad
<1> DEFINE moved == <<s.status, to>> \in Allowed
           k == IF moved THEN Transitioned(s, to) ELSE copy[a]
           label == IF moved THEN "insert" ELSE "release"
<1>4. to \in {"due", "failed", "cancelled", "expired"}
  BY ReminderAssumption DEF Restrained
<1>5. moved => /\ s.status \notin Terminal \cup {"absent"}
               /\ to = "due" => s.status \in DueStatuses
  BY <1>2, <1>4 DEF Allowed, DueStatuses, Terminal
<1>6. moved => /\ k \in Delivery /\ k.status = to /\ k.attempts = s.attempts
               /\ k.receipt = s.receipt
  <2>1. Transitioned(s, to) = [s EXCEPT !.status = to, !.attempts = s.attempts]
    BY <1>4 DEF Transitioned
  <2> QED
    BY <1>2, <1>4, <2>1 DEF Delivery, Statuses, DueStatuses, Terminal
<1>7. /\ copy' = [copy EXCEPT ![a] = k] /\ Goto(a, label) /\ pc[a] = "transition"
      /\ cur' = [cur EXCEPT ![a] = cur[a]] /\ todo' = [todo EXCEPT ![a] = todo[a]]
      /\ UNCHANGED <<state, row, lease, gone, forgotten, hostVars, fence, count>>
  BY <1>1, <1>3, Unmoved DEF TransitionLoad
<1>8. k \in Delivery /\ cur[a] \in Reminders /\ todo[a] \in SUBSET Reminders
  BY <1>1, <1>6, Unmoved
<1>9. label \in PcValues \ {"post"} /\ label \notin {"intent", "scrub", "upsert", "save_next"} \cup Posted
  BY DEF PcValues, Posted
<1>10. label = "insert" => moved
  OBVIOUS
<1>11. label \in {"insert", "release"}
  OBVIOUS
<1> HIDE DEF k, label, moved
<1>12. ASSUME pc'[a] = label, copy'[a] = k, cur'[a] = cur[a] PROVE HolderOK(a)'
  BY <1>4, <1>5, <1>6, <1>7, <1>10, <1>11, <1>12 DEF HolderOK, AtWork, Posted
<1> QED
  BY <1>7, <1>8, <1>9, <1>12, WorkKeeps

\* The listed rows are those of reminders that are due.
LEMMA ListKeeps ==
  ASSUME IInv, NEW a \in Actors, ListDue(a)
  PROVE  IInv'
<1>1. TypeOK
  BY DEF IInv
<1> DEFINE found == {r \in Reminders : DueVisible(row[r])}
<1>2. /\ copy' = [copy EXCEPT ![a] = copy[a]] /\ Goto(a, "next") /\ pc[a] = "list"
      /\ cur' = [cur EXCEPT ![a] = cur[a]] /\ todo' = [todo EXCEPT ![a] = found]
      /\ UNCHANGED <<state, row, lease, gone, forgotten, hostVars, fence, count>>
  BY <1>1, Unmoved DEF ListDue
<1>3. \A r \in found : r \in Reminders /\ state[r].status \in DueStatuses
  BY DEF IInv, StoresAgree, DueVisible
<1>4. copy[a] \in Delivery /\ cur[a] \in Reminders /\ found \in SUBSET Reminders
  BY <1>1, Unmoved
<1> HIDE DEF found
<1>5. ASSUME pc'[a] = "next", todo'[a] = found PROVE HolderOK(a)'
  BY <1>2, <1>3, <1>5 DEF HolderOK, AtWork, Posted
<1> QED
  BY <1>2, <1>4, <1>5, QuietLabels, WorkKeeps

LEMMA PickKeeps ==
  ASSUME IInv, NEW a \in Actors, PickNext(a)
  PROVE  IInv'
<1>1. TypeOK /\ ActorOK(a)
  BY DEF IInv
<1>2. /\ pc[a] = "next" /\ copy' = [copy EXCEPT ![a] = copy[a]]
      /\ UNCHANGED <<state, row, lease, gone, forgotten, hostVars, fence, count>>
  BY <1>1, Unmoved DEF PickNext
<1>3. copy[a] \in Delivery /\ cur[a] \in Reminders /\ todo[a] \in SUBSET Reminders
  BY <1>1, Unmoved
<1>4. CASE UNCHANGED <<cur, todo>> /\ Goto(a, "release")
  <2>1. cur' = [cur EXCEPT ![a] = cur[a]] /\ todo' = [todo EXCEPT ![a] = todo[a]]
    BY <1>1, <1>4, Unmoved
  <2>2. ASSUME pc'[a] = "release" PROVE HolderOK(a)'
    BY <2>2 DEF HolderOK, AtWork, Posted
  <2> QED
    BY <1>2, <1>3, <1>4, <2>1, <2>2, QuietLabels, WorkKeeps
<1>5. ASSUME NEW r \in todo[a], cur' = [cur EXCEPT ![a] = r],
             todo' = [todo EXCEPT ![a] = @ \ {r}], Goto(a, "load"), Holds(a)
      PROVE  IInv'
  <2>1. \A q \in todo[a] : state[q].status \in DueStatuses
    BY <1>1, <1>2, <1>5 DEF ActorOK, HolderOK
  <2> DEFINE left == todo[a] \ {r}
  <2>2. ASSUME pc'[a] = "load", cur'[a] = r, todo'[a] = left PROVE HolderOK(a)'
    BY <1>2, <2>1, <2>2 DEF HolderOK, AtWork, Posted
  <2>3. todo' = [todo EXCEPT ![a] = left] /\ r \in Reminders /\ left \in SUBSET Reminders
    BY <1>3, <1>5
  <2> HIDE DEF left
  <2>4. /\ "load" \in PcValues \ {"post"}
        /\ "load" \notin {"intent", "scrub", "upsert", "save_next"} \cup Posted
    BY QuietLabels
  <2> QED
    BY <1>2, <1>3, <1>5, <2>2, <2>3, <2>4, WorkKeeps
<1> QED
  BY <1>4, <1>5 DEF PickNext

\* A reminder that is due is not at anyone's webhook.
LEMMA DueNotPosting ==
  ASSUME IInv, NEW r \in Reminders, state[r].status \in DueStatuses,
         NEW b \in Actors, pc[b] = "post"
  PROVE  r # cur[b]
<1>1. PostOK(b)
  BY DEF IInv, ActorOK
<1> QED
  BY <1>1 DEF PostOK

LEMMA LoadKeeps ==
  ASSUME IInv, NEW a \in Actors, Load(a)
  PROVE  IInv'
<1>1. TypeOK /\ ActorOK(a)
  BY DEF IInv
<1> DEFINE s == state[cur[a]]
<1>2. /\ pc[a] = "load" /\ cur' = [cur EXCEPT ![a] = cur[a]]
      /\ todo' = [todo EXCEPT ![a] = todo[a]]
      /\ UNCHANGED <<state, row, lease, gone, forgotten, hostVars, fence, count>>
  BY <1>1, Unmoved DEF Load
<1>3. /\ copy[a] \in Delivery /\ cur[a] \in Reminders /\ todo[a] \in SUBSET Reminders
      /\ s \in Delivery /\ s.attempts \in Nat /\ s.receipt \in BOOLEAN
  BY <1>1, Unmoved, Fields
<1>4. Holds(a) => /\ s.status \in DueStatuses /\ cur[a] \notin todo[a]
                  /\ \A r \in todo[a] : state[r].status \in DueStatuses
  BY <1>1, <1>2 DEF ActorOK, HolderOK, AtWork
<1>5. \A q \in DueStatuses : q \notin Terminal \cup {"absent", "dispatched"}
  BY DEF DueStatuses, Terminal
<1>6. Recorded(s, cur[a])
  BY <1>3 DEF IInv
<1>7. CASE s.status \in Terminal /\ copy' = [copy EXCEPT ![a] = s] /\ Goto(a, "upsert")
  <2>1. ~Holds(a)
    BY <1>4, <1>5, <1>7
  <2>2. ASSUME copy'[a] = s, cur'[a] = cur[a] PROVE UpsertOK(a)'
    BY <1>2, <1>7, <2>2 DEF UpsertOK
  <2>3. "upsert" \in PcValues \ {"post"} /\ "upsert" \notin {"intent", "scrub", "save_next"} \cup Posted
    BY DEF PcValues, Posted
  <2> HIDE DEF s
  <2> QED
    BY <1>2, <1>3, <1>7, <2>1, <2>2, <2>3, WorkKeeps
<1>8. CASE UNCHANGED copy /\ Goto(a, "next")
  <2>1. copy' = [copy EXCEPT ![a] = copy[a]]
    BY <1>1, <1>8, Unmoved
  <2>2. ASSUME Holds(a), pc'[a] = "next", todo'[a] = todo[a] PROVE HolderOK(a)'
    BY <1>2, <1>4, <2>2 DEF HolderOK, AtWork, Posted
  <2>3. "next" \in PcValues \ {"post"} /\ "next" \notin {"intent", "scrub", "upsert", "save_next"} \cup Posted
    BY QuietLabels
  <2> QED
    BY <1>2, <1>3, <1>8, <2>1, <2>2, <2>3, WorkKeeps
<1>9. CASE /\ s.receipt /\ copy' = [copy EXCEPT ![a] = Acknowledged(s)] /\ Goto(a, "save_next")
  <2> DEFINE k == Acknowledged(s)
  <2>1. k \in Delivery
    BY <1>3 DEF Acknowledged, Delivery, Statuses, DueStatuses, Terminal
  <2>2. Holds(a) => k = s
    BY <1>3, <1>4, <1>5 DEF Acknowledged, Delivery
  <2> HIDE DEF k
  <2>3. ASSUME Holds(a), pc'[a] = "save_next", copy'[a] = k, cur'[a] = cur[a], todo'[a] = todo[a]
        PROVE  HolderOK(a)'
    BY <1>2, <1>4, <1>5, <1>6, <2>2, <2>3 DEF HolderOK, AtWork, Posted, Recorded, hostVars
  <2>4. Holds(a) => \A b \in Actors : b # a /\ pc[b] = "post" => cur[a] # cur[b]
    BY <1>3, <1>4, DueNotPosting
  <2>5. "save_next" \in PcValues \ {"post"} /\ "save_next" \notin {"intent", "scrub", "upsert"}
    BY DEF PcValues
  <2>6. copy' = [copy EXCEPT ![a] = k] /\ Goto(a, "save_next")
    BY <1>9 DEF k
  <2>7. cur[a] \in Reminders /\ todo[a] \in SUBSET Reminders
    BY <1>3
  <2> HIDE DEF s
  <2> QED
    BY <1>2, <2>7, <2>1, <2>3, <2>4, <2>5, <2>6, WorkKeeps
<1>10. CASE ~s.receipt /\ copy' = [copy EXCEPT ![a] = s] /\ Goto(a, "check")
  <2>0. PICK k \in Delivery : k = s
    BY <1>3
  <2>1. ASSUME Holds(a), pc'[a] = "check", copy'[a] = k, cur'[a] = cur[a], todo'[a] = todo[a]
        PROVE  HolderOK(a)'
    BY <1>2, <1>4, <1>5, <1>10, <2>0, <2>1 DEF HolderOK, AtWork, Posted
  <2>2. "check" \in PcValues \ {"post"} /\ "check" \notin {"intent", "scrub", "upsert", "save_next"} \cup Posted
    BY QuietLabels
  <2>3. copy' = [copy EXCEPT ![a] = k] /\ Goto(a, "check")
    BY <1>10, <2>0
  <2>4. cur[a] \in Reminders /\ todo[a] \in SUBSET Reminders
    BY <1>3
  <2> HIDE DEF s
  <2> QED
    BY <1>2, <2>4, <2>1, <2>2, <2>3, WorkKeeps
<1> QED
  BY <1>7, <1>8, <1>9, <1>10 DEF Load

\* The checks before a dispatch close the reminder, put it off or count an attempt.
LEMMA CheckKeeps ==
  ASSUME IInv, NEW a \in Actors, Check(a)
  PROVE  IInv'
<1>1. TypeOK /\ ActorOK(a)
  BY DEF IInv
<1> DEFINE s == state[cur[a]]
           c == copy[a]
<1>2. /\ pc[a] = "check" /\ cur' = [cur EXCEPT ![a] = cur[a]]
      /\ todo' = [todo EXCEPT ![a] = todo[a]]
      /\ UNCHANGED <<state, row, lease, gone, forgotten, hostVars, fence>>
  BY <1>1, Unmoved DEF Check
<1>3. /\ c \in Delivery /\ cur[a] \in Reminders /\ todo[a] \in SUBSET Reminders
      /\ s \in Delivery /\ s.attempts \in Nat /\ c.attempts \in Nat
  BY <1>1, Unmoved, Fields
<1>4. Holds(a) => /\ s.status \in DueStatuses /\ cur[a] \notin todo[a]
                  /\ \A r \in todo[a] : state[r].status \in DueStatuses
                  /\ c.status = s.status /\ c.attempts = s.attempts /\ ~c.receipt
  BY <1>1, <1>2 DEF ActorOK, HolderOK, AtWork
<1>5. \A q \in DueStatuses : q \notin Terminal \cup {"absent", "dispatched"}
  BY DEF DueStatuses, Terminal
<1>6. Recorded(s, cur[a])
  BY <1>3 DEF IInv
<1>7. ASSUME NEW k \in Delivery, copy' = [copy EXCEPT ![a] = k], Goto(a, "save_next"),
             k.attempts = c.attempts, k.receipt = c.receipt,
             k.status = c.status \/ k.status \in {"cancelled", "expired"},
             count' = count \/ count' = [count EXCEPT !.quiet = @ + 1]
      PROVE  IInv'
  <2>1. ASSUME Holds(a), pc'[a] = "save_next", copy'[a] = k, cur'[a] = cur[a], todo'[a] = todo[a]
        PROVE  HolderOK(a)'
    <3>1. /\ s.status \in DueStatuses /\ k.attempts = s.attempts /\ ~k.receipt
          /\ k.status \in DueStatuses \cup {"cancelled", "expired"}
          /\ k.status \notin {"absent", "completed"}
          /\ k.attempts <= MaxRetries
      BY <1>4, <1>6, <1>7, <2>1 DEF Recorded, DueStatuses
    <3> HIDE DEF c
    <3> QED
      BY <1>2, <1>4, <1>5, <2>1, <3>1 DEF HolderOK, AtWork, Posted
  <2>2. Holds(a) => \A b \in Actors : b # a /\ pc[b] = "post" => cur[a] # cur[b]
    BY <1>3, <1>4, DueNotPosting
  <2>3. "save_next" \in PcValues \ {"post"} /\ "save_next" \notin {"intent", "scrub", "upsert"}
    BY DEF PcValues
  <2> QED
    BY <1>2, <1>3, <1>7, <2>1, <2>2, <2>3, WorkKeeps
<1>8. ASSUME NEW to \in {"cancelled", "expired"}, copy' = [copy EXCEPT ![a].status = to],
             Goto(a, "save_next"), count' = count
      PROVE  IInv'
  <2>1. /\ [c EXCEPT !.status = to] \in Delivery /\ copy' = [copy EXCEPT ![a] = [c EXCEPT !.status = to]]
        /\ [c EXCEPT !.status = to].attempts = c.attempts /\ [c EXCEPT !.status = to].receipt = c.receipt
        /\ [c EXCEPT !.status = to].status = to
    BY <1>3, <1>8 DEF Delivery, Statuses, Terminal
  <2> QED
    BY <1>7, <1>8, <2>1
<1>9. ASSUME copy' = [copy EXCEPT ![a].due = "later"], Goto(a, "save_next"),
             count' = [count EXCEPT !.quiet = @ + 1]
      PROVE  IInv'
  <2>1. /\ [c EXCEPT !.due = "later"] \in Delivery /\ copy' = [copy EXCEPT ![a] = [c EXCEPT !.due = "later"]]
        /\ [c EXCEPT !.due = "later"].attempts = c.attempts
        /\ [c EXCEPT !.due = "later"].receipt = c.receipt
        /\ [c EXCEPT !.due = "later"].status = c.status
    BY <1>3, <1>9 DEF Delivery
  <2> QED
    BY <1>7, <1>9, <2>1
<1>10. ASSUME copy' = [copy EXCEPT ![a] = Started(c)], Goto(a, "save_post"), count' = count
       PROVE  IInv'
  <2> DEFINE k == Started(c)
  <2>1. k \in Delivery
    <3>1. c.attempts + 1 \in Nat /\ "dispatched" \in Statuses
      BY <1>3 DEF Statuses
    <3>2. [c EXCEPT !.status = "dispatched", !.attempts = c.attempts + 1] \in Delivery
      BY <1>3, <3>1 DEF Delivery
    <3>3. Transitioned(c, "dispatched") = [c EXCEPT !.status = "dispatched", !.attempts = c.attempts + 1]
      BY DEF Transitioned
    <3> QED
      BY <1>3, <3>2, <3>3 DEF Started
  <2>2. Holds(a) => k.status = "dispatched" /\ k.attempts = s.attempts + 1 /\ ~k.receipt
    BY <1>3, <1>4, <1>5 DEF Started, Transitioned, Delivery
  <2> HIDE DEF k
  <2>3. ASSUME Holds(a), pc'[a] = "save_post", copy'[a] = k, cur'[a] = cur[a], todo'[a] = todo[a]
        PROVE  HolderOK(a)'
    BY <1>2, <1>4, <1>5, <2>2, <2>3 DEF HolderOK, AtWork, Posted
  <2>4. "save_post" \in PcValues \ {"post"} /\ "save_post" \notin {"intent", "scrub", "upsert", "save_next"} \cup Posted
    BY QuietLabels
  <2>5. copy' = [copy EXCEPT ![a] = k]
    BY <1>10 DEF k
  <2> QED
    BY SMTT(15), ZenonT(30), <1>2, <1>3, <1>10, <2>1, <2>3, <2>4, <2>5, WorkKeeps
<1> QED
  BY <1>8, <1>9, <1>10 DEF Check

\* What the host answered, or that the lease is lost: the copy is filled in.
LEMMA OutcomeKeeps ==
  ASSUME IInv, NEW a \in Actors, Outcome(a)
  PROVE  IInv'
<1>1. TypeOK /\ ActorOK(a)
  BY DEF IInv
<1> DEFINE s == state[cur[a]]
           c == copy[a]
<1>2. /\ pc[a] \in {"posted_ack", "posted_error"} /\ cur' = [cur EXCEPT ![a] = cur[a]]
      /\ todo' = [todo EXCEPT ![a] = todo[a]]
      /\ UNCHANGED <<state, row, lease, gone, forgotten, hostVars, fence, count>>
  BY <1>1, Unmoved DEF Outcome
<1>3. /\ c \in Delivery /\ cur[a] \in Reminders /\ todo[a] \in SUBSET Reminders
      /\ s \in Delivery /\ s.attempts \in Nat /\ c.attempts \in Nat
  BY <1>1, Unmoved, Fields
<1>4. Holds(a) => /\ s.status = "dispatched" /\ cur[a] \notin todo[a]
                  /\ \A r \in todo[a] : state[r].status \in DueStatuses
                  /\ c.status = "dispatched" /\ c.attempts = s.attempts /\ ~c.receipt
                  /\ pc[a] = "posted_ack" => cur[a] \in delivered
  BY <1>1, <1>2 DEF ActorOK, HolderOK, AtWork, Posted
<1>5. Holds(a) => \A b \in Actors : b # a /\ pc[b] = "post" => cur[a] # cur[b]
  BY <1>2 DEF IInv, Distinct, Posted
<1>6. CASE ~Holds(a) /\ UNCHANGED copy /\ Goto(a, "release")
  <2>1. copy' = [copy EXCEPT ![a] = copy[a]] /\ cur[a] \in Reminders /\ todo[a] \in SUBSET Reminders
    BY <1>1, <1>3, <1>6, Unmoved
  <2>2. "release" \in PcValues \ {"post"} /\ "release" \notin {"intent", "scrub", "upsert", "save_next"} \cup Posted
    BY QuietLabels
  <2> QED
    BY <1>2, <1>3, <1>6, <2>1, <2>2, WorkKeeps
<1>7. ASSUME Holds(a), pc[a] = "posted_ack", copy' = [copy EXCEPT ![a].receipt = TRUE], Goto(a, "save_ack")
      PROVE  IInv'
  <2>1. PICK k \in Delivery : k = [c EXCEPT !.receipt = TRUE]
    BY <1>3 DEF Delivery
  <2>2. k.status = c.status /\ k.attempts = c.attempts
    BY <1>3, <2>1 DEF Delivery
  <2>3. ASSUME pc'[a] = "save_ack", copy'[a] = k, cur'[a] = cur[a], todo'[a] = todo[a]
        PROVE  HolderOK(a)'
    BY <1>2, <1>4, <1>7, <2>2, <2>3 DEF HolderOK, AtWork, Posted, hostVars
  <2>4. "save_ack" \in PcValues \ {"post"} /\ "save_ack" \notin {"intent", "scrub", "upsert"}
    BY DEF PcValues
  <2>5. copy' = [copy EXCEPT ![a] = k] /\ cur[a] \in Reminders /\ todo[a] \in SUBSET Reminders
    BY <1>3, <1>7, <2>1
  <2>6. Holds(a) /\ Goto(a, "save_ack") /\ pc[a] # "idle"
    BY <1>7
  <2> HIDE DEF s, c
  <2> QED
    BY <1>2, <1>5, <2>3, <2>4, <2>5, <2>6, WorkKeeps
<1>8. ASSUME Holds(a), NEW k \in Delivery, copy' = [copy EXCEPT ![a] = k], Goto(a, "save_next"),
             k.attempts = c.attempts, k.receipt = c.receipt,
             \/ k.status = "retry_scheduled" /\ c.attempts <= MaxRetries
             \/ k.status = "expired"
      PROVE  IInv'
  <2>1. ASSUME pc'[a] = "save_next", copy'[a] = k, cur'[a] = cur[a], todo'[a] = todo[a]
        PROVE  HolderOK(a)'
    <3>1. /\ s.status = "dispatched" /\ k.attempts = s.attempts /\ ~k.receipt
          /\ k.status \in DueStatuses \cup {"cancelled", "expired", "completed"}
          /\ k.status \notin {"absent", "completed"}
          /\ k.status \in DueStatuses => k.attempts <= MaxRetries
      BY <1>4, <1>8 DEF DueStatuses
    <3> HIDE DEF c
    <3> QED
      BY <1>2, <1>4, <1>8, <2>1, <3>1 DEF HolderOK, AtWork, Posted
  <2>2. "save_next" \in PcValues \ {"post"} /\ "save_next" \notin {"intent", "scrub", "upsert"}
    BY DEF PcValues
  <2>3. cur[a] \in Reminders /\ todo[a] \in SUBSET Reminders
    BY <1>3
  <2> HIDE DEF s, c
  <2> QED
    BY <1>2, <1>5, <1>8, <2>1, <2>2, <2>3, WorkKeeps
<1> HIDE DEF s
<1>9. ASSUME Holds(a), c.attempts <= MaxRetries, Goto(a, "save_next"),
             copy' = [copy EXCEPT ![a].status = "retry_scheduled", ![a].due = "later"]
      PROVE  IInv'
  <2>1. PICK k \in Delivery : k = [c EXCEPT !.status = "retry_scheduled", !.due = "later"]
    BY <1>3 DEF Delivery, Statuses, DueStatuses
  <2>2. k.status = "retry_scheduled" /\ k.attempts = c.attempts /\ k.receipt = c.receipt
    BY <1>3, <2>1 DEF Delivery
  <2>3. copy' = [copy EXCEPT ![a] = k]
    BY <1>1, <1>9, <2>1 DEF TypeOK
  <2> HIDE DEF s, c
  <2> QED
    BY <1>8, <1>9, <2>2, <2>3
<1>10. ASSUME Holds(a), Goto(a, "save_next"), copy' = [copy EXCEPT ![a].status = "expired"]
       PROVE  IInv'
  <2>1. PICK k \in Delivery : k = [c EXCEPT !.status = "expired"]
    BY <1>3 DEF Delivery, Statuses, Terminal
  <2>2. k.status = "expired" /\ k.attempts = c.attempts /\ k.receipt = c.receipt
    BY <1>3, <2>1 DEF Delivery
  <2>3. copy' = [copy EXCEPT ![a] = k]
    BY <1>10, <2>1
  <2> QED
    BY <1>8, <1>10, <2>2, <2>3
<1> QED
  BY <1>6, <1>7, <1>9, <1>10 DEF Outcome

-----------------------------------------------------------------------------
(* Commits.                                                                *)

\* A commit that finds the lease lost changes nothing but the call.
LEMMA LostKeeps ==
  ASSUME IInv, NEW a \in Actors, ~Holds(a), Goto(a, "release"), pc[a] # "idle",
         NEW k \in Delivery, copy' = [copy EXCEPT ![a] = k],
         UNCHANGED <<state, row, lease, gone, forgotten, hostVars, fence, cur, todo, count>>
  PROVE  IInv'
<1>1. /\ cur' = [cur EXCEPT ![a] = cur[a]] /\ cur[a] \in Reminders
      /\ todo' = [todo EXCEPT ![a] = todo[a]] /\ todo[a] \in SUBSET Reminders
  BY Unmoved DEF IInv
<1>2. "release" \in PcValues \ {"post"} /\ "release" \notin {"intent", "scrub", "upsert", "save_next"} \cup Posted
  BY QuietLabels
<1> QED
  BY <1>1, <1>2, WorkKeeps

\* What replacing the record of a's reminder by k and going to label means to the calls that
\* are at the webhook for it.
Undisturbed(a, k, label) ==
  \A b \in Actors : b # a /\ pc[b] = "post" /\ cur[b] = cur[a] =>
    /\ label \notin {"post", "save_next"} \cup Posted
    /\ k.status \notin DueStatuses /\ k.attempts = state[cur[a]].attempts
    /\ k.receipt = state[cur[a]].receipt

\* The holder replaces the record of its reminder, which is not closed, by its copy k.  Any
\* call that is at the webhook for the same reminder still has its attempt on record, and
\* there is none when the holder itself is on its way to the webhook or back.
LEMMA CommitKeeps ==
  ASSUME IInv, NEW a \in Actors, Holds(a), NEW k \in Delivery, k = copy[a],
         NEW label \in PcValues \ {"intent", "scrub", "upsert"}, Goto(a, label),
         NEW m \in Delivery, copy' = [copy EXCEPT ![a] = m],
         state' = [state EXCEPT ![cur[a]] = k], row' = [row EXCEPT ![cur[a]] = RowOf(k)],
         UNCHANGED <<lease, gone, forgotten, hostVars, fence, cur, todo, count>>,
         state[cur[a]].status \notin Terminal, Recorded(k, cur[a]), k.status # "absent",
         state[cur[a]].status = "absent" => ~gone,
         Undisturbed(a, k, label),
         pc'[a] = label /\ copy'[a] = m /\ state'[cur[a]] = k =>
           HolderOK(a)' /\ (label = "post" => PostOK(a)')
  PROVE  IInv'
<1>1. TypeOK /\ ActorOK(a)
  BY DEF IInv
<1>2. /\ pc' \in [Actors -> PcValues] /\ pc'[a] = label
      /\ \A b \in Actors : b # a => pc'[b] = pc[b]
  BY <1>1, GotoTyped
<1>3. /\ cur[a] \in Reminders /\ state' \in [Reminders -> Delivery] /\ state'[cur[a]] = k
      /\ row' \in [Reminders -> Row] /\ row'[cur[a]] = RowOf(k)
      /\ \A r \in Reminders : r # cur[a] => state'[r] = state[r] /\ row'[r] = row[r]
  BY <1>1, RowTyped DEF TypeOK
<1>4. /\ copy' \in [Actors -> Delivery] /\ copy'[a] = m
      /\ \A b \in Actors : b # a => copy'[b] = copy[b]
  BY <1>1 DEF TypeOK
<1>5. TypeOK'
  BY <1>1, <1>2, <1>3, <1>4, TypeNext DEF TypeOK, hostVars
<1>6. StoresAgree'
  <2>1. RowOf(k).status = k.status /\ RowOf(k).attempts = k.attempts
    BY RowTyped
  <2> QED
    BY <1>3, <2>1 DEF IInv, StoresAgree
<1>7. UNCHANGED <<posted, delivered, lease, gone, forgotten, fence, cur, todo, count>>
  BY DEF hostVars
<1>8. ASSUME NEW r \in Reminders PROVE Recorded(state[r], r)'
  <2>1. Recorded(state'[r], r)
    BY <1>3 DEF IInv
  <2> QED
    BY <1>7, <2>1 DEF Recorded
<1>9. Holds(a)' /\ \A b \in Actors : b # a => ~Holds(b) /\ ~Holds(b)'
  BY <1>7 DEF Holds
<1>10. ASSUME NEW b \in Actors PROVE ActorOK(b)'
  <2>1. CASE b = a
    BY <1>1, <1>2, <1>3, <1>4, <1>9, <2>1 DEF ActorOK
  <2>2. CASE b # a
    <3>1. ActorOK(b) /\ ~Holds(b) /\ ~Holds(b)' /\ pc'[b] = pc[b] /\ copy'[b] = copy[b] /\ cur[b] \in Reminders
      BY <1>1, <1>2, <1>4, <1>9, <2>2 DEF IInv, TypeOK
    <3>2. ASSUME pc[b] = "post" PROVE PostOK(b)'
      <4>1. PostOK(b)
        BY <3>1, <3>2 DEF ActorOK
      <4>2. CASE cur[b] = cur[a]
        <5>1. /\ state'[cur[b]] = k /\ k.status \notin DueStatuses /\ k.status # "absent"
              /\ k.attempts = state[cur[b]].attempts /\ k.receipt = state[cur[b]].receipt
          BY <1>3, <2>2, <3>2, <4>2 DEF Undisturbed
        <5> QED
          BY <1>7, <4>1, <5>1 DEF PostOK
      <4>3. CASE cur[b] # cur[a]
        <5>1. state'[cur[b]] = state[cur[b]]
          BY <1>3, <3>1, <4>3
        <5> QED
          BY <1>7, <4>1, <5>1 DEF PostOK
      <4> QED
        BY <4>2, <4>3
    <3>3. ASSUME pc[b] = "upsert" PROVE UpsertOK(b)'
      <4>1. UpsertOK(b)
        BY <3>1, <3>3 DEF ActorOK
      <4>2. cur[b] # cur[a]
        BY <4>1 DEF UpsertOK
      <4>3. state'[cur[b]] = state[cur[b]]
        BY <1>3, <3>1, <4>2
      <4> QED
        BY <1>7, <3>1, <4>1, <4>3 DEF UpsertOK
    <3> QED
      BY <1>7, <3>1, <3>2, <3>3 DEF ActorOK
  <2> QED
    BY <2>1, <2>2
<1>11. Distinct'
  <2> SUFFICES ASSUME NEW d \in Actors, NEW b \in Actors, d # b, pc'[b] = "post",
                      pc'[d] = "post" \/ (Holds(d)' /\ pc'[d] \in Posted \cup {"save_next"})
               PROVE  cur'[d] # cur'[b]
    BY DEF Distinct
  <2>1. CASE d = a
    BY <1>2, <1>7, <2>1 DEF Undisturbed
  <2>2. CASE d # a
    <3>1. pc[d] = "post"
      BY <1>2, <1>9, <2>2
    <3>2. CASE b = a
      BY <1>2, <1>7, <2>2, <3>1, <3>2 DEF Undisturbed
    <3>3. CASE b # a
      BY <1>2, <1>7, <2>2, <3>1, <3>3 DEF IInv, Distinct
    <3> QED
      BY <3>2, <3>3
  <2> QED
    BY <2>1, <2>2
<1>12. ForgetFinal'
  <2>1. ~(forgotten /\ count.lapses = 0)
    BY <1>3 DEF IInv, ForgetFinal
  <2> QED
    BY <1>7, <2>1 DEF ForgetFinal
<1> QED
  BY <1>5, <1>6, <1>7, <1>8, <1>10, <1>11, <1>12 DEF IInv

\* schedule and transition save their record.
LEMMA InsertKeeps ==
  ASSUME IInv, NEW a \in Actors, Save(a, "insert", "release")
  PROVE  IInv'
<1>1. TypeOK /\ ActorOK(a)
  BY DEF IInv
<1> DEFINE s == state[cur[a]]
<1>2. PICK k \in Delivery : k = copy[a]
  BY <1>1, Fields
<1>3. /\ cur[a] \in Reminders /\ s \in Delivery /\ s.attempts \in Nat /\ s.receipt \in BOOLEAN
      /\ copy' = [copy EXCEPT ![a] = k] /\ k.attempts \in Nat
  BY <1>1, <1>2, Fields, Unmoved DEF Save, localVars
<1>4. /\ pc[a] = "insert"
      /\ UNCHANGED <<lease, gone, forgotten, hostVars, fence, cur, todo, count>>
  BY DEF Save, localVars
<1>5. CASE ~Holds(a)
  BY <1>3, <1>4, <1>5, LostKeeps DEF Save, Commit
<1>6. CASE Holds(a)
  <2>1. /\ state' = [state EXCEPT ![cur[a]] = k] /\ row' = [row EXCEPT ![cur[a]] = RowOf(k)]
        /\ Goto(a, "release")
    BY <1>2, <1>6 DEF Save, Commit
  <2>2. \/ s.status = "absent" /\ ~gone /\ k = Scheduled
        \/ /\ s.status \notin Terminal \cup {"absent"}
           /\ k.attempts = s.attempts /\ k.receipt = s.receipt
           /\ k.status \in {"due", "cancelled", "expired", "failed"}
           /\ k.status = "due" => s.status \in DueStatuses
    BY <1>1, <1>2, <1>4, <1>6 DEF ActorOK, HolderOK
  <2>3. Recorded(s, cur[a])
    BY <1>3 DEF IInv
  <2>4. s.status \notin Terminal /\ k.status # "absent" /\ (s.status = "absent" => ~gone)
    BY <2>2, AbsentTyped DEF Terminal
  <2>5. Recorded(k, cur[a])
    <3>1. CASE s.status = "absent" /\ k = Scheduled
      <4>1. posted[cur[a]] \in Nat /\ MaxRetries \in Nat
        BY <1>1, <1>3, ReminderAssumption DEF TypeOK
      <4> QED
        BY <2>3, <3>1, <4>1, AbsentTyped DEF Recorded
    <3>2. CASE s.status # "absent"
      BY <2>2, <2>3, <3>2 DEF Recorded, DueStatuses
    <3> QED
      BY <2>2, <3>1, <3>2
  <2>6. ASSUME NEW b \in Actors, b # a, pc[b] = "post", cur[b] = cur[a]
        PROVE  /\ "release" \notin {"post", "save_next"} \cup Posted
               /\ k.status \notin DueStatuses /\ k.attempts = s.attempts
               /\ k.receipt = s.receipt
    <3>1. PostOK(b)
      BY <2>6 DEF IInv, ActorOK
    <3>2. s.status \notin DueStatuses \cup {"absent"}
      BY <2>6, <3>1 DEF PostOK
    <3> QED
      BY <2>2, <3>2 DEF DueStatuses, Posted
  <2>7. ASSUME pc'[a] = "release" PROVE HolderOK(a)'
    BY <2>7 DEF HolderOK, AtWork, Posted
  <2>8. PICK label \in PcValues \ {"intent", "scrub", "upsert"} : label = "release"
    BY DEF PcValues
  <2>9. pc'[a] = label /\ copy'[a] = k /\ state'[cur[a]] = k =>
          HolderOK(a)' /\ (label = "post" => PostOK(a)')
    BY <2>7, <2>8
  <2>10. /\ state[cur[a]].status \notin Terminal /\ (state[cur[a]].status = "absent" => ~gone)
         /\ Undisturbed(a, k, label)
    BY <2>4, <2>6, <2>8 DEF Undisturbed
  <2>11. k.status # "absent" /\ copy' = [copy EXCEPT ![a] = k]
    BY <1>3, <2>4
  <2>12. Goto(a, label) /\ state' = [state EXCEPT ![cur[a]] = k] /\ row' = [row EXCEPT ![cur[a]] = RowOf(k)]
    BY <2>1, <2>8
  <2> HIDE DEF s
  <2> QED
    BY <1>2, <1>4, <1>6, <2>5, <2>8, <2>9, <2>10, <2>11, <2>12, CommitKeeps
<1> QED
  BY <1>5, <1>6

\* A worker closes a reminder or puts it off.
LEMMA SaveNextKeeps ==
  ASSUME IInv, NEW a \in Actors, Save(a, "save_next", "next")
  PROVE  IInv'
<1>1. TypeOK /\ ActorOK(a)
  BY DEF IInv
<1> DEFINE s == state[cur[a]]
<1>2. PICK k \in Delivery : k = copy[a]
  BY <1>1, Fields
<1>3. /\ cur[a] \in Reminders /\ s \in Delivery /\ s.attempts \in Nat
      /\ copy' = [copy EXCEPT ![a] = k] /\ k.attempts \in Nat
      /\ state \in [Reminders -> Delivery] /\ todo[a] \in SUBSET Reminders
  BY <1>1, <1>2, Fields, Unmoved DEF Save, localVars, TypeOK
<1>4. /\ pc[a] = "save_next"
      /\ UNCHANGED <<lease, gone, forgotten, hostVars, fence, cur, todo, count>>
  BY DEF Save, localVars
<1>5. CASE ~Holds(a)
  BY <1>3, <1>4, <1>5, LostKeeps DEF Save, Commit
<1>6. CASE Holds(a)
  <2>1. /\ state' = [state EXCEPT ![cur[a]] = k] /\ row' = [row EXCEPT ![cur[a]] = RowOf(k)]
        /\ Goto(a, "next")
    BY <1>2, <1>6 DEF Save, Commit
  <2>2. /\ s.status \in DueStatuses \cup {"dispatched"} /\ k.attempts = s.attempts
        /\ k.status \in DueStatuses \cup {"cancelled", "expired", "completed"}
        /\ k.status \in DueStatuses => k.attempts <= MaxRetries
        /\ k.receipt \/ k.status = "completed" => cur[a] \in delivered
        /\ \A r \in todo[a] : state[r].status \in DueStatuses
        /\ cur[a] \notin todo[a]
    BY <1>1, <1>2, <1>4, <1>6 DEF ActorOK, HolderOK, AtWork
  <2>3. Recorded(s, cur[a])
    BY <1>3 DEF IInv
  <2>4. s.status \notin Terminal /\ k.status # "absent" /\ s.status # "absent"
    BY <2>2 DEF Terminal, DueStatuses
  <2>5. Recorded(k, cur[a])
    BY <2>2, <2>3, <2>4 DEF Recorded
  <2>6. ASSUME NEW b \in Actors, b # a, pc[b] = "post" PROVE cur[b] # cur[a]
    BY <1>4, <1>6, <2>6 DEF IInv, Distinct
  <2>7. ASSUME pc'[a] = "next" PROVE HolderOK(a)'
    <3>1. \A r \in todo'[a] : state'[r].status \in DueStatuses
      BY <1>3, <1>4, <2>1, <2>2
    <3> QED
      BY <2>7, <3>1 DEF HolderOK, AtWork, Posted
  <2>8. PICK label \in PcValues \ {"intent", "scrub", "upsert"} : label = "next"
    BY DEF PcValues
  <2>9. pc'[a] = label /\ copy'[a] = k /\ state'[cur[a]] = k =>
          HolderOK(a)' /\ (label = "post" => PostOK(a)')
    BY <2>7, <2>8
  <2>10. /\ state[cur[a]].status \notin Terminal /\ (state[cur[a]].status = "absent" => ~gone)
         /\ Undisturbed(a, k, label)
    BY <2>4, <2>6, <2>8 DEF Undisturbed
  <2>11. k.status # "absent" /\ copy' = [copy EXCEPT ![a] = k]
    BY <1>3, <2>4
  <2>12. Goto(a, label) /\ state' = [state EXCEPT ![cur[a]] = k] /\ row' = [row EXCEPT ![cur[a]] = RowOf(k)]
    BY <2>1, <2>8
  <2> HIDE DEF s
  <2> QED
    BY <1>2, <1>4, <1>6, <2>5, <2>8, <2>9, <2>10, <2>11, <2>12, CommitKeeps
<1> QED
  BY <1>5, <1>6

\* The attempt is made durable: the call now stands at the webhook.
LEMMA SavePostKeeps ==
  ASSUME IInv, NEW a \in Actors, Save(a, "save_post", "post")
  PROVE  IInv'
<1>1. TypeOK /\ ActorOK(a)
  BY DEF IInv
<1> DEFINE s == state[cur[a]]
<1>2. PICK k \in Delivery : k = copy[a]
  BY <1>1, Fields
<1>3. /\ cur[a] \in Reminders /\ s \in Delivery /\ s.attempts \in Nat
      /\ copy' = [copy EXCEPT ![a] = k] /\ k.attempts \in Nat
      /\ state \in [Reminders -> Delivery] /\ todo[a] \in SUBSET Reminders
      /\ posted[cur[a]] \in Nat /\ MaxRetries \in Nat
  BY <1>1, <1>2, Fields, Unmoved, ReminderAssumption DEF Save, localVars, TypeOK
<1>4. /\ pc[a] = "save_post"
      /\ UNCHANGED <<lease, gone, forgotten, hostVars, fence, cur, todo, count>>
  BY DEF Save, localVars
<1>5. CASE ~Holds(a)
  BY <1>3, <1>4, <1>5, LostKeeps DEF Save, Commit
<1>6. CASE Holds(a)
  <2>1. /\ state' = [state EXCEPT ![cur[a]] = k] /\ row' = [row EXCEPT ![cur[a]] = RowOf(k)]
        /\ Goto(a, "post")
    BY <1>2, <1>6 DEF Save, Commit
  <2>2. /\ s.status \in DueStatuses /\ k.status = "dispatched" /\ k.attempts = s.attempts + 1
        /\ ~k.receipt /\ cur[a] \notin todo[a]
        /\ \A r \in todo[a] : state[r].status \in DueStatuses
    BY <1>1, <1>2, <1>4, <1>6 DEF ActorOK, HolderOK, AtWork
  <2>3. Recorded(s, cur[a])
    BY <1>3 DEF IInv
  <2>4. s.status \notin Terminal /\ k.status # "absent" /\ s.status # "absent"
    BY <2>2 DEF Terminal, DueStatuses
  <2>5. posted[cur[a]] < k.attempts /\ k.attempts <= MaxRetries + 1 /\ posted[cur[a]] <= k.attempts
    BY <1>3, <2>2, <2>3 DEF Recorded
  <2>6. Recorded(k, cur[a])
    BY <2>2, <2>5 DEF Recorded, DueStatuses
  <2>7. ASSUME NEW b \in Actors, b # a, pc[b] = "post" PROVE cur[b] # cur[a]
    BY <1>3, <2>2, <2>7, DueNotPosting
  <2>8. ASSUME pc'[a] = "post", copy'[a] = k, state'[cur[a]] = k PROVE HolderOK(a)' /\ PostOK(a)'
    <3>1. \A r \in todo'[a] : state'[r].status \in DueStatuses
      BY <1>3, <1>4, <2>1, <2>2
    <3>2. cur' = cur /\ todo' = todo /\ posted' = posted
      BY <1>4 DEF hostVars
    <3>3. "dispatched" \notin DueStatuses
      BY DEF DueStatuses
    <3>4. HolderOK(a)'
      BY <2>2, <2>8, <3>1, <3>2 DEF HolderOK, AtWork, Posted
    <3>5. PostOK(a)'
      BY <2>2, <2>5, <2>8, <3>2, <3>3 DEF PostOK
    <3> QED
      BY <3>4, <3>5
  <2>9. "post" \in PcValues \ {"intent", "scrub", "upsert"}
    BY DEF PcValues
  <2>10. Undisturbed(a, k, "post")
    BY <2>7 DEF Undisturbed
  <2> QED
    BY <1>2, <1>3, <1>4, <1>6, <2>1, <2>4, <2>6, <2>8, <2>9, <2>10, CommitKeeps
<1> QED
  BY <1>5, <1>6

\* The acknowledgement is made durable; completion is next.
LEMMA SaveAckKeeps ==
  ASSUME IInv, NEW a \in Actors, SaveAck(a)
  PROVE  IInv'
<1>1. TypeOK /\ ActorOK(a)
  BY DEF IInv
<1> DEFINE s == state[cur[a]]
<1>2. PICK k \in Delivery : k = copy[a]
  BY <1>1, Fields
<1>3. /\ cur[a] \in Reminders /\ s \in Delivery /\ s.attempts \in Nat /\ k.attempts \in Nat
      /\ state \in [Reminders -> Delivery] /\ todo[a] \in SUBSET Reminders
  BY <1>1, <1>2, Fields, Unmoved DEF TypeOK
<1>4. PICK m \in Delivery : m = [k EXCEPT !.status = "completed"]
  BY DEF Delivery, Statuses, Terminal
<1>5. m.status = "completed" /\ m.attempts = k.attempts /\ m.receipt = k.receipt
  BY <1>4 DEF Delivery
<1>6. /\ pc[a] = "save_ack" /\ copy' = [copy EXCEPT ![a] = m]
      /\ UNCHANGED <<lease, gone, forgotten, hostVars, fence, cur, todo, count>>
  BY <1>2, <1>4 DEF SaveAck
<1>7. CASE ~Holds(a)
  BY <1>3, <1>6, <1>7, LostKeeps DEF SaveAck, Commit
<1>8. CASE Holds(a)
  <2>1. /\ state' = [state EXCEPT ![cur[a]] = k] /\ row' = [row EXCEPT ![cur[a]] = RowOf(k)]
        /\ Goto(a, "save_next")
    BY <1>2, <1>8 DEF SaveAck, Commit
  <2>2. /\ s.status = "dispatched" /\ k.status = "dispatched" /\ k.attempts = s.attempts
        /\ cur[a] \in delivered /\ cur[a] \notin todo[a]
        /\ \A r \in todo[a] : state[r].status \in DueStatuses
    BY <1>1, <1>2, <1>6, <1>8 DEF ActorOK, HolderOK, AtWork, Posted
  <2>3. Recorded(s, cur[a])
    BY <1>3 DEF IInv
  <2>4. s.status \notin Terminal /\ k.status # "absent" /\ s.status # "absent"
    BY <2>2 DEF Terminal
  <2>5. Recorded(k, cur[a])
    BY <2>2, <2>3 DEF Recorded, DueStatuses
  <2>6. ASSUME NEW b \in Actors, b # a, pc[b] = "post" PROVE cur[b] # cur[a]
    BY <1>6, <1>8, <2>6 DEF IInv, Distinct, Posted
  <2>7. ASSUME pc'[a] = "save_next", copy'[a] = m, state'[cur[a]] = k PROVE HolderOK(a)'
    <3>1. \A r \in todo'[a] : state'[r].status \in DueStatuses
      BY <1>3, <1>6, <2>1, <2>2
    <3>2. cur' = cur /\ todo' = todo /\ delivered' = delivered
      BY <1>6 DEF hostVars
    <3>3. "completed" \notin DueStatuses
      BY DEF DueStatuses
    <3> QED
      BY <1>5, <2>2, <2>7, <3>1, <3>2, <3>3 DEF HolderOK, AtWork, Posted
  <2>8. PICK label \in PcValues \ {"intent", "scrub", "upsert"} : label = "save_next"
    BY DEF PcValues
  <2>9. pc'[a] = label /\ copy'[a] = m /\ state'[cur[a]] = k =>
          HolderOK(a)' /\ (label = "post" => PostOK(a)')
    BY <2>7, <2>8
  <2>10. /\ state[cur[a]].status \notin Terminal /\ (state[cur[a]].status = "absent" => ~gone)
         /\ Undisturbed(a, k, label)
    BY <2>4, <2>6, <2>8 DEF Undisturbed
  <2>11. k.status # "absent" /\ copy' = [copy EXCEPT ![a] = m]
    BY <1>3, <1>6, <2>4
  <2>12. Goto(a, label) /\ state' = [state EXCEPT ![cur[a]] = k] /\ row' = [row EXCEPT ![cur[a]] = RowOf(k)]
    BY <2>1, <2>8
  <2> HIDE DEF s
  <2> QED
    BY <1>2, <1>6, <1>8, <2>5, <2>8, <2>9, <2>10, <2>11, <2>12, CommitKeeps
<1> QED
  BY <1>7, <1>8

-----------------------------------------------------------------------------
(* The webhook, the unfenced writes, forget and time.                      *)

\* The webhook is called: the attempt was on record, and nobody else is at it.
LEMMA PostKeeps ==
  ASSUME IInv, NEW a \in Actors, Post(a)
  PROVE  IInv'
<1>1. TypeOK /\ ActorOK(a) /\ PostOK(a)
  BY DEF IInv, ActorOK, Post
<1>2. PICK label \in {"posted_ack", "posted_error"} :
        /\ Goto(a, label) /\ pc[a] = "post"
        /\ label = "posted_ack" => delivered' = delivered \cup {cur[a]}
        /\ delivered' = delivered \cup {cur[a]} \/ delivered' = delivered
        /\ posted' = [posted EXCEPT ![cur[a]] = @ + 1]
        /\ UNCHANGED <<state, row, lease, gone, forgotten, fence, cur, copy, todo, count>>
  BY DEF Post, localVars
<1>3. /\ pc' \in [Actors -> PcValues] /\ pc'[a] = label
      /\ \A b \in Actors : b # a => pc'[b] = pc[b]
  BY <1>1, <1>2, GotoTyped DEF PcValues
<1>4. /\ cur[a] \in Reminders /\ state[cur[a]] \in Delivery /\ state[cur[a]].attempts \in Nat
      /\ posted' \in [Reminders -> Nat] /\ posted'[cur[a]] = posted[cur[a]] + 1
      /\ \A r \in Reminders : r # cur[a] => posted'[r] = posted[r]
      /\ posted[cur[a]] \in Nat
  BY <1>1, <1>2, Fields DEF TypeOK
<1>5. delivered' \in SUBSET Reminders /\ delivered \subseteq delivered'
  BY <1>1, <1>2, <1>4 DEF TypeOK
<1>6. TypeOK'
  BY <1>1, <1>2, <1>3, <1>4, <1>5, TypeNext DEF TypeOK
<1>7. ASSUME NEW r \in Reminders PROVE Recorded(state[r], r)'
  <2>1. posted'[r] <= state[r].attempts
    BY <1>1, <1>4 DEF IInv, Recorded, PostOK
  <2> QED
    BY <1>2, <1>5, <2>1 DEF IInv, Recorded
<1>8. \A b \in Actors : Holds(b)' <=> Holds(b)
  BY <1>2 DEF Holds
<1>9. ASSUME NEW b \in Actors, b # a PROVE ActorOK(b)'
  <2>1. ActorOK(b) /\ pc'[b] = pc[b] /\ cur[b] \in Reminders
    BY <1>1, <1>3, <1>9 DEF IInv, TypeOK
  <2>2. HolderOK(b) => HolderOK(b)'
    BY <1>2, <1>5, <2>1 DEF HolderOK
  <2>3. ASSUME pc[b] = "post" PROVE PostOK(b)'
    <3>1. cur[b] # cur[a] /\ PostOK(b)
      BY <1>2, <1>9, <2>1, <2>3 DEF IInv, Distinct, ActorOK
    <3>2. posted'[cur[b]] = posted[cur[b]]
      BY <1>4, <2>1, <3>1
    <3> QED
      BY <1>2, <3>1, <3>2 DEF PostOK
  <2>4. UpsertOK(b) => UpsertOK(b)'
    BY <1>2 DEF UpsertOK
  <2> QED
    BY <1>2, <1>8, <2>1, <2>2, <2>3, <2>4 DEF ActorOK
<1>10. ActorOK(a)'
  <2>1. Holds(a) => HolderOK(a)'
    <3>1. Holds(a) => HolderOK(a)
      BY <1>1 DEF ActorOK
    <3> QED
      BY <1>2, <1>3, <1>5, <3>1 DEF HolderOK, AtWork, Posted
  <2> QED
    BY <1>1, <1>2, <1>3, <1>8, <2>1 DEF ActorOK
<1>11. Distinct'
  <2> SUFFICES ASSUME NEW d \in Actors, NEW b \in Actors, d # b, pc'[b] = "post",
                      pc'[d] = "post" \/ (Holds(d)' /\ pc'[d] \in Posted \cup {"save_next"})
               PROVE  cur'[d] # cur'[b]
    BY DEF Distinct
  <2>1. pc[b] = "post" /\ (pc[d] = "post" \/ (Holds(d) /\ pc[d] \in Posted \cup {"save_next"}))
    BY <1>2, <1>3, <1>8
  <2> QED
    BY <1>2, <2>1 DEF IInv, Distinct
<1>12. StoresAgree' /\ (forgotten => gone)' /\ ForgetFinal' /\ (lease.live => lease.owner \in Actors)'
  BY <1>2 DEF IInv, StoresAgree, ForgetFinal
<1> QED
  BY <1>6, <1>7, <1>9, <1>10, <1>11, <1>12 DEF IInv

\* A call that writes a closed copy back without the lease: it wrote it before, too.
LEMMA UpsertKeeps ==
  ASSUME IInv, NEW a \in Actors, Upsert(a)
  PROVE  IInv'
<1>1. TypeOK /\ ActorOK(a) /\ UpsertOK(a) /\ ~Holds(a) /\ count.lapses # 0
  BY DEF IInv, ActorOK, HolderOK, Upsert
<1>2. /\ Goto(a, "next") /\ row' = [row EXCEPT ![cur[a]] = RowOf(copy[a])]
      /\ UNCHANGED <<state, lease, gone, forgotten, posted, delivered, fence, cur, copy, todo, count>>
  BY DEF Upsert, hostVars, localVars
<1>3. /\ pc' \in [Actors -> PcValues] /\ pc'[a] = "next"
      /\ \A b \in Actors : b # a => pc'[b] = pc[b]
  BY <1>1, <1>2, GotoTyped DEF PcValues
<1>4. /\ RowOf(copy[a]) \in Row /\ RowOf(copy[a]).status = copy[a].status
      /\ RowOf(copy[a]).attempts = copy[a].attempts /\ cur[a] \in Reminders
  BY <1>1, RowTyped, Fields
<1>5. row' \in [Reminders -> Row] /\ StoresAgree'
  BY <1>1, <1>2, <1>4 DEF IInv, TypeOK, StoresAgree, UpsertOK
<1>6. TypeOK'
  BY <1>1, <1>2, <1>3, <1>5, TypeNext DEF TypeOK
<1>7. \A b \in Actors : Holds(b)' <=> Holds(b)
  BY <1>2 DEF Holds
<1>8. ASSUME NEW b \in Actors, b # a PROVE ActorOK(b)'
  BY <1>2, <1>3, <1>7, <1>8 DEF IInv, ActorOK, HolderOK, PostOK, UpsertOK
<1>9. ActorOK(a)'
  BY <1>1, <1>2, <1>3, <1>7 DEF ActorOK
<1>10. Distinct'
  <2> SUFFICES ASSUME NEW d \in Actors, NEW b \in Actors, d # b, pc'[b] = "post",
                      pc'[d] = "post" \/ (Holds(d)' /\ pc'[d] \in Posted \cup {"save_next"})
               PROVE  cur'[d] # cur'[b]
    BY DEF Distinct
  <2>1. pc[b] = "post" /\ (pc[d] = "post" \/ (Holds(d) /\ pc[d] \in Posted \cup {"save_next"}))
    BY <1>1, <1>2, <1>3, <1>7
  <2> QED
    BY <1>2, <2>1 DEF IInv, Distinct
<1>11. (\A r \in Reminders : Recorded(state[r], r)') /\ (forgotten => gone)' /\ ForgetFinal'
       /\ (lease.live => lease.owner \in Actors)'
  BY <1>1, <1>2 DEF IInv, Recorded, ForgetFinal
<1> QED
  BY <1>5, <1>6, <1>8, <1>9, <1>10, <1>11 DEF IInv

\* Forget holds the lease, so nobody else is inside a section that reads gone.
LEMMA IntentKeeps ==
  ASSUME IInv, NEW a \in Actors, ForgetIntent(a)
  PROVE  IInv'
<1>1. TypeOK /\ ActorOK(a) /\ Holds(a)
  BY DEF IInv, ActorOK, ForgetIntent
<1>2. /\ Goto(a, "scrub") /\ gone' = TRUE
      /\ UNCHANGED <<state, row, lease, forgotten, posted, delivered, fence, cur, copy, todo, count>>
  BY DEF ForgetIntent, hostVars, localVars
<1>3. /\ pc' \in [Actors -> PcValues] /\ pc'[a] = "scrub"
      /\ \A b \in Actors : b # a => pc'[b] = pc[b]
  BY <1>1, <1>2, GotoTyped DEF PcValues
<1>4. TypeOK'
  BY <1>1, <1>2, <1>3, TypeNext DEF TypeOK
<1>5. \A b \in Actors : (Holds(b)' <=> Holds(b)) /\ (b # a => ~Holds(b))
  BY <1>1, <1>2 DEF Holds
<1>6. ASSUME NEW b \in Actors, b # a PROVE ActorOK(b)'
  BY <1>2, <1>3, <1>5, <1>6 DEF IInv, ActorOK, PostOK, UpsertOK
<1>7. ActorOK(a)'
  BY <1>1, <1>2, <1>3, <1>5 DEF ActorOK, HolderOK, AtWork, Posted
<1>8. Distinct'
  BY <1>2, <1>3, <1>5 DEF IInv, Distinct, Posted
<1>9. /\ StoresAgree' /\ (\A r \in Reminders : Recorded(state[r], r)') /\ (forgotten => gone)'
      /\ ForgetFinal' /\ (lease.live => lease.owner \in Actors)'
  BY <1>2 DEF IInv, StoresAgree, Recorded, ForgetFinal
<1> QED
  BY <1>4, <1>6, <1>7, <1>8, <1>9 DEF IInv

\* What scrubbing does to a status.
LEMMA ScrubbedStatusOK ==
  ASSUME NEW status \in Statuses
  PROVE  /\ ScrubbedStatus(status) \in Statuses /\ ScrubbedStatus(status) \notin DueStatuses
         /\ ScrubbedStatus(status) \in Terminal \cup {"absent"}
         /\ ScrubbedStatus(status) = "absent" <=> status = "absent"
         /\ ScrubbedStatus(status) = "completed" <=> status = "completed"
         /\ status \in Terminal => ScrubbedStatus(status) = status
  BY DEF ScrubbedStatus, Statuses, Terminal, DueStatuses

\* Forget closes and scrubs everything; every call at the webhook still has its attempt.
LEMMA ScrubKeeps ==
  ASSUME IInv, NEW a \in Actors, Scrub(a)
  PROVE  IInv'
<1>1. TypeOK /\ ActorOK(a) /\ Holds(a) /\ gone
  BY DEF IInv, ActorOK, Scrub
<1>2. /\ Goto(a, "release") /\ forgotten' = TRUE
      /\ UNCHANGED <<lease, gone, posted, delivered, fence, cur, copy, todo, count>>
  BY DEF Scrub, hostVars, localVars
<1>3. /\ pc' \in [Actors -> PcValues] /\ pc'[a] = "release"
      /\ \A b \in Actors : b # a => pc'[b] = pc[b]
  BY <1>1, <1>2, GotoTyped DEF PcValues
<1>4. ASSUME NEW r \in Reminders
      PROVE  /\ state[r] \in Delivery /\ state'[r] \in Delivery
             /\ state'[r].status = ScrubbedStatus(state[r].status)
             /\ state'[r].attempts = state[r].attempts /\ state'[r].receipt = state[r].receipt
             /\ (state[r].status # "absent" => state'[r].scrubbed)
             /\ state[r].status \in Statuses
  <2>1. state[r] \in Delivery /\ state[r].status \in Statuses
    BY <1>1 DEF TypeOK, Delivery
  <2>2. state'[r] = [state[r] EXCEPT !.status = ScrubbedStatus(state[r].status),
                                     !.scrubbed = state[r].status # "absent"]
    BY DEF Scrub
  <2>3. ScrubbedStatus(state[r].status) \in Statuses
    BY <2>1, ScrubbedStatusOK
  <2> QED
    BY <2>1, <2>2, <2>3 DEF Delivery
<1>5. ASSUME NEW r \in Reminders
      PROVE  /\ row[r] \in Row /\ row'[r] \in Row
             /\ row'[r].status = ScrubbedStatus(row[r].status)
             /\ row'[r].attempts = row[r].attempts
             /\ (row[r].status # "absent" => row'[r].scrubbed)
             /\ row[r].status \in Statuses
  <2>1. row[r] \in Row /\ row[r].status \in Statuses
    BY <1>1 DEF TypeOK, Row
  <2>2. row'[r] = [row[r] EXCEPT !.status = ScrubbedStatus(row[r].status),
                                 !.scrubbed = row[r].status # "absent"]
    BY DEF Scrub
  <2>3. ScrubbedStatus(row[r].status) \in Statuses
    BY <2>1, ScrubbedStatusOK
  <2> QED
    BY <2>1, <2>2, <2>3 DEF Row
<1>6. state' \in [Reminders -> Delivery] /\ row' \in [Reminders -> Row]
  <2>1. state' = [r \in Reminders |-> state'[r]] /\ row' = [r \in Reminders |-> row'[r]]
    BY DEF Scrub
  <2> QED
    BY <1>4, <1>5, <2>1
<1>7. TypeOK'
  BY <1>1, <1>2, <1>3, <1>6, TypeNext DEF TypeOK
<1>8. StoresAgree'
  BY <1>4, <1>5 DEF IInv, StoresAgree
<1>9. ASSUME NEW r \in Reminders PROVE Recorded(state[r], r)'
  <2>1. Recorded(state[r], r)
    BY DEF IInv
  <2> QED
    BY <1>2, <1>4, <2>1, ScrubbedStatusOK DEF Recorded
<1>10. \A b \in Actors : (Holds(b)' <=> Holds(b)) /\ (b # a => ~Holds(b))
  BY <1>1, <1>2 DEF Holds
<1>11. ASSUME NEW b \in Actors, b # a PROVE ActorOK(b)'
  <2>1. ActorOK(b) /\ pc'[b] = pc[b] /\ cur[b] \in Reminders /\ ~Holds(b) /\ ~Holds(b)'
    BY <1>1, <1>3, <1>10, <1>11 DEF IInv, TypeOK
  <2>2. PostOK(b) => PostOK(b)'
    BY <1>2, <1>4, <2>1, ScrubbedStatusOK DEF PostOK
  <2>3. UpsertOK(b) => UpsertOK(b)'
    BY <1>2, <1>4, <2>1, ScrubbedStatusOK DEF UpsertOK
  <2> QED
    BY <1>1, <1>2, <2>1, <2>2, <2>3 DEF ActorOK
<1>12. ActorOK(a)'
  BY <1>1, <1>2, <1>3, <1>10 DEF ActorOK, HolderOK, AtWork, Posted
<1>13. Distinct'
  BY <1>2, <1>3, <1>10 DEF IInv, Distinct, Posted
<1>14. ForgetFinal'
  <2> SUFFICES ASSUME NEW r \in Reminders
               PROVE  /\ state'[r].status = "absent" \/ (state'[r].status \in Terminal /\ state'[r].scrubbed)
                      /\ row'[r].status = "absent" \/ (row'[r].status \in Terminal /\ row'[r].scrubbed)
    BY DEF ForgetFinal
  <2>1. state'[r].status = "absent" \/ (state'[r].status \in Terminal /\ state'[r].scrubbed)
    <3>1. /\ state'[r].status \in Terminal \cup {"absent"}
          /\ state'[r].status = "absent" <=> state[r].status = "absent"
      BY <1>4, ScrubbedStatusOK
    <3> QED
      BY <1>4, <3>1
  <2>2. row'[r].status = "absent" \/ (row'[r].status \in Terminal /\ row'[r].scrubbed)
    <3>1. /\ row'[r].status \in Terminal \cup {"absent"}
          /\ row'[r].status = "absent" <=> row[r].status = "absent"
      BY <1>5, ScrubbedStatusOK
    <3> QED
      BY <1>5, <3>1
  <2> QED
    BY <2>1, <2>2
<1>15. (forgotten => gone)' /\ (lease.live => lease.owner \in Actors)'
  BY <1>1, <1>2 DEF IInv
<1> QED
  BY <1>7, <1>8, <1>9, <1>11, <1>12, <1>13, <1>14, <1>15 DEF IInv

\* Only when a reminder is next attempted changes, which no decision above rests on.
LEMMA DueArrivesKeeps ==
  ASSUME IInv, NEW q \in Reminders, DueArrives(q)
  PROVE  IInv'
<1>1. TypeOK
  BY DEF IInv
<1>2. UNCHANGED <<lease, gone, forgotten, posted, delivered, pc, fence, cur, copy, todo, count>>
  BY DEF DueArrives, hostVars, localVars
<1>3. /\ state' \in [Reminders -> Delivery]
      /\ \A r \in Reminders : /\ state'[r].status = state[r].status /\ state'[r].attempts = state[r].attempts
                              /\ state'[r].receipt = state[r].receipt /\ state'[r].scrubbed = state[r].scrubbed
  <2>1. state \in [Reminders -> Delivery] /\ state' = [state EXCEPT ![q].due = "due"]
    BY <1>1 DEF TypeOK, DueArrives
  <2>2. state[q] \in Delivery /\ [state[q] EXCEPT !.due = "due"] \in Delivery
    BY <2>1 DEF Delivery
  <2> QED
    BY <2>1, <2>2 DEF Delivery
<1>4. /\ row' \in [Reminders -> Row]
      /\ \A r \in Reminders : /\ row'[r].status = row[r].status /\ row'[r].attempts = row[r].attempts
                              /\ row'[r].scrubbed = row[r].scrubbed
  <2>1. row \in [Reminders -> Row] /\ row' = [row EXCEPT ![q].due = "due"]
    BY <1>1 DEF TypeOK, DueArrives
  <2>2. row[q] \in Row /\ [row[q] EXCEPT !.due = "due"] \in Row
    BY <2>1 DEF Row
  <2> QED
    BY <2>1, <2>2 DEF Row
<1>5. TypeOK'
  BY <1>1, <1>2, <1>3, <1>4, TypeNext DEF TypeOK
<1>6. StoresAgree' /\ ForgetFinal' /\ (forgotten => gone)' /\ (lease.live => lease.owner \in Actors)'
  BY <1>2, <1>3, <1>4 DEF IInv, StoresAgree, ForgetFinal
<1>7. \A r \in Reminders : Recorded(state[r], r)'
  BY <1>2, <1>3 DEF IInv, Recorded
<1>8. ASSUME NEW b \in Actors PROVE ActorOK(b)'
  <2>1. ActorOK(b) /\ cur[b] \in Reminders /\ todo[b] \in SUBSET Reminders /\ (Holds(b)' <=> Holds(b))
    BY <1>1, <1>2 DEF IInv, TypeOK, Holds
  <2>2. HolderOK(b) => HolderOK(b)'
    BY <1>2, <1>3, <2>1 DEF HolderOK
  <2>3. (PostOK(b) => PostOK(b)') /\ (UpsertOK(b) => UpsertOK(b)')
    BY <1>2, <1>3, <2>1 DEF PostOK, UpsertOK
  <2> QED
    BY <1>2, <2>1, <2>2, <2>3 DEF ActorOK
<1>9. Distinct'
  BY <1>2 DEF IInv, Distinct, Holds
<1> QED
  BY <1>5, <1>6, <1>7, <1>8, <1>9 DEF IInv

\* A lease lapses: nobody holds it, and no forget is at work.
LEMMA ExpireKeeps ==
  ASSUME IInv, Restrained, Expire
  PROVE  IInv'
<1>1. /\ TypeOK /\ count \in [calls: Nat, crashes: Nat, lapses: Nat, quiet: Nat]
      /\ lease \in [owner: Actors \cup {Nobody}, live: BOOLEAN, fence: Nat]
  BY DEF IInv, TypeOK
<1>2. /\ lease' = [lease EXCEPT !.live = FALSE]
      /\ UNCHANGED <<state, row, gone, forgotten, posted, delivered, pc, fence, cur, copy, todo>>
  BY DEF Expire, hostVars, localVars
<1>3. /\ lease' \in [owner: Actors \cup {Nobody}, live: BOOLEAN, fence: Nat] /\ ~lease'.live
      /\ \A b \in Actors : ~Holds(b)'
  BY <1>1, <1>2 DEF Holds
<1>4. /\ count' \in [calls: Nat, crashes: Nat, lapses: Nat, quiet: Nat]
      /\ count'.lapses = 0 => count.lapses = 0 /\ pc[lease.owner] = "idle"
      /\ pc[lease.owner] \notin {"intent", "scrub"}
  BY <1>1 DEF Expire, Restrained
<1>5. TypeOK'
  BY <1>1, <1>2, <1>3, <1>4, TypeNext DEF TypeOK
<1>6. ASSUME NEW b \in Actors PROVE ActorOK(b)'
  <2>1. ActorOK(b) /\ ~Holds(b)'
    BY <1>3 DEF IInv
  <2>2. Holds(b) => lease.owner = b
    BY DEF Holds
  <2>3. (PostOK(b) => PostOK(b)') /\ (UpsertOK(b) => UpsertOK(b)')
    BY <1>2 DEF PostOK, UpsertOK
  <2> QED
    BY <1>2, <1>4, <2>1, <2>2, <2>3 DEF ActorOK
<1>7. Distinct'
  BY <1>2, <1>3 DEF IInv, Distinct
<1>8. /\ StoresAgree' /\ (\A r \in Reminders : Recorded(state[r], r)') /\ (forgotten => gone)'
      /\ ForgetFinal' /\ (lease.live => lease.owner \in Actors)'
  BY <1>2, <1>3, <1>4 DEF IInv, StoresAgree, Recorded, ForgetFinal
<1> QED
  BY <1>5, <1>6, <1>7, <1>8 DEF IInv

-----------------------------------------------------------------------------
(* The invariant.                                                          *)

\* The invariant holds before the first schedule.
LEMMA InitInv == Init => IInv
<1> SUFFICES ASSUME Init PROVE IInv
  OBVIOUS
<1>1. TypeOK
  BY AbsentTyped, RowTyped DEF Init, TypeOK, PcValues
<1>2. \A r \in Reminders : state[r] = Absent /\ row[r] = RowOf(Absent) /\ posted[r] = 0
  BY DEF Init
<1>3. StoresAgree
  BY <1>2, AbsentTyped, RowTyped DEF StoresAgree
<1>4. \A r \in Reminders : Recorded(state[r], r)
  BY <1>2, AbsentTyped, ReminderAssumption DEF Recorded
<1>5. \A a \in Actors : pc[a] = "idle" /\ ~Holds(a)
  BY ReminderAssumption DEF Init, Holds
<1>6. (\A a \in Actors : ActorOK(a)) /\ Distinct
  BY <1>5 DEF ActorOK, Distinct
<1>7. ~lease.live /\ ~forgotten
  BY DEF Init
<1> QED
  BY <1>1, <1>3, <1>4, <1>6, <1>7 DEF IInv, ForgetFinal

LEMMA StutterKeeps == IInv /\ UNCHANGED vars => IInv'
<1> SUFFICES ASSUME IInv, UNCHANGED vars PROVE IInv'
  OBVIOUS
<1>1. UNCHANGED <<state, row, lease, gone, forgotten, posted, delivered, pc, fence, cur, copy, todo, count>>
  BY DEF vars, hostVars, localVars
<1>2. TypeOK' /\ StoresAgree' /\ (\A r \in Reminders : Recorded(state[r], r)')
  BY <1>1 DEF IInv, TypeOK, StoresAgree, Recorded
<1>3. ASSUME NEW a \in Actors PROVE ActorOK(a)'
  BY <1>1 DEF IInv, ActorOK, HolderOK, PostOK, UpsertOK, Holds
<1>4. Distinct' /\ ForgetFinal' /\ (forgotten => gone)' /\ (lease.live => lease.owner \in Actors)'
  BY <1>1 DEF IInv, Distinct, Holds, ForgetFinal
<1> QED
  BY <1>2, <1>3, <1>4 DEF IInv

LEMMA NextKeeps ==
  ASSUME IInv, Restrained, Next
  PROVE  IInv'
<1>1. ASSUME NEW c \in Clients, NEW r \in Reminders, StartSchedule(c, r) \/ StartTransition(c, r)
      PROVE  IInv'
  BY <1>1, StartsKeep DEF Actors
<1>2. ASSUME NEW c \in Clients, StartForget(c) \/ ClientStep(c) PROVE IInv'
  <2>1. c \in Actors
    BY DEF Actors
  <2> QED
    BY <1>2, <2>1, StartsKeep, ScheduleKeeps, TransitionKeeps, InsertKeeps, IntentKeeps, ScrubKeeps, EndsKeep
    DEF ClientStep
<1>3. ASSUME NEW w \in Workers, StartExecute(w) \/ WorkerStep(w) PROVE IInv'
  <2>1. w \in Actors
    BY DEF Actors
  <2> QED
    BY <1>3, <2>1, StartsKeep, ListKeeps, PickKeeps, LoadKeeps, UpsertKeeps, CheckKeeps, SaveNextKeeps,
       SavePostKeeps, PostKeeps, OutcomeKeeps, SaveAckKeeps, EndsKeep
    DEF WorkerStep
<1>4. ASSUME NEW r \in Reminders, DueArrives(r) PROVE IInv'
  BY <1>4, DueArrivesKeeps
<1>5. ASSUME NEW a \in Actors, Crash(a) PROVE IInv'
  BY <1>5, EndsKeep
<1>6. CASE Expire
  BY <1>6, ExpireKeeps
<1> QED
  BY <1>1, <1>2, <1>3, <1>4, <1>5, <1>6 DEF Next

-----------------------------------------------------------------------------
(* What a step may never do.                                               *)

\* Steps that write neither the delivery states nor the count of calls.
Quiet == UNCHANGED <<state, posted>>

\* A commit writes only records that are not closed.
LEMMA CommitOpen ==
  ASSUME IInv, NEW a \in Actors, Holds(a),
         pc[a] \in {"insert", "save_next", "save_post", "save_ack"}
  PROVE  state[cur[a]].status \notin Terminal
<1>1. HolderOK(a)
  BY DEF IInv, ActorOK
<1>2. /\ pc[a] = "insert" => state[cur[a]].status \notin Terminal
      /\ pc[a] = "save_post" => state[cur[a]].status \in DueStatuses
      /\ pc[a] = "save_ack" => state[cur[a]].status = "dispatched"
      /\ pc[a] = "save_next" => state[cur[a]].status \in DueStatuses \cup {"dispatched"}
  BY <1>1 DEF HolderOK, Posted, Terminal
<1> QED
  BY <1>2 DEF DueStatuses, Terminal

\* How the delivery states change: not at all, in a record that is open, by a scrub, or in
\* when they are due.
LEMMA StateSteps ==
  ASSUME IInv, Next
  PROVE  /\ \A r \in Reminders : state[r].status \in Terminal =>
              state'[r].status = state[r].status /\ state'[r].attempts = state[r].attempts
         /\ \/ posted' = posted
            \/ \E w \in Workers : Post(w)
<1>1. state \in [Reminders -> Delivery]
  BY DEF IInv, TypeOK
<1>2. ASSUME NEW a \in Actors, NEW at \in {"insert", "save_next", "save_post", "save_ack"},
             NEW label, pc[a] = at, Commit(a, label), NEW r \in Reminders, state[r].status \in Terminal
      PROVE  state'[r] = state[r]
  <2>1. CASE Holds(a)
    <3>1. state[cur[a]].status \notin Terminal
      BY <1>2, <2>1, CommitOpen
    <3> QED
      BY <1>1, <1>2, <2>1, <3>1 DEF Commit
  <2>2. CASE ~Holds(a)
    BY <1>2, <2>2 DEF Commit
  <2> QED
    BY <2>1, <2>2
<1>3. ASSUME NEW c \in Clients, NEW r \in Reminders, StartSchedule(c, r) \/ StartTransition(c, r)
      PROVE  Quiet
  BY <1>3 DEF StartSchedule, StartTransition, hostVars, Quiet
<1>4. ASSUME NEW c \in Clients, \/ StartForget(c) \/ ScheduleLoad(c) \/ TransitionLoad(c)
                                \/ ForgetIntent(c) \/ Release(c)
      PROVE  Quiet
  BY <1>4 DEF StartForget, ScheduleLoad, TransitionLoad, ForgetIntent, Release, hostVars, Quiet
<1>5. ASSUME NEW w \in Workers, \/ StartExecute(w) \/ ListDue(w) \/ PickNext(w) \/ Load(w) \/ Upsert(w)
                                \/ Check(w) \/ Outcome(w) \/ Release(w)
      PROVE  Quiet
  BY <1>5 DEF StartExecute, ListDue, PickNext, Load, Upsert, Check, Outcome, Release, hostVars, Quiet
<1>6. ASSUME Expire \/ \E a \in Actors : Crash(a) PROVE Quiet
  BY <1>6 DEF Expire, Crash, hostVars, Quiet
<1>7. ASSUME NEW c \in Clients, Save(c, "insert", "release"), NEW r \in Reminders, state[r].status \in Terminal
      PROVE  state'[r] = state[r] /\ posted' = posted
  BY <1>2, <1>7 DEF Save, hostVars, Actors
<1>8. ASSUME NEW w \in Workers, \/ Save(w, "save_next", "next") \/ Save(w, "save_post", "post")
                                \/ SaveAck(w),
             NEW r \in Reminders, state[r].status \in Terminal
      PROVE  state'[r] = state[r]
  BY <1>2, <1>8 DEF Save, SaveAck, Actors
<1>9. ASSUME NEW c \in Clients, Scrub(c), NEW r \in Reminders, state[r].status \in Terminal
      PROVE  state'[r].status = state[r].status /\ state'[r].attempts = state[r].attempts
  <2>1. state[r] \in Delivery /\ state[r].status \in Statuses
    BY <1>1 DEF Delivery
  <2>2. state'[r] = [state[r] EXCEPT !.status = ScrubbedStatus(state[r].status),
                                     !.scrubbed = state[r].status # "absent"]
    BY <1>9 DEF Scrub
  <2>3. ScrubbedStatus(state[r].status) = state[r].status
    BY <1>9, <2>1, ScrubbedStatusOK
  <2> QED
    BY <2>1, <2>2, <2>3 DEF Delivery
<1>10. ASSUME NEW q \in Reminders, DueArrives(q), NEW r \in Reminders
       PROVE  state'[r].status = state[r].status /\ state'[r].attempts = state[r].attempts
  <2>1. state' = [state EXCEPT ![q].due = "due"] /\ state[q] \in Delivery
    BY <1>1, <1>10 DEF DueArrives
  <2> QED
    BY <1>1, <2>1 DEF Delivery
<1>11. ASSUME NEW w \in Workers, Post(w) PROVE state' = state
  BY <1>11 DEF Post
<1>12. ASSUME NEW a \in Actors, \/ Save(a, "insert", "release") \/ Save(a, "save_next", "next")
                                \/ Save(a, "save_post", "post") \/ SaveAck(a) \/ Scrub(a)
       PROVE  posted' = posted
  BY <1>12 DEF Save, SaveAck, Scrub, hostVars
<1>13. ASSUME NEW q \in Reminders, DueArrives(q) PROVE posted' = posted
  BY <1>13 DEF DueArrives, hostVars
<1>14. posted' = posted \/ \E w \in Workers : Post(w)
  BY <1>3, <1>4, <1>5, <1>6, <1>12, <1>13 DEF Next, ClientStep, WorkerStep, Quiet, Actors
<1>15. ASSUME NEW r \in Reminders, state[r].status \in Terminal
       PROVE  state'[r].status = state[r].status /\ state'[r].attempts = state[r].attempts
  BY <1>3, <1>4, <1>5, <1>6, <1>7, <1>8, <1>9, <1>10, <1>11, <1>15
  DEF Next, ClientStep, WorkerStep, Quiet
<1> QED
  BY <1>14, <1>15

\* A call of the webhook is for a reminder without a durable acknowledgement, and never for
\* a forgotten source while every lease outlasted its call.
LEMMA PostSteps ==
  ASSUME IInv, NEW a \in Actors, Post(a)
  PROVE  /\ \A r \in Reminders : posted'[r] # posted[r] => ~state[r].receipt
         /\ ~(forgotten /\ count.lapses = 0)
<1>1. pc[a] = "post" /\ posted' = [posted EXCEPT ![cur[a]] = @ + 1]
  BY DEF Post
<1>2. TypeOK /\ ActorOK(a) /\ PostOK(a) /\ cur[a] \in Reminders
  BY <1>1 DEF IInv, ActorOK, TypeOK
<1>3. \A r \in Reminders : posted'[r] # posted[r] => r = cur[a]
  BY <1>1, <1>2 DEF TypeOK
<1>4. ASSUME forgotten, count.lapses = 0 PROVE FALSE
  <2>1. HolderOK(a)
    BY <1>1, <1>2, <1>4 DEF ActorOK
  <2>2. state[cur[a]].status = "dispatched"
    BY <1>1, <2>1 DEF HolderOK
  <2>3. state[cur[a]].status \in Terminal \cup {"absent"}
    BY <1>2, <1>4 DEF IInv, ForgetFinal
  <2> QED
    BY <2>2, <2>3 DEF Terminal
<1> QED
  BY <1>2, <1>3, <1>4 DEF PostOK

-----------------------------------------------------------------------------
(* The theorems.                                                           *)

\* The inductive invariant: the lease and the copies of the calls, against the stores.
THEOREM InductiveInvariant ==
  ASSUME Restrained
  PROVE  Spec => []IInv
<1>1. Init => IInv
  BY InitInv
<1>2. IInv /\ [Next]_vars => IInv'
  BY NextKeeps, StutterKeeps
<1> QED
  BY <1>1, <1>2, PTL DEF Spec

\* DeliveryRecorded of ReminderDelivery: the stores agree, every call of the webhook is
\* covered by an attempt counted before it, attempts never exceed the retries allowed, and a
\* completed reminder was processed, through any crashes and lost leases (execute_claimed).
THEOREM DeliveriesAreRecorded ==
  ASSUME Restrained
  PROVE  Spec => []DeliveryRecorded
<1>1. IInv => DeliveryRecorded
  BY DEF IInv, DeliveryRecorded, PostsBounded, CompletedDelivered, Recorded
<1> QED
  BY <1>1, InductiveInvariant, PTL

\* ForgetFinal of ReminderDelivery: what forget closed and scrubbed stays so (scrub_sources).
THEOREM ForgetIsFinal ==
  ASSUME Restrained
  PROVE  Spec => []ForgetFinal
<1>1. IInv => ForgetFinal
  BY DEF IInv
<1> QED
  BY <1>1, InductiveInvariant, PTL

\* NothingReopened of ReminderDelivery: no step changes a closed reminder, calls the host
\* after its acknowledgement is durable, or calls it for a forgotten source.
THEOREM NothingIsReopened ==
  ASSUME Restrained
  PROVE  Spec => NothingReopened
<1>1. IInv /\ [Next]_vars =>
        [\A r \in Reminders : state[r].status \in Terminal =>
           /\ state'[r].status = state[r].status
           /\ state'[r].attempts = state[r].attempts]_state
  BY StateSteps DEF vars
<1>2. IInv /\ [Next]_vars =>
        /\ [\A r \in Reminders : posted'[r] # posted[r] => ~state[r].receipt]_posted
        /\ [forgotten /\ count.lapses = 0 => UNCHANGED posted]_posted
  <2> SUFFICES ASSUME IInv, Next, posted' # posted
               PROVE  /\ \A r \in Reminders : posted'[r] # posted[r] => ~state[r].receipt
                      /\ ~(forgotten /\ count.lapses = 0)
    BY DEF vars, hostVars
  <2>1. PICK w \in Workers : Post(w)
    BY StateSteps
  <2> QED
    BY <2>1, PostSteps DEF Actors
<1> QED
  BY <1>1, <1>2, InductiveInvariant, PTL DEF Spec, NothingReopened, TerminalStays, NoRepost, NoPostAfterForget
=============================================================================
