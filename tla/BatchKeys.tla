------------------------------ MODULE BatchKeys ------------------------------
(***************************************************************************)
(* The batch tools of src/package/mod.rs: nextral.batch.ingest, .retrieve  *)
(* and .forget with an idempotency key.  A keyed batch holds a lease of    *)
(* 300 seconds on its key (claim and release of src/adapters/postgres.rs,  *)
(* no fence), takes it again before every item, and leaves its response    *)
(* under the key for the next call.  A call that ends with an error leaves *)
(* the lease to lapse.  What an item does is in the other modules: here it *)
(* succeeds or does not.                                                   *)
(***************************************************************************)
EXTENDS Naturals, Sequences, FiniteSets

CONSTANTS
  Batches,         \* calls of the batch tools
  IdempotencyKeys, \* the keys clients use
  NoKey,           \* no idempotency_key
  MaxBatch,        \* batch.max_batch_size
  MaxBatchFaults,  \* bound on failed calls to the store
  MaxOverruns,     \* bound on leases that lapse under a running call
  Unset

VARIABLES
  lease,    \* by tool and key: [owner, live], live while locked_until is to come
  saved,    \* by tool and key: [request, failed], the response kept for the key
  batch,    \* the calls
  bfaults,  \* failed calls to the store so far
  overruns, \* leases that have lapsed under a running call
  did       \* history: the items each request has had succeed

batches == <<lease, saved, batch, bfaults, overruns, did>>

BatchTools == {"ingest", "retrieve", "forget"}
StateKeys == BatchTools \X IdempotencyKeys
Free == [owner |-> Unset, live |-> FALSE]
Unsaved == [request |-> Unset, failed |-> 0]

BatchInit ==
  /\ lease = [k \in StateKeys |-> Free]
  /\ saved = [k \in StateKeys |-> Unsaved]
  /\ batch = [b \in Batches |-> [pc |-> "new", request |-> Unset, at |-> 1, failed |-> 0, answer |-> "none"]]
  /\ bfaults = 0 /\ overruns = 0
  /\ did = {}

BatchTypeOK ==
  /\ \A k \in StateKeys : lease[k].owner \in Batches \cup {Unset} /\ lease[k].live \in BOOLEAN
  /\ bfaults \in 0 .. MaxBatchFaults /\ overruns \in 0 .. MaxOverruns
  /\ \A b \in Batches :
       batch[b].pc \in {"new", "load", "renew", "run", "save", "release", "done"}

At(b, pc) == batch[b].pc = pc
Running(b) == batch[b].pc \notin {"new", "done"}
Keyed(r) == r.key # NoKey
StateKey(r) == <<r.tool, r.key>>
KeyOf(b) == StateKey(batch[b].request)
BatchEnds(b, answer) == batch' = [batch EXCEPT ![b].pc = "done", ![b].answer = answer]

-----------------------------------------------------------------------------
\* claim: the lease is free, has lapsed or is the caller's own.
MayClaim(b, k) == ~lease[k].live \/ lease[k].owner = b
Claimed(b, k) == [lease EXCEPT ![k] = [owner |-> b, live |-> TRUE]]

\* The size, and one valid scope for all items.
InvalidBatch(r) ==
  \/ Len(r.items) > MaxBatch
  \/ \E i \in 1 .. Len(r.items) : r.items[i].scope = Unset \/ r.items[i].scope # r.items[1].scope

BeginBatch(b, r) ==
  /\ At(b, "new")
  /\ \/ /\ InvalidBatch(r)
        /\ BatchEnds(b, "invalid") /\ UNCHANGED lease
     \/ /\ r.items = <<>>
        /\ BatchEnds(b, "empty") /\ UNCHANGED lease
     \/ /\ ~InvalidBatch(r) /\ r.items # <<>> /\ ~Keyed(r)
        /\ batch' = [batch EXCEPT ![b].pc = "renew", ![b].request = r] /\ UNCHANGED lease
     \/ /\ ~InvalidBatch(r) /\ r.items # <<>> /\ Keyed(r) /\ ~MayClaim(b, StateKey(r))
        /\ BatchEnds(b, "leased") /\ UNCHANGED lease
     \/ /\ ~InvalidBatch(r) /\ r.items # <<>> /\ Keyed(r) /\ MayClaim(b, StateKey(r))
        /\ batch' = [batch EXCEPT ![b].pc = "load", ![b].request = r]
        /\ lease' = Claimed(b, StateKey(r))
  /\ UNCHANGED <<saved, bfaults, overruns, did>>

\* Mutant: the response kept for the key is taken for this request's.
AnyRequest(b) == TRUE

\* The fingerprint kept with the response is this request's.
SameRequest(b) == saved[KeyOf(b)].request = [tool |-> batch[b].request.tool, items |-> batch[b].request.items]

\* A kept response is the answer when nothing failed; a retrieval is never kept.
Kept(b) == batch[b].request.tool # "retrieve" /\ saved[KeyOf(b)].failed = 0

\* Mutant: the key is not looked up.
LoadNothing(b) ==
  /\ At(b, "load")
  /\ batch' = [batch EXCEPT ![b].pc = "renew"]
  /\ UNCHANGED <<lease, saved, bfaults, overruns, did>>

LoadKey(b) ==
  /\ At(b, "load")
  /\ \/ /\ saved[KeyOf(b)] # Unsaved /\ ~SameRequest(b)
        /\ batch' = [batch EXCEPT ![b].pc = "release", ![b].answer = "reused"]
     \/ /\ saved[KeyOf(b)] # Unsaved /\ SameRequest(b) /\ Kept(b)
        /\ batch' = [batch EXCEPT ![b].pc = "release", ![b].answer = "response"]
     \/ /\ saved[KeyOf(b)] = Unsaved \/ (SameRequest(b) /\ ~Kept(b))
        /\ batch' = [batch EXCEPT ![b].pc = "renew"]
  /\ UNCHANGED <<lease, saved, bfaults, overruns, did>>

\* Before each item the lease is taken again; a call that finds it taken gives up
\* without a release.
RenewBatch(b) ==
  /\ At(b, "renew")
  /\ IF ~Keyed(batch[b].request)
     THEN batch' = [batch EXCEPT ![b].pc = "run"] /\ UNCHANGED lease
     ELSE IF MayClaim(b, KeyOf(b))
     THEN batch' = [batch EXCEPT ![b].pc = "run"] /\ lease' = Claimed(b, KeyOf(b))
     ELSE BatchEnds(b, "lost") /\ UNCHANGED lease
  /\ UNCHANGED <<saved, bfaults, overruns, did>>

AfterItem(b) ==
  IF batch[b].at < Len(batch[b].request.items) THEN "renew"
  ELSE IF Keyed(batch[b].request) THEN "save" ELSE "done"

\* Mutant: an item is tried until it succeeds.
RunUntilOk(b, ok) ==
  /\ At(b, "run")
  /\ batch' = [batch EXCEPT ![b].pc = IF ok THEN AfterItem(b) ELSE "renew",
                            ![b].at = IF ok THEN @ + 1 ELSE @,
                            ![b].answer = IF ok /\ AfterItem(b) = "done" THEN "response" ELSE @]
  /\ did' = IF ok THEN did \cup {<<batch[b].request.tool, batch[b].request.items[batch[b].at]>>} ELSE did
  /\ UNCHANGED <<lease, saved, bfaults, overruns>>

\* One item: a failure is counted and the batch goes on.
RunItem(b, ok) ==
  /\ At(b, "run")
  /\ batch' = [batch EXCEPT ![b].pc = AfterItem(b), ![b].at = @ + 1,
                            ![b].failed = IF ok THEN @ ELSE @ + 1,
                            ![b].answer = IF AfterItem(b) = "done" THEN "response" ELSE @]
  /\ did' = IF ok THEN did \cup {<<batch[b].request.tool, batch[b].request.items[batch[b].at]>>} ELSE did
  /\ UNCHANGED <<lease, saved, bfaults, overruns>>

\* Mutant: a response is kept once all items ran, without its failures.
SaveSucceeded(b) ==
  /\ At(b, "save")
  /\ saved' = [saved EXCEPT ![KeyOf(b)] =
                 [request |-> [tool |-> batch[b].request.tool, items |-> batch[b].request.items], failed |-> 0]]
  /\ batch' = [batch EXCEPT ![b].pc = "release", ![b].answer = "response"]
  /\ UNCHANGED <<lease, bfaults, overruns, did>>

\* The response is kept whether or not the lease is still held.
SaveResponse(b) ==
  /\ At(b, "save")
  /\ saved' = [saved EXCEPT ![KeyOf(b)] =
                 [request |-> [tool |-> batch[b].request.tool, items |-> batch[b].request.items],
                  failed |-> batch[b].failed]]
  /\ batch' = [batch EXCEPT ![b].pc = "release", ![b].answer = "response"]
  /\ UNCHANGED <<lease, bfaults, overruns, did>>

ReleaseKey(b) ==
  /\ At(b, "release")
  /\ lease' = IF lease[KeyOf(b)].owner = b THEN [lease EXCEPT ![KeyOf(b)] = Free] ELSE lease
  /\ BatchEnds(b, batch[b].answer)
  /\ UNCHANGED <<saved, bfaults, overruns, did>>

\* Any call to the store may fail, and ends the batch with the lease held.
BatchFails(b) ==
  /\ At(b, "new") \/ (Running(b) /\ ~At(b, "run") /\ Keyed(batch[b].request))
  /\ bfaults < MaxBatchFaults /\ bfaults' = bfaults + 1
  /\ BatchEnds(b, "error")
  /\ UNCHANGED <<lease, saved, overruns, did>>

\* Mutant: a lease no call runs under is kept.
LeaseKept(k) ==
  /\ lease[k].live /\ Running(lease[k].owner)
  /\ overruns < MaxOverruns /\ overruns' = overruns + 1
  /\ lease' = [lease EXCEPT ![k].live = FALSE]
  /\ UNCHANGED <<saved, batch, bfaults, did>>

\* locked_until passes: of a lease a failed call left, or, when an item takes
\* longer than 300 seconds, under a running call.
LeaseLapses(k) ==
  /\ lease[k].live
  /\ IF Running(lease[k].owner)
     THEN overruns < MaxOverruns /\ overruns' = overruns + 1
     ELSE UNCHANGED overruns
  /\ lease' = [lease EXCEPT ![k].live = FALSE]
  /\ UNCHANGED <<saved, batch, bfaults, did>>

BatchStep(b) ==
  \/ LoadKey(b) \/ RenewBatch(b) \/ SaveResponse(b) \/ ReleaseKey(b)
  \/ \E ok \in BOOLEAN : RunItem(b, ok)

-----------------------------------------------------------------------------
\* While no item outlasts its lease, a batch of writes that was answered without
\* a failure is never run again under its key: no call is past the lookup when
\* the response is kept, whoever failed or gave up before.
CompletedNotRerun ==
  [][\A b \in Batches :
       /\ overruns = 0 /\ batch'[b].at > batch[b].at
       /\ Keyed(batch[b].request) /\ batch[b].request.tool # "retrieve"
       => saved[KeyOf(b)] = Unsaved \/ saved[KeyOf(b)].failed > 0]_batches

\* While no item outlasts its lease, a key stays with the request it was first
\* kept for: another request under it is refused, not run.
KeyBoundToRequest ==
  [][\A k \in StateKeys :
       overruns = 0 /\ saved[k] # Unsaved => saved'[k].request = saved[k].request]_batches

\* An answer without failures is true: every item of that request has succeeded,
\* in this call or, when the answer was kept under the key, in an earlier one.
\* This holds however leases lapse.
SuccessIsReal ==
  \A b \in Batches :
    batch[b].pc = "done" /\ batch[b].answer = "response" /\ batch[b].failed = 0 =>
      \A i \in 1 .. Len(batch[b].request.items) :
        <<batch[b].request.tool, batch[b].request.items[i]>> \in did

\* No key is locked for ever: calls end, and the lease one of them left lapses.
KeysFreed == \A k \in StateKeys : lease[k].live ~> ~lease[k].live

\* Every batch is answered.
BatchesAnswered == \A b \in Batches : Running(b) ~> At(b, "done")

=============================================================================
