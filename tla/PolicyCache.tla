----------------------------- MODULE PolicyCache -----------------------------
(***************************************************************************)
(* The procedural policies of one user: rows and a version row in          *)
(* PostgreSQL, a copy in Redis that is believed while its version is the   *)
(* version row's, and the outbox event that has the copy invalidated.      *)
(* Sources: policy_upsert, policy_remove, policy_records and drain_outbox  *)
(* of src/runtime/storage.rs, policy_mutate and bump_policy_version of     *)
(* src/adapters/postgres.rs, the nextral.policy tools of                   *)
(* src/package/mod.rs.  A version is a digest of the version before it and *)
(* the change, here the chain itself.  Timestamps are left out: two        *)
(* changes may carry the same one.                                         *)
(***************************************************************************)
EXTENDS Naturals, FiniteSets

CONSTANTS
  Callers,         \* calls of the policy tools and of outbox.run
  Ids,             \* policy ids
  First,           \* the policy the user has at the start: [id, value]
  Allowed,         \* retrieval_policy.privacy_scope
  MaxPolicyFaults, \* bound on failed calls to a store
  None

VARIABLES
  rows,     \* the policies: a set of values of at most one element, by id
  version,  \* the policy-version row
  cache,    \* the Redis copy
  events,   \* policy.invalidate events not completed, by version
  delayed,  \* those of them that wait for next_attempt_at
  pcall,    \* the calls
  pfaults   \* failed calls to a store so far

policy == <<rows, version, cache, events, delayed, pcall, pfaults>>

\* Mutant: the version says what was changed last, not what came before it.
VersionOfChange(previous, id, change) == <<<<>>, id, change>>

\* bump_policy_version: a digest of the previous version, the key and the
\* operation, with remove as the operation without a value.
NextVersion(previous, id, change) == <<previous, id, change>>

NewCall ==
  [pc |-> "new", request |-> None, version |-> <<>>, policies |-> [i \in Ids |-> {}],
   event |-> None, result |-> "none", answer |-> "none", listed |-> [i \in Ids |-> {}],
   during |-> {}]

PolicyInit ==
  /\ rows = [i \in Ids |-> IF i = First.id THEN {First.value} ELSE {}]
  /\ version = NextVersion(<<>>, First.id, {First.value})
  /\ cache = None
  /\ events = {} /\ delayed = {}
  /\ pcall = [c \in Callers |-> NewCall]
  /\ pfaults = 0

PolicyTypeOK ==
  /\ \A i \in Ids : Cardinality(rows[i]) <= 1
  /\ delayed \subseteq events
  /\ pfaults \in 0 .. MaxPolicyFaults
  /\ \A c \in Callers :
       pcall[c].pc \in {"new", "draining", "claimed", "invalidated", "cached", "missed", "read", "done"}

In(c, pc) == pcall[c].pc = pc

\* History: the rows as they were at some moment of the call so far.
Witness(calls, now) ==
  [c \in Callers |-> IF calls[c].pc \in {"cached", "missed", "read"}
                     THEN [calls[c] EXCEPT !.during = @ \cup {now}] ELSE calls[c]]

AnswerList(c, listed) ==
  pcall' = [pcall EXCEPT ![c].pc = "done", ![c].answer = "list", ![c].listed = listed]
Answer(c, answer) == pcall' = [pcall EXCEPT ![c].pc = "done", ![c].answer = answer]

-----------------------------------------------------------------------------
\* policy_mutate, one transaction under an advisory lock: the row, the version
\* and the event; then the caller drains the outbox.
Mutate(c, r, change) ==
  LET next == NextVersion(version, r.id, change)
      after == [rows EXCEPT ![r.id] = change] IN
  /\ rows' = after
  /\ version' = next
  /\ events' = events \cup {next}
  /\ pcall' = Witness([pcall EXCEPT ![c].pc = "draining", ![c].request = r], after)
  /\ UNCHANGED <<cache, delayed, pfaults>>

Upsert(c, r) ==
  /\ In(c, "new") /\ r.op = "upsert"
  /\ Mutate(c, r, {r.value})

Remove(c, r) ==
  /\ In(c, "new") /\ r.op = "remove"
  /\ IF rows[r.id] = {}
     THEN /\ Answer(c, "not_found")
          /\ UNCHANGED <<rows, version, cache, events, delayed, pfaults>>
     ELSE Mutate(c, r, {})

\* nextral.outbox.run
RunOutbox(c, r) ==
  /\ In(c, "new") /\ r.op = "drain"
  /\ pcall' = [pcall EXCEPT ![c].pc = "draining", ![c].request = r]
  /\ UNCHANGED <<rows, version, cache, events, delayed, pfaults>>

-----------------------------------------------------------------------------
\* A claim lasts until its call finishes the event, or lapses after the call
\* ended without finishing it.
Claimable ==
  {e \in events \ delayed : \A c \in Callers : ~(pcall[c].event = e /\ pcall[c].pc \in {"claimed", "invalidated"})}

DrainClaim(c) ==
  /\ In(c, "draining")
  /\ \E e \in Claimable : pcall' = [pcall EXCEPT ![c].pc = "claimed", ![c].event = e]
  /\ UNCHANGED <<rows, version, cache, events, delayed, pfaults>>

DrainEnd(c) ==
  /\ In(c, "draining") /\ Claimable = {}
  /\ Answer(c, "ok")
  /\ UNCHANGED <<rows, version, cache, events, delayed, pfaults>>

\* invalidate_scope: the copy goes.  An error may come before or after that.
DrainInvalidate(c) ==
  /\ In(c, "claimed")
  /\ \/ /\ cache' = None
        /\ pcall' = [pcall EXCEPT ![c].pc = "invalidated", ![c].result = "ok"]
        /\ UNCHANGED pfaults
     \/ /\ pfaults < MaxPolicyFaults /\ pfaults' = pfaults + 1
        /\ cache' \in {cache, None}
        /\ pcall' = [pcall EXCEPT ![c].pc = "invalidated", ![c].result = "error"]
  /\ UNCHANGED <<rows, version, events, delayed>>

\* Mutant: an event that failed is taken off the outbox too.
DrainDrops(c) ==
  /\ In(c, "invalidated")
  /\ events' = events \ {pcall[c].event}
  /\ delayed' = IF pcall[c].result = "ok" THEN delayed ELSE delayed \cup {pcall[c].event}
  /\ pcall' = [pcall EXCEPT ![c].pc = "draining", ![c].event = None, ![c].result = "none"]
  /\ UNCHANGED <<rows, version, cache, pfaults>>

\* finish_outbox: completed, or retried after a delay.  The tenth failure, after which
\* the code gives an event up, is left out: an event is tried for ever.
DrainFinish(c) ==
  /\ In(c, "invalidated")
  /\ IF pcall[c].result = "ok"
     THEN events' = events \ {pcall[c].event} /\ UNCHANGED delayed
     ELSE delayed' = delayed \cup {pcall[c].event} /\ UNCHANGED events
  /\ pcall' = [pcall EXCEPT ![c].pc = "draining", ![c].event = None, ![c].result = "none"]
  /\ UNCHANGED <<rows, version, cache, pfaults>>

EventDue ==
  /\ \E e \in delayed : delayed' = delayed \ {e}
  /\ UNCHANGED <<rows, version, cache, events, pcall, pfaults>>

-----------------------------------------------------------------------------
\* policy_records: the version row first.
ReadVersion(c, r) ==
  /\ In(c, "new") /\ r.op = "list"
  /\ pcall' = [pcall EXCEPT ![c].pc = "cached", ![c].request = r, ![c].version = version,
                            ![c].during = {rows}]
  /\ UNCHANGED <<rows, version, cache, events, delayed, pfaults>>

\* policy_privacy_scope and the filter of nextral.policy.list.
Scope(r) == IF r.scope = None THEN Allowed ELSE r.scope \cap Allowed
Listed(policies, r) ==
  [i \in Ids |-> {p \in policies[i] : p.privacy \in Scope(r) /\ (r.disabled \/ p.enabled)}]

\* The copy is used when it carries the version that was read.
CacheUsable(c) == cache # None /\ cache.version = pcall[c].version

\* get_scoped_cache; an error of Redis is a miss.
ReadCache(c) ==
  /\ In(c, "cached")
  /\ \/ /\ IF CacheUsable(c)
           THEN AnswerList(c, Listed(cache.policies, pcall[c].request))
           ELSE pcall' = [pcall EXCEPT ![c].pc = "missed"]
        /\ UNCHANGED pfaults
     \/ /\ pfaults < MaxPolicyFaults /\ pfaults' = pfaults + 1
        /\ pcall' = [pcall EXCEPT ![c].pc = "missed"]
  /\ UNCHANGED <<rows, version, cache, events, delayed>>

\* state_list
ReadRows(c) ==
  /\ In(c, "missed")
  /\ pcall' = [pcall EXCEPT ![c].pc = "read", ![c].policies = rows]
  /\ UNCHANGED <<rows, version, cache, events, delayed, pfaults>>

\* Mutant: the copy carries the version row of the moment it is stored.
StoreUnderCurrent(c) == [version |-> version, policies |-> pcall[c].policies]

\* The copy carries the version that was read before the rows.
Copy(c) == [version |-> pcall[c].version, policies |-> pcall[c].policies]

\* put_scoped_cache; an error of Redis, before or after the write, is ignored.
PutCache(c) ==
  /\ In(c, "read")
  /\ AnswerList(c, Listed(pcall[c].policies, pcall[c].request))
  /\ \/ cache' = Copy(c) /\ UNCHANGED pfaults
     \/ pfaults < MaxPolicyFaults /\ pfaults' = pfaults + 1 /\ UNCHANGED cache
  /\ UNCHANGED <<rows, version, events, delayed>>

\* policy_ttl_seconds, or an eviction.
CacheExpires ==
  /\ cache # None /\ cache' = None
  /\ UNCHANGED <<rows, version, events, delayed, pcall, pfaults>>

\* An error of PostgreSQL ends the call with it: before policy_mutate nothing has
\* happened, in drain_outbox the change is committed all the same.
PolicyFails(c) ==
  /\ pcall[c].pc \in {"new", "draining", "invalidated", "missed"}
  /\ pfaults < MaxPolicyFaults /\ pfaults' = pfaults + 1
  /\ Answer(c, "error")
  /\ UNCHANGED <<rows, version, cache, events, delayed>>

PolicyCall(c, r) == Upsert(c, r) \/ Remove(c, r) \/ RunOutbox(c, r) \/ ReadVersion(c, r)
PolicyStep(c) ==
  \/ DrainClaim(c) \/ DrainEnd(c) \/ DrainInvalidate(c) \/ DrainFinish(c)
  \/ ReadCache(c) \/ ReadRows(c) \/ PutCache(c)

-----------------------------------------------------------------------------
\* A copy in Redis that carries the current version is the current policies,
\* although it is put there by a reader that took no lock, after any number of
\* changes, and although an invalidation may come before the stale copy does
\* (policy_records).
CacheFresh == cache # None /\ cache.version = version => cache.policies = rows

\* nextral.policy.list answers with the policies of one moment of the call,
\* filtered: never with a mixture, and never with policies older than the call.
ListedWithinCall ==
  \A c \in Callers :
    pcall[c].answer = "list" =>
      \E moment \in pcall[c].during : pcall[c].listed = Listed(moment, pcall[c].request)

=============================================================================
