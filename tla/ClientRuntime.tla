---------------------------- MODULE ClientRuntime ----------------------------
(***************************************************************************)
(* RuntimeClient of src/package/mod.rs: admission of calls (counters moved *)
(* by compare-and-exchange, a semaphore of permits), the blocking task     *)
(* that runs a tool and outlives a call that gave up, close, and the       *)
(* worker and service hosts a client starts.  Tasks and worker ticks take  *)
(* their connections from ConnectionPool.  Timers may fire whenever they   *)
(* are armed; the tools themselves are in the other modules: here a task   *)
(* is a few transactions and ends with an answer or a panic, or hangs in   *)
(* a store other than PostgreSQL.                                          *)
(***************************************************************************)
EXTENDS ConnectionPool, SetSums

CONSTANTS
  Calls,       \* calls of call_json
  Hosts,       \* calls of start_worker and serve
  Kind,        \* "worker" or "service", for each
  Sizes,       \* payload sizes
  MaxPayload,  \* MAX_PAYLOAD_BYTES
  Limits,      \* execution configurations, each with the calls and hosts that
               \* take part under it: [pending, inflight, bytes, parties]
  MaxTx,       \* transactions of a task or a tick
  MaxTicks,    \* bound on worker ticks
  None         \* no host

ASSUME ClientAssumption ==
  /\ Threads = Calls \cup Hosts /\ Calls \cap Hosts = {} /\ None \notin Hosts
  /\ Kind \in [Hosts -> {"worker", "service"}]
  /\ Sizes \subseteq Nat \ {0} /\ MaxTx \in Nat /\ MaxTicks \in Nat /\ MaxPayload \in Nat
  \* NextralConfig::validate
  /\ Limits \subseteq [pending: Nat, inflight: Nat \ {0}, bytes: Nat, parties: SUBSET Threads]
  /\ \A l \in Limits : l.pending >= l.inflight /\ l.bytes >= MaxPayload

VARIABLES
  limit,   \* the execution configuration
  closed,  \* closed
  token,   \* close_token is cancelled
  count,   \* pending_count
  bytes,   \* pending_bytes
  permits, \* permits of in_flight_semaphore
  call,    \* the calls: control point, payload, compare-exchange operand, guard, answer
  task,    \* the blocking task of each call
  left,    \* transactions each thread may still do
  closer,  \* control point of close
  running, \* active_worker and active_service
  host,    \* the hosts: control point, loop, shutdown token, tick
  ticks    \* ticks so far

admission == <<count, bytes, permits>>
hosting == <<running, host, ticks>>
vars == <<pool, limit, closed, token, admission, call, task, left, closer, hosting>>

Kinds == {"service", "worker"}

CallState ==
  [pc: {"new", "count", "bytes", "queued", "leaving", "vanishing", "executing", "done"},
   size: Sizes \cup {0}, seen: Nat, guard: {"none", "count", "both", "bytes"},
   told: {"nothing", "answer", "not_started", "outcome_unknown"}]
HostState ==
  [pc: {"new", "checked", "spawned", "published", "refused"}, loop: {"off", "on", "ticking"},
   stop: BOOLEAN, tick: {"none", "loop", "host"}]
TaskStates == {"none", "running", "stuck", "answered", "panicked", "over", "failed"}

TypeOK ==
  /\ PoolTypeOK
  /\ limit \in Limits /\ closed \in BOOLEAN /\ token \in BOOLEAN
  /\ count \in Nat /\ bytes \in Nat /\ permits \in Nat
  /\ call \in [Calls -> CallState]
  /\ task \in [Calls -> TaskStates]
  /\ left \in [Threads -> 0 .. MaxTx]
  /\ closer \in {"open", "marked", "service", "worker", "polling", "drained", "timed_out"}
  /\ running \in [Kinds -> Hosts \cup {None}]
  /\ host \in [Hosts -> HostState]
  /\ ticks \in 0 .. MaxTicks

Init ==
  /\ PoolInit
  /\ limit \in Limits
  /\ closed = FALSE /\ token = FALSE
  /\ count = 0 /\ bytes = 0 /\ permits = limit.inflight
  /\ call = [c \in Calls |-> [pc |-> "new", size |-> 0, seen |-> 0, guard |-> "none",
                              told |-> "nothing"]]
  /\ task = [c \in Calls |-> "none"]
  /\ left = [t \in Threads |-> 0]
  /\ closer = "open"
  /\ running = [k \in Kinds |-> None]
  /\ host = [h \in Hosts |-> [pc |-> "new", loop |-> "off", stop |-> FALSE, tick |-> "none"]]
  /\ ticks = 0

-----------------------------------------------------------------------------
(* Admission.                                                              *)

Finished(state, told) == [state EXCEPT !.pc = "done", !.told = told, !.seen = 0]

\* The first checks; the counter is loaded for the exchange.
CallBegin(c, size) ==
  /\ c \in limit.parties /\ call[c].pc = "new"
  /\ call' = [call EXCEPT ![c] =
       IF closed \/ size > MaxPayload THEN Finished(@, "not_started")
       ELSE [@ EXCEPT !.pc = "count", !.size = size, !.seen = count]]
  /\ UNCHANGED <<pool, limit, closed, token, admission, task, left, closer, hosting>>

\* One round of the exchange on pending_count; the byte counter is loaded next.
ReserveCount(c) ==
  /\ call[c].pc = "count"
  /\ IF call[c].seen >= limit.pending
     THEN call' = [call EXCEPT ![c] = Finished(@, "not_started")] /\ UNCHANGED count
     ELSE IF call[c].seen # count
     THEN call' = [call EXCEPT ![c].seen = count] /\ UNCHANGED count
     ELSE /\ count' = count + 1
          /\ call' = [call EXCEPT ![c].pc = "bytes", ![c].guard = "count", ![c].seen = bytes]
  /\ UNCHANGED <<pool, limit, closed, token, bytes, permits, task, left, closer, hosting>>

\* Mutant: a payload above the byte limit keeps its place in the count.
ByteRefusalKeepsCount(c) ==
  /\ call' = [call EXCEPT ![c] = [Finished(@, "not_started") EXCEPT !.guard = "none"]]
  /\ UNCHANGED count

ByteRefusal(c) ==
  /\ call' = [call EXCEPT ![c] = [Finished(@, "not_started") EXCEPT !.guard = "none"]]
  /\ count' = count - 1

\* One round of the exchange on pending_bytes; then the guard owns both.
ReserveBytes(c) ==
  /\ call[c].pc = "bytes"
  /\ IF call[c].seen + call[c].size > limit.bytes
     THEN ByteRefusal(c) /\ UNCHANGED bytes
     ELSE IF call[c].seen # bytes
     THEN call' = [call EXCEPT ![c].seen = bytes] /\ UNCHANGED <<count, bytes>>
     ELSE /\ bytes' = bytes + call[c].size
          /\ call' = [call EXCEPT ![c].pc = "queued", ![c].guard = "both", ![c].seen = 0]
          /\ UNCHANGED count
  /\ UNCHANGED <<pool, limit, closed, token, permits, task, left, closer, hosting>>

-----------------------------------------------------------------------------
(* The queue: whichever branch of the select is ready.                     *)

\* A permit: the task takes it, and the guard, with it.
AcquirePermit(c) ==
  /\ call[c].pc = "queued" /\ permits > 0
  /\ permits' = permits - 1
  /\ call' = [call EXCEPT ![c].pc = "executing"]
  /\ task' = [task EXCEPT ![c] = "running"]
  /\ left' = [left EXCEPT ![c] = MaxTx]
  /\ UNCHANGED <<pool, limit, closed, token, count, bytes, closer, hosting>>

LeaveQueue(c, pc) ==
  /\ call[c].pc = "queued"
  /\ call' = [call EXCEPT ![c].pc = pc]
  /\ UNCHANGED <<pool, limit, closed, token, admission, task, left, closer, hosting>>

\* The deadline, which every call has, or the caller's cancellation token.
QueueTimeout(c) == LeaveQueue(c, "leaving")

QueueClosed(c) == token /\ LeaveQueue(c, "leaving")

\* The host drops the future.
QueueDropped(c) == LeaveQueue(c, "vanishing")

\* Drop of the guard by a call that leaves the queue: first the count,
LeaveCount(c) ==
  /\ call[c].pc \in {"leaving", "vanishing"} /\ call[c].guard = "both"
  /\ count' = count - 1
  /\ call' = [call EXCEPT ![c].guard = "bytes"]
  /\ UNCHANGED <<pool, limit, closed, token, bytes, permits, task, left, closer, hosting>>

\* then the bytes; only then is the call answered.
LeaveBytes(c) ==
  /\ call[c].pc \in {"leaving", "vanishing"} /\ call[c].guard = "bytes"
  /\ bytes' = bytes - call[c].size
  /\ call' = [call EXCEPT ![c] =
       [Finished(@, IF @.pc = "leaving" THEN "not_started" ELSE "nothing") EXCEPT !.guard = "none"]]
  /\ UNCHANGED <<pool, limit, closed, token, count, permits, task, left, closer, hosting>>

-----------------------------------------------------------------------------
(* The blocking task, and the call that waits for it.                      *)

\* Work done by a thread: a task, or the tick of a worker.
Busy(t) == IF t \in Calls THEN task[t] = "running" ELSE host[t].tick # "none"

\* checkout, when there is still something to do,
TakeConnection(t) ==
  /\ Busy(t) /\ left[t] > 0
  /\ Admit(t) \/ Wait(t)
  /\ UNCHANGED <<limit, closed, token, admission, call, task, left, closer, hosting>>

OpenConnection(t) ==
  /\ Connected(t)
  /\ UNCHANGED <<limit, closed, token, admission, call, task, left, closer, hosting>>

\* Mutant: a failed connection is tried again for ever.
LoseConnectionRetries(t) ==
  /\ ConnectFails(t)
  /\ UNCHANGED <<limit, closed, token, admission, call, task, left, closer, hosting>>

\* an error of which ends the work,
LoseConnection(t) ==
  /\ ConnectFails(t)
  /\ left' = [left EXCEPT ![t] = 0]
  /\ UNCHANGED <<limit, closed, token, admission, call, task, closer, hosting>>

\* and the end of the transaction.
GiveConnection(t, open) ==
  /\ Return(t, open)
  /\ left' = [left EXCEPT ![t] = @ - 1]
  /\ UNCHANGED <<limit, closed, token, admission, call, task, closer, hosting>>

PoolWhim ==
  /\ ServerCloses \/ \E t \in Threads : SpuriousWake(t)
  /\ UNCHANGED <<limit, closed, token, admission, call, task, left, closer, hosting>>

\* dispatch_tool returns or panics.
TaskEnd(c, how) ==
  /\ task[c] = "running" /\ conn[c] = "none"
  /\ task' = [task EXCEPT ![c] = how]
  /\ left' = [left EXCEPT ![c] = 0]
  /\ UNCHANGED <<pool, limit, closed, token, admission, call, closer, hosting>>

TaskHangs(c) ==
  /\ task[c] = "running" /\ conn[c] = "none"
  /\ task' = [task EXCEPT ![c] = "stuck"]
  /\ left' = [left EXCEPT ![c] = 0]
  /\ UNCHANGED <<pool, limit, closed, token, admission, call, closer, hosting>>

\* The locals of the task are dropped in reverse: the guard, its count
TaskCount(c) ==
  /\ task[c] \in {"answered", "panicked"} /\ call[c].guard = "both"
  /\ count' = count - 1
  /\ call' = [call EXCEPT ![c].guard = "bytes"]
  /\ UNCHANGED <<pool, limit, closed, token, bytes, permits, task, left, closer, hosting>>

\* and its bytes,
TaskBytes(c) ==
  /\ task[c] \in {"answered", "panicked"} /\ call[c].guard = "bytes"
  /\ bytes' = bytes - call[c].size
  /\ call' = [call EXCEPT ![c].guard = "none"]
  /\ UNCHANGED <<pool, limit, closed, token, count, permits, task, left, closer, hosting>>

\* then the permit.
TaskPermit(c) ==
  /\ task[c] \in {"answered", "panicked"} /\ call[c].guard = "none"
  /\ permits' = permits + 1
  /\ task' = [task EXCEPT ![c] = IF @ = "answered" THEN "over" ELSE "failed"]
  /\ UNCHANGED <<pool, limit, closed, token, count, bytes, call, left, closer, hosting>>

Answer(c, told) ==
  /\ call[c].pc = "executing"
  /\ call' = [call EXCEPT ![c] = Finished(@, told)]

CallAnswer(c) ==
  /\ \/ task[c] = "over" /\ Answer(c, "answer")
     \/ task[c] = "failed" /\ Answer(c, "outcome_unknown")
  /\ UNCHANGED <<pool, limit, closed, token, admission, task, left, closer, hosting>>

\* Mutant: a call that gives up says that nothing has been done,
CallGivesUpInnocent(c) ==
  /\ Answer(c, "not_started")
  /\ UNCHANGED <<pool, limit, closed, token, admission, task, left, closer, hosting>>

\* or waits for its task beyond the deadline.
CallGivesUpNever(c) == FALSE

\* The deadline or the caller's token, whatever the task does.
CallGivesUp(c) ==
  /\ Answer(c, "outcome_unknown")
  /\ UNCHANGED <<pool, limit, closed, token, admission, task, left, closer, hosting>>

\* The host drops the future; the task stays.
CallDropped(c) ==
  /\ Answer(c, "nothing")
  /\ UNCHANGED <<pool, limit, closed, token, admission, task, left, closer, hosting>>

-----------------------------------------------------------------------------
(* Hosts: start_worker and serve look at the active handle and set it      *)
(* under two separate locks.                                               *)

StartCheck(h) ==
  /\ h \in limit.parties /\ host[h].pc = "new"
  /\ host' = [host EXCEPT ![h].pc = IF running[Kind[h]] = None THEN "checked" ELSE "refused"]
  /\ UNCHANGED <<pool, limit, closed, token, admission, call, task, left, closer, running, ticks>>

\* The loop of a worker is spawned.
StartSpawn(h) ==
  /\ Kind[h] = "worker" /\ host[h].pc = "checked"
  /\ host' = [host EXCEPT ![h].pc = "spawned", ![h].loop = "on"]
  /\ UNCHANGED <<pool, limit, closed, token, admission, call, task, left, closer, running, ticks>>

\* serve waits for its listeners, which may fail to bind.
ServeBind(h) ==
  /\ Kind[h] = "service" /\ host[h].pc = "checked"
  /\ \/ host' = [host EXCEPT ![h].pc = "spawned", ![h].loop = "on"]
     \/ host' = [host EXCEPT ![h].pc = "refused"]
  /\ UNCHANGED <<pool, limit, closed, token, admission, call, task, left, closer, running, ticks>>

StartPublish(h) ==
  /\ host[h].pc = "spawned"
  /\ host' = [host EXCEPT ![h].pc = "published"]
  /\ running' = [running EXCEPT ![Kind[h]] = h]
  /\ UNCHANGED <<pool, limit, closed, token, admission, call, task, left, closer, ticks>>

StartTick(h, by) ==
  /\ Kind[h] = "worker" /\ host[h].tick = "none" /\ ticks < MaxTicks
  /\ host' = [host EXCEPT ![h].tick = by, ![h].loop = IF by = "loop" THEN "ticking" ELSE @]
  /\ left' = [left EXCEPT ![h] = MaxTx]
  /\ ticks' = ticks + 1
  /\ UNCHANGED <<pool, limit, closed, token, admission, call, task, closer, running>>

\* The interval of the loop has passed and its try_lock succeeds.
LoopTick(h) == host[h].loop = "on" /\ StartTick(h, "loop")

\* WorkerHandle::tick by the host.
HostTick(h) == host[h].pc = "published" /\ StartTick(h, "host")

TickEnd(h) ==
  /\ host[h].tick # "none" /\ conn[h] = "none"
  /\ host' = [host EXCEPT ![h].tick = "none",
                          ![h].loop = IF host[h].tick = "host" THEN @
                                      ELSE IF host[h].stop THEN "off" ELSE "on"]
  /\ left' = [left EXCEPT ![h] = 0]
  /\ UNCHANGED <<pool, limit, closed, token, admission, call, task, closer, running, ticks>>

\* The loop sees its shutdown token.
LoopBreak(h) ==
  /\ host[h].loop = "on" /\ host[h].stop
  /\ host' = [host EXCEPT ![h].loop = "off"]
  /\ UNCHANGED <<pool, limit, closed, token, admission, call, task, left, closer, running, ticks>>

\* shutdown of a handle by the host: the client still holds it as active.
HandleShutdown(h) ==
  /\ host[h].pc = "published" /\ ~host[h].stop
  /\ host' = [host EXCEPT ![h].stop = TRUE]
  /\ UNCHANGED <<pool, limit, closed, token, admission, call, task, left, closer, running, ticks>>

-----------------------------------------------------------------------------
(* close.                                                                  *)

CloseMark ==
  /\ closer = "open"
  /\ closer' = "marked" /\ closed' = TRUE
  /\ UNCHANGED <<pool, limit, token, admission, call, task, left, hosting>>

CloseCancel ==
  /\ closer = "marked"
  /\ closer' = "service" /\ token' = TRUE
  /\ UNCHANGED <<pool, limit, closed, admission, call, task, left, hosting>>

\* Mutant: the handle is dropped, not shut down.
ShutNothing(h) == UNCHANGED host

\* Its loop may end now or after the timeout of shutdown.
Shut(h) == host' = IF h = None THEN host ELSE [host EXCEPT ![h].stop = TRUE]

\* The active service, then the active worker, is taken and shut down.
CloseHost(kind) ==
  /\ closer = kind
  /\ closer' = IF kind = "service" THEN "worker" ELSE "polling"
  /\ Shut(running[kind])
  /\ running' = [running EXCEPT ![kind] = None]
  /\ UNCHANGED <<pool, limit, closed, token, admission, call, task, left, ticks>>

\* Mutant: a free permit is taken for a drained client.
ClosePollAny ==
  /\ closer = "polling"
  /\ closer' = IF permits > 0 THEN "drained" ELSE "timed_out"
  /\ UNCHANGED <<pool, limit, closed, token, admission, call, task, left, hosting>>

\* One look at the semaphore; the timeout may have passed.
ClosePoll ==
  /\ closer = "polling"
  /\ \/ permits = limit.inflight /\ closer' = "drained"
     \/ permits # limit.inflight /\ closer' = "timed_out"
  /\ UNCHANGED <<pool, limit, closed, token, admission, call, task, left, hosting>>

-----------------------------------------------------------------------------
CallStep(c) ==
  \/ ReserveCount(c) \/ ReserveBytes(c) \/ AcquirePermit(c)
  \/ QueueTimeout(c) \/ QueueClosed(c) \/ LeaveCount(c) \/ LeaveBytes(c)
  \/ CallAnswer(c) \/ CallGivesUp(c)

TaskStep(c) ==
  \/ \E how \in {"answered", "panicked"} : TaskEnd(c, how)
  \/ TaskCount(c) \/ TaskBytes(c) \/ TaskPermit(c)

ConnectionStep(t) ==
  \/ TakeConnection(t) \/ OpenConnection(t) \/ LoseConnection(t)
  \/ \E open \in BOOLEAN : GiveConnection(t, open)

StartStep(h) == StartCheck(h) \/ StartSpawn(h) \/ ServeBind(h) \/ StartPublish(h)

CloseStep == CloseCancel \/ (\E k \in Kinds : CloseHost(k)) \/ ClosePoll

Next ==
  \/ \E c \in Calls, size \in Sizes : CallBegin(c, size)
  \/ \E c \in Calls : CallStep(c) \/ TaskStep(c) \/ TaskHangs(c) \/ QueueDropped(c) \/ CallDropped(c)
  \/ \E t \in Threads : ConnectionStep(t)
  \/ PoolWhim
  \/ \E h \in Hosts : \/ StartStep(h) \/ LoopTick(h) \/ HostTick(h) \/ TickEnd(h)
                       \/ LoopBreak(h) \/ HandleShutdown(h)
  \/ CloseMark \/ CloseStep

Spec == Init /\ [][Next]_vars

\* Runtimes poll ready futures, timers fire, threads run unless they hang, a transaction and the
\* opening of a connection come to an end (both have timeouts), and a loop that
\* has been told to stop looks at its token.
Fairness ==
  /\ \A c \in Calls : WF_vars(CallStep(c)) /\ WF_vars(TaskStep(c))
  /\ \A t \in Threads : WF_vars(ConnectionStep(t))
  /\ \A h \in Hosts : WF_vars(StartStep(h)) /\ WF_vars(TickEnd(h)) /\ WF_vars(LoopBreak(h))
  /\ WF_vars(CloseStep)

FairSpec == Spec /\ Fairness

-----------------------------------------------------------------------------
(* Properties.                                                             *)

Holding(guards) == {c \in Calls : call[c].guard \in guards}
Stuck == {c \in Calls : task[c] = "stuck"}
InFlight == Stuck \cup {c \in Calls : task[c] \in {"running", "answered", "panicked"}}

\* The counters are exactly what the calls in the queue and the tasks hold, also
\* while several exchanges and drops are half done and after calls gave up, and
\* so never exceed their limits: no capacity leaks and none is given twice.
AdmissionExact ==
  /\ count = Cardinality(Holding({"count", "both"})) /\ count <= limit.pending
  /\ bytes = SumOver([c \in Calls |-> call[c].size], Holding({"both", "bytes"}))
  /\ bytes <= limit.bytes
  /\ permits + Cardinality(InFlight) = limit.inflight

\* close reports drained only when no task runs and none holds a connection, the
\* tasks of calls that have given up included.
DrainedIdle ==
  [][closer # "drained" /\ closer' = "drained" =>
       InFlight = {} /\ \A c \in Calls : conn[c] = "none"]_vars

\* Every call is answered: a hanging tool, a full queue or pool and a closed
\* client cannot keep the host waiting.
CallsAnswered ==
  \A c \in Calls : call[c].pc # "new" ~> call[c].pc = "done"

\* Whatever calls gave up, panicked or lost their connection, in the end every
\* permit, place, byte and connection is given back, those of hanging tools aside:
\* no task waits for ever for a connection.
CapacityReturns ==
  <>[](/\ permits + Cardinality(Stuck) = limit.inflight
       /\ Holding({"count", "both", "bytes"}) = Stuck
       /\ active = 0)

\* Between the look at the active handle and its publication.
Starting == {h \in Hosts : host[h].pc \in {"checked", "spawned"}}

\* close shuts down the host that was active when it began, and it ends, unless
\* another start was under way and replaced the handle.
CloseStopsHosts ==
  \A h \in Hosts :
    closer = "marked" /\ running[Kind[h]] = h /\ Starting = {} ~> host[h].loop = "off"

\* Refinement: what the host is told agrees with what is done for it.
Stage(c) ==
  CASE task[c] \in {"running", "stuck"} -> "working"
    [] task[c] \notin {"none", "running", "stuck"} -> "finished"
    [] task[c] = "none" /\ call[c].pc = "new" -> "new"
    [] task[c] = "none" /\ call[c].pc \in {"leaving", "vanishing", "done"} -> "refused"
    [] OTHER -> "pending"

Contract == INSTANCE CallContract
  WITH stage <- [c \in Calls |-> Stage(c)], told <- [c \in Calls |-> call[c].told]

\* call_json implements the contract of its answers: a call told "not_started" is
\* never executed, now or later, and an answer is that of a finished execution.
Implements == Contract!Spec

\* The capacity of a client is counted exactly, in the admission counters and in the
\* pool, and no thread sleeps beside free capacity (call_json, checkout).
CapacityExact == TypeOK /\ AdmissionExact /\ ConnectionsBounded /\ NoLostWakeup

\* Calls are answered and what they took is given back, whatever gave up, panicked or
\* hung (call_json), and the host that is active when close begins ends (close).
EverythingEnds == CallsAnswered /\ CapacityReturns /\ CloseStopsHosts

=============================================================================
