----------------------------- MODULE ServiceHost -----------------------------
(***************************************************************************)
(* The network service of src/api/: listeners for HTTP, gRPC and GraphQL,  *)
(* started and stopped together (serve_state_ready of mod.rs), and the way *)
(* of a request through them: the limit on requests, authentication        *)
(* (auth.rs), authorization, the rate limit, preparation, the permit for   *)
(* the runtime, the tool and the filter on its answer (ServiceState::call).*)
(* A GraphQL request makes one call here; payloads are reduced to the      *)
(* verdicts on them.                                                       *)
(***************************************************************************)
EXTENDS KeyCache, Sequences

CONSTANTS
  Modes,        \* listeners: "http", "grpc", "graphql"
  Requests,
  Request,      \* what each request is: [mode, token, scope, own, asks, yields]
  MaxInFlight,  \* MAX_IN_FLIGHT
  MaxBuckets,   \* 10 000
  IdleTime,     \* 3600 seconds
  MaxTime,      \* bound on time, in the unit of the rate
  Unknown       \* no token, scope or key

ASSUME HostAssumption ==
  /\ IsFiniteSet(Requests) /\ \A r \in Requests : Request[r].mode \in Modes
  /\ MaxInFlight \in Nat \ {0} /\ IdleTime \in Nat \ {0} /\ MaxTime \in Nat

VARIABLES
  host,      \* [pc, wanted, binds, bound, ready, failed, report]
  task,      \* the task of each listener
  asked,     \* the shutdown future has resolved
  request,   \* [pc, answer]
  slots,     \* request_permits of the HTTP and GraphQL routers, the gRPC limit
  permits,   \* permits
  limits,    \* rate_limit: [enabled, burst, rate]
  buckets,   \* the rate limiter: [tokens, last] by scope
  now,
  admitted   \* history: the times at which a scope passed the rate limit

serving == <<host, task, asked, request, slots, permits, limits, buckets, now, admitted>>

Limiters == {"grpc", "http"}   \* one for gRPC, one for the two routers
Limiter(r) == IF Request[r].mode = "grpc" THEN "grpc" ELSE "http"
Scopes == {Request[r].scope : r \in Requests} \ {Unknown}

\* serve_client: every mode with an address; without any the HTTP listener, which
\* then has none either.
ClientModes(binds) ==
  IF binds = {} THEN <<"http">> ELSE SelectSeq(<<"http", "grpc", "graphql">>, LAMBDA m : m \in binds)

\* startup_plan, run_service_hosts: one mode, or all of them.
ServiceModes(mode) == IF mode = "all" THEN <<"http", "grpc", "graphql">> ELSE <<mode>>

HostInit(wanted, binds, limit) ==
  /\ host = [pc |-> "binding", wanted |-> wanted, binds |-> binds, bound |-> {}, ready |-> "none", failed |-> FALSE, report |-> "none"]
  /\ task = [m \in Modes |-> "none"]
  /\ asked = FALSE
  /\ request = [r \in Requests |-> [pc |-> "new", answer |-> "none"]]
  /\ slots = [l \in Limiters |-> MaxInFlight]
  /\ permits = MaxInFlight
  /\ limits = limit
  /\ buckets = <<>>
  /\ now = 0
  /\ admitted = [s \in Scopes |-> <<>>]

HostTypeOK ==
  /\ host.pc \in {"binding", "serving", "stopping", "ended"} /\ host.bound \subseteq Modes
  /\ host.ready \in {"none", "ok", "error"} /\ host.report \in {"none", "stopped", "error"}
  /\ task \in [Modes -> {"none", "serving", "stopping", "ended", "failed", "aborted"}]
  /\ permits \in 0 .. MaxInFlight /\ slots \in [Limiters -> 0 .. MaxInFlight]
  /\ DOMAIN buckets \subseteq Scopes
  /\ \A r \in Requests : request[r].pc \in {"new", "auth", "admit", "call", "done"}

-----------------------------------------------------------------------------
hosting == <<asked, slots, permits, limits, buckets, now, admitted>>

\* A listener is bound in turn; the first that cannot be, or is not configured,
\* ends the host and with it the listeners bound so far.
Bind(m, ok) ==
  /\ host.pc = "binding" /\ host.wanted # <<>> /\ m = Head(host.wanted)
  /\ ok => m \in host.binds
  /\ host' = IF ok
             THEN [host EXCEPT !.wanted = Tail(@), !.bound = @ \cup {m}]
             ELSE [host EXCEPT !.pc = "ended", !.ready = "error", !.report = "error", !.bound = {}]
  /\ UNCHANGED <<task, request, hosting>>

\* No mode at all is an error; else the host is ready and its listeners serve.
Ready ==
  /\ host.pc = "binding" /\ host.wanted = <<>>
  /\ IF host.bound = {}
     THEN /\ host' = [host EXCEPT !.pc = "ended", !.ready = "error", !.report = "error"]
          /\ UNCHANGED task
     ELSE /\ host' = [host EXCEPT !.pc = "serving", !.ready = "ok"]
          /\ task' = [m \in Modes |-> IF m \in host.bound THEN "serving" ELSE "none"]
  /\ UNCHANGED <<request, hosting>>

AskShutdown ==
  /\ ~asked /\ asked' = TRUE
  /\ UNCHANGED <<host, task, request, slots, permits, limits, buckets, now, admitted>>

Busy(m) == \E r \in Requests : Request[r].mode = m /\ request[r].pc \notin {"new", "done"}

\* A listener fails by itself, beside the requests of its connections.
TaskFails(m) ==
  /\ task[m] = "serving"
  /\ task' = [task EXCEPT ![m] = "failed"]
  /\ UNCHANGED <<host, request, hosting>>

StopAll == [m \in Modes |-> IF task[m] = "serving" THEN "stopping" ELSE task[m]]

\* Mutant: a listener that fails is left to the others.
StopOnRequest ==
  /\ host.pc = "serving" /\ asked
  /\ host' = [host EXCEPT !.pc = "stopping", !.failed = FALSE]
  /\ task' = StopAll
  /\ UNCHANGED <<request, hosting>>

\* The select of serve_state_ready: shutdown, or the end of any listener, which
\* is a failure; then all are told to stop.
Select ==
  /\ host.pc = "serving"
  /\ \/ asked /\ host' = [host EXCEPT !.pc = "stopping", !.failed = FALSE]
     \/ /\ \E m \in Modes : task[m] = "failed"
        /\ host' = [host EXCEPT !.pc = "stopping", !.failed = TRUE]
  /\ task' = StopAll
  /\ UNCHANGED <<request, hosting>>

\* Graceful shutdown of a listener: it ends when its requests have been answered.
TaskEnds(m) ==
  /\ task[m] = "stopping" /\ ~Busy(m)
  /\ task' = [task EXCEPT ![m] = "ended"]
  /\ UNCHANGED <<host, request, hosting>>

Over(m) == task[m] \in {"none", "ended", "failed"}

\* The requests in flight at these stages.
Holding(pcs) == {r \in Requests : request[r].pc \in pcs}

Ended(report) == [host EXCEPT !.pc = "ended", !.report = report, !.bound = {}]

\* Mutant: the report does not wait.
ReportAtOnce ==
  /\ host.pc = "stopping"
  /\ host' = Ended(IF host.failed THEN "error" ELSE "stopped")
  /\ UNCHANGED <<task, request, hosting>>

\* The drain: all listeners over.  A failure of one of them, the one that made
\* the host stop or one met during the drain, is the report.
Drained ==
  /\ host.pc = "stopping" /\ \A m \in Modes : Over(m)
  /\ host' = Ended(IF host.failed \/ \E m \in Modes : task[m] = "failed" THEN "error" ELSE "stopped")
  /\ UNCHANGED <<task, request, hosting>>

\* The deadline, or a listener that failed while the others drain: the rest is
\* aborted, the listeners only; each connection is a task of its own, and its
\* requests go on with the permits they hold.
DrainBroken ==
  LET gone == {m \in Modes : task[m] = "stopping"} IN
  /\ host.pc = "stopping" /\ gone # {}
  /\ host' = Ended("error")
  /\ task' = [m \in Modes |-> IF m \in gone THEN "aborted" ELSE task[m]]
  /\ UNCHANGED <<request, hosting>>

-----------------------------------------------------------------------------
Reply(r, answer) == request' = [request EXCEPT ![r] = [pc |-> "done", answer |-> answer]]
FreeSlot(r) == slots' = [slots EXCEPT ![Limiter(r)] = @ + 1]

\* limit_requests, and the limit of the gRPC server.
Arrive(r) ==
  /\ request[r].pc = "new" /\ task[Request[r].mode] = "serving"
  /\ IF slots[Limiter(r)] = 0
     THEN Reply(r, "busy") /\ UNCHANGED slots
     ELSE /\ request' = [request EXCEPT ![r].pc = "auth"]
          /\ slots' = [slots EXCEPT ![Limiter(r)] = @ - 1]
  /\ UNCHANGED <<host, task, asked, permits, limits, buckets, now, admitted, signing>>

\* authenticate: the service token, or a JWT, whose key must be found and whose
\* signature and claims may be wrong all the same.
Authenticate(r) ==
  /\ request[r].pc = "auth"
  /\ \/ /\ Request[r].token = Unknown
        /\ Reply(r, "unauthenticated") /\ FreeSlot(r) /\ UNCHANGED signing
     \/ /\ Request[r].token = "service"
        /\ request' = [request EXCEPT ![r].pc = "admit"] /\ UNCHANGED <<slots, signing>>
     \/ /\ Request[r].token \in KeyIds
        /\ \E found \in BOOLEAN :
             /\ Lookup(Request[r].token, found)
             /\ \/ found /\ request' = [request EXCEPT ![r].pc = "admit"] /\ UNCHANGED slots
                \/ Reply(r, "unauthenticated") /\ FreeSlot(r)
  /\ UNCHANGED <<host, task, asked, permits, limits, buckets, now, admitted>>

\* What a listener checks itself, between authentication and the call: the body is
\* JSON of the right shape, the id in it the one of the path.
Decoded(r) == Request[r].asks # "undecoded"

\* prepare: more than the limits, not a vector; a privacy scope beyond the policy.
Prepared(r) ==
  CASE Request[r].asks = "excess" -> "invalid"
    [] Request[r].asks = "beyond" -> "refused"
    [] OTHER -> "ok"

\* Principal::authorize: a scope is named, and a user's is the user's own.
Authorized(r) == Request[r].scope # Unknown /\ (Request[r].token = "service" \/ Request[r].own)

\* Mutant: a bucket is dropped as soon as there are too many.
KeptBucketsAny(b) == [s \in {} |-> b[s]]

\* With too many buckets the idle ones are dropped.
KeptBuckets(b) ==
  IF Cardinality(DOMAIN b) > MaxBuckets
  THEN [s \in {x \in DOMAIN b : now - b[x].last < IdleTime} |-> b[s]] ELSE b

\* The tokens of a scope now.
Lesser(a, b) == IF a <= b THEN a ELSE b
Tokens(b, s) ==
  IF s \in DOMAIN b THEN Lesser(b[s].tokens + (now - b[s].last) * limits.rate, limits.burst) ELSE limits.burst

\* check_and_consume: without a limit everybody passes.
Consume(s, passed) ==
  LET b == KeptBuckets(buckets)
      tokens == Tokens(b, s) IN
  /\ passed = (limits.enabled => tokens >= 1)
  /\ buckets' = IF limits.enabled
                 THEN [x \in DOMAIN b \cup {s} |->
                        IF x = s THEN [tokens |-> IF passed THEN tokens - 1 ELSE tokens, last |-> now] ELSE b[x]]
                 ELSE buckets
  /\ admitted' = IF passed THEN [admitted EXCEPT ![s] = Append(@, now)] ELSE admitted

\* ServiceState::call up to the runtime: every check that fails is the answer.
Admit(r) ==
  /\ request[r].pc = "admit"
  /\ \/ /\ ~Decoded(r)
        /\ Reply(r, "invalid") /\ FreeSlot(r) /\ UNCHANGED <<permits, buckets, admitted>>
     \/ /\ Decoded(r) /\ ~Authorized(r)
        /\ Reply(r, IF Request[r].scope = Unknown THEN "invalid" ELSE "refused") /\ FreeSlot(r) /\ UNCHANGED <<permits, buckets, admitted>>
     \/ /\ Decoded(r) /\ Authorized(r)
        /\ \E passed \in BOOLEAN :
             /\ Consume(Request[r].scope, passed)
             /\ \/ ~passed /\ Reply(r, "rate_limited") /\ FreeSlot(r) /\ UNCHANGED permits
                \/ /\ passed /\ Prepared(r) # "ok"
                   /\ Reply(r, Prepared(r)) /\ FreeSlot(r) /\ UNCHANGED permits
                \/ /\ passed /\ Prepared(r) = "ok" /\ permits = 0
                   /\ Reply(r, "busy") /\ FreeSlot(r) /\ UNCHANGED permits
                \* a cutoff is parsed with the permit taken
                \/ /\ passed /\ permits > 0 /\ Request[r].asks = "cutoff"
                   /\ Reply(r, "invalid") /\ FreeSlot(r) /\ UNCHANGED permits
                \/ /\ passed /\ Prepared(r) = "ok" /\ permits > 0 /\ Request[r].asks # "cutoff"
                   /\ request' = [request EXCEPT ![r].pc = "call"]
                   /\ permits' = permits - 1 /\ UNCHANGED slots
  /\ UNCHANGED <<host, task, asked, limits, now, signing>>

\* What the tool's result becomes: a memory beyond the policy is withheld, a
\* rejected ingest is an error, a retrieval the policy blocks is unavailable.
Rendered(r) ==
  CASE Request[r].yields = "hidden" -> "withheld"
    [] Request[r].yields = "rejected" -> "invalid"
    [] Request[r].yields = "blocked" -> "unavailable"
    [] OTHER -> "answer"

\* Mutant: an answer that is withheld keeps the permit.
RespondKeeping(r) ==
  /\ request[r].pc = "call"
  /\ Reply(r, Rendered(r)) /\ FreeSlot(r)
  /\ permits' = IF Rendered(r) = "answer" THEN permits + 1 ELSE permits
  /\ UNCHANGED <<host, task, asked, limits, buckets, now, admitted, signing>>

\* The tool has answered; its errors are passed on.
Respond(r) ==
  /\ request[r].pc = "call"
  /\ Reply(r, Rendered(r)) \/ Reply(r, "error")
  /\ FreeSlot(r) /\ permits' = permits + 1
  /\ UNCHANGED <<host, task, asked, limits, buckets, now, admitted, signing>>

\* REQUEST_TIMEOUT, or the caller leaves: the request is dropped where it is.
TimedOut(r) ==
  /\ request[r].pc \in {"auth", "admit", "call"}
  /\ Reply(r, "timeout") /\ FreeSlot(r)
  /\ permits' = IF request[r].pc = "call" THEN permits + 1 ELSE permits
  /\ UNCHANGED <<host, task, asked, limits, buckets, now, admitted, signing>>

TimePasses ==
  /\ now < MaxTime /\ now' = now + 1
  /\ UNCHANGED <<host, task, asked, request, slots, permits, limits, buckets, admitted>>

-----------------------------------------------------------------------------
\* The permits of the runtime and of the listeners are never lost or doubled,
\* whichever check or timeout ends a request, and although listeners are aborted
\* beside requests in flight.
PermitsExact ==
  /\ permits + Cardinality(Holding({"call"})) = MaxInFlight
  /\ \A l \in Limiters :
       slots[l] + Cardinality({r \in Holding({"auth", "admit", "call"}) : Limiter(r) = l}) = MaxInFlight

\* What a bucket that is dropped as idle lacked at most: nothing, unless a burst
\* is more than the rate adds in the idle time, which no validation excludes.
Surplus(limit) == IF limit.burst > limit.rate * IdleTime THEN limit.burst - limit.rate * IdleTime ELSE 0
PassesIn(limit, t) == limit.burst + limit.rate * t + Surplus(limit) * (t \div IdleTime)

\* With a limit, a scope passes over any span of time at most burst times and what
\* the rate adds, although buckets are dropped when there are too many scopes; and
\* where that gives tokens away, at most the surplus once in every idle time.
RateBounded ==
  limits.enabled =>
    \A s \in Scopes : \A i, j \in 1 .. Len(admitted[s]) :
      i <= j => j - i + 1 <= PassesIn(limits, admitted[s][j] - admitted[s][i])

\* A host that reports a clean stop has answered everything it accepted, on all
\* its listeners, and none of them had failed.
StoppedClean ==
  host.report = "stopped" =>
    /\ \A r \in Requests : request[r].pc \in {"new", "done"}
    /\ \A m \in Modes : task[m] \in {"none", "ended"}

\* A host that is asked to stop, or one of whose listeners fails, ends.
HostEnds == asked \/ (\E m \in Modes : task[m] = "failed") ~> host.pc = "ended"

=============================================================================
