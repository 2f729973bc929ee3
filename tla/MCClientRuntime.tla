--------------------------- MODULE MCClientRuntime ---------------------------
(* ClientRuntime on a small instance. *)
EXTENDS ClientRuntime

CONSTANTS c1, c2, h1, h2, s1

MCKind == [h \in Hosts |-> IF h = s1 THEN "service" ELSE "worker"]
MCThreads == Calls \cup Hosts

\* Two calls with a full count, a full byte budget, a queue for the permit and a
\* queue for the pool; a call beside a worker; two workers; a service.
Limit(p, i, b, who) == [pending |-> p, inflight |-> i, bytes |-> b, parties |-> who]
MCLimits ==
  {Limit(1, 1, 2, {c1, c2}), Limit(2, 1, 3, {c1, c2}), Limit(2, 1, 4, {c1, c2}),
   Limit(2, 2, 4, {c1, c2}), Limit(1, 1, 2, {c1, h1}), Limit(1, 1, 2, {h1, h2}),
   Limit(1, 1, 2, {s1})}
=============================================================================
