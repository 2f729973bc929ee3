--------------------------- MODULE MCNetworkService ---------------------------
(* NetworkService on a small instance. *)
EXTENDS NetworkService

CONSTANTS h0, m0, m1, c1, c2, c3, x1, x2, r1, r2, r3, r4, r5, r6, r7, r8, r9, r10, r11, r12, r13, r14, r15, s1, s2, k1, k2

Traced == [name |-> "traced", enabled |-> TRUE, collector |-> TRUE]
\* c2 has a collector and is not enabled, c3 and m1 have none.
MCSettings ==
  [h \in Holders |->
     CASE h = c2 -> [Traced EXCEPT !.name = "disabled", !.enabled = FALSE]
       [] h \in {c3, m1} -> [Traced EXCEPT !.name = "plain", !.collector = FALSE]
       [] OTHER -> Traced]

\* r3 asks for too much, r4 is refused, r5 withheld, r7 unauthenticated.
A(mode, token, scope) ==
  [mode |-> mode, token |-> token, scope |-> scope, own |-> TRUE, asks |-> "ok", yields |-> "ok"]
MCRequest ==
  [r \in Requests |->
     CASE r = r1 -> A("http", k1, s1)
       [] r = r2 -> A("grpc", "service", s1)
       [] r = r3 -> [A("http", "service", s2) EXCEPT !.asks = "excess"]
       [] r = r4 -> [A("graphql", k2, s1) EXCEPT !.own = FALSE]
       [] r = r5 -> [A("http", "service", s1) EXCEPT !.yields = "hidden"]
       [] r = r6 -> A("graphql", "service", s2)
       [] r = r7 -> A("http", Unknown, s1)
       [] r = r8 -> [A("http", "service", s1) EXCEPT !.asks = "undecoded"]
       [] r = r9 -> [A("grpc", "service", s1) EXCEPT !.asks = "cutoff"]
       [] r = r10 -> [A("graphql", "service", s2) EXCEPT !.asks = "beyond"]
       [] r = r11 -> [A("grpc", "service", s1) EXCEPT !.yields = "blocked"]
       [] r \in {r12, r13, r14, r15} -> [A("http", "service", s1) EXCEPT !.asks = "excess"]]

Nothing ==
  [holders |-> {}, spans |-> {}, requests |-> {}, wanted |-> <<>>, binds |-> {},
   limit |-> [enabled |-> TRUE, burst |-> 1, rate |-> 1],
   keys |-> FALSE, time |-> 0, embedded |-> FALSE, mcp |-> FALSE]
\* Leases and spans; a host beside a client; a host with two requests, which may be
\* aborted under them; an embedded host without an address; requests over two
\* listeners, without a rate limit; the rate limit over time, where a burst fills up
\* again in the idle time and where it does not; requests that end early; a rotation
\* of keys; MCP sessions whose two clients ask for different telemetry, or only one
\* of them for any.
MCWorkloads ==
  {[Nothing EXCEPT !.holders = {c1, c2, c3}, !.spans = {x1, x2}],
   [Nothing EXCEPT !.holders = {h0, c1}, !.spans = {x1}, !.wanted = ServiceModes("http"), !.binds = {"http"}],
   [Nothing EXCEPT !.holders = {h0}, !.requests = {r2, r8}, !.wanted = ClientModes({"http", "grpc"}),
                   !.binds = {"http", "grpc"}],
   [Nothing EXCEPT !.holders = {h0}, !.wanted = ClientModes({}), !.embedded = TRUE],
   [Nothing EXCEPT !.requests = {r2, r4, r6}, !.wanted = ClientModes({"grpc", "graphql"}),
                   !.binds = {"grpc", "graphql"}, !.embedded = TRUE,
                   !.limit = [enabled |-> FALSE, burst |-> 0, rate |-> 0]],
   [Nothing EXCEPT !.requests = {r1, r3, r5}, !.wanted = ServiceModes("http"), !.binds = {"http"}, !.time = 2],
   [Nothing EXCEPT !.requests = {r3, r12, r13, r14, r15}, !.wanted = ServiceModes("http"), !.binds = {"http"},
                   !.limit.burst = 2, !.time = 1],
   [Nothing EXCEPT !.requests = {r9, r10, r11}, !.wanted = ServiceModes("all"), !.binds = Modes],
   [Nothing EXCEPT !.requests = {r1, r7}, !.wanted = ServiceModes("http"), !.binds = {"http"}, !.keys = TRUE],
   [Nothing EXCEPT !.holders = {m0, m1}, !.mcp = TRUE],
   [Nothing EXCEPT !.holders = {m0}, !.spans = {x1}, !.mcp = TRUE],
   [Nothing EXCEPT !.holders = {m1}, !.mcp = TRUE]}
=============================================================================
