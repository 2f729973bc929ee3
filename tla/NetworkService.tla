--------------------------- MODULE NetworkService ---------------------------
(***************************************************************************)
(* serve_with_shutdown of src/api/mod.rs in a process that has clients of  *)
(* its own: the host's client takes a telemetry lease, the host serves and *)
(* stops, its client gives the lease back, and the telemetry of the whole  *)
(* process is shut down.  An MCP process has a session in place of the     *)
(* host, and two clients.                                                  *)
(***************************************************************************)
EXTENDS Telemetry, ServiceHost, McpSession

CONSTANTS
  HostHolder,  \* the lease of the host's client
  MainHolder, ToolHolder,  \* the leases of the two clients of an MCP process
  Workloads    \* what happens together: [holders, spans, requests, wanted, binds, limit, keys, time, embedded, mcp]

ASSUME ServiceAssumption ==
  /\ {HostHolder, MainHolder, ToolHolder} \subseteq Holders
  /\ Workloads \subseteq
       [holders: SUBSET Holders, spans: SUBSET Spans, requests: SUBSET Requests,
        wanted: Seq(Modes), binds: SUBSET Modes, limit: [enabled: BOOLEAN, burst: Nat, rate: Nat],
        keys: BOOLEAN, time: 0 .. MaxTime, embedded: BOOLEAN, mcp: BOOLEAN]

VARIABLES load

vars == <<telemetry, serving, signing, session, load>>

TypeOK == TelemetryTypeOK /\ HostTypeOK /\ KeyTypeOK /\ McpTypeOK /\ load \in Workloads

Init ==
  /\ load \in Workloads
  /\ TelemetryInit /\ HostInit(load.wanted, load.binds, load.limit) /\ McpInit
  /\ IF load.keys THEN KeyInit
     ELSE /\ published = KeyIds /\ keys = KeyIds
          /\ elapsed = RefreshAfter /\ rotations = 0 /\ outages = 0

TelemetryOnly == UNCHANGED <<serving, signing, session, load>>
HostOnly == UNCHANGED <<telemetry, signing, session, load>>

Underway == \E r \in Requests : request[r].pc \notin {"new", "done"}
Aborted == \E m \in Modes : task[m] = "aborted"

\* The client of the host is dropped, with its lease, when serving is over and no
\* connection of an aborted listener still needs it; so are the clients of an MCP
\* process, first the one of the session.
TakeLease(h) == h \in load.holders \ {MainHolder, ToolHolder} /\ Acquire(h) /\ TelemetryOnly
GiveLease(h) ==
  /\ h = HostHolder => host.pc = "ended" /\ ~Underway
  /\ h \in {MainHolder, ToolHolder} => mcp.pc \in {"closed", "failed"}
  /\ h = MainHolder => holder[ToolHolder] \in {"none", "refused", "over"}
  /\ Release(h) /\ TelemetryOnly
\* serve_with_shutdown: the telemetry is shut down after serving, with or without
\* the connections of aborted listeners.
HostShutsDown ==
  /\ ~load.embedded /\ host.pc = "ended"
  /\ holder[HostHolder] = "over" \/ (holder[HostHolder] = "held" /\ Aborted)
  /\ ShutdownFlags(HostHolder) /\ TelemetryOnly
Join(h) == HolderStep(h) /\ TelemetryOnly
Measure(s) == s \in load.spans /\ (StartSpan(s) \/ EndSpan(s)) /\ TelemetryOnly
Export == TelemetryStep /\ TelemetryOnly

\* ServiceState::new has succeeded; with telemetry off there is no lease to take.
Started == HostHolder \in load.holders => holder[HostHolder] = "held"
HostStep ==
  /\ Started /\ HostOnly
  /\ \/ \E m \in Modes : Bind(m, m \in host.binds) \/ TaskEnds(m)
     \/ Ready \/ Select \/ Drained
HostTrouble ==
  /\ Started /\ HostOnly
  /\ AskShutdown \/ DrainBroken \/ \E m \in Modes : Bind(m, FALSE) \/ TaskFails(m)

Receive(r) == r \in load.requests /\ Arrive(r) /\ UNCHANGED <<telemetry, session, load>>
Handle(r) == (Authenticate(r) \/ Admit(r) \/ Respond(r) \/ TimedOut(r)) /\ UNCHANGED <<telemetry, session, load>>
Time == now < load.time /\ TimePasses /\ HostOnly

KeysOnly == UNCHANGED <<telemetry, serving, session, load>>
\* A token of a request that is not modelled otherwise.
Token(k) == load.keys /\ (\E found \in BOOLEAN : Lookup(k, found)) /\ KeysOnly
Issuer == load.keys /\ Rotate /\ KeysOnly
Seconds == load.keys /\ SecondPasses /\ KeysOnly

McpOnly == UNCHANGED <<serving, signing, load>>

\* create_client, with the lease of its telemetry if it has one; it fails as well
\* on its file and its stores, and gives the lease back.
Opened(h, opened) ==
  IF h \in load.holders
  THEN \/ Acquire(h) /\ opened = (holder'[h] = "held")
       \/ ~opened /\ UNCHANGED telemetry
  ELSE UNCHANGED telemetry

McpProcess ==
  /\ load.mcp /\ McpOnly
  /\ \/ \E opened \in BOOLEAN : McpStart(opened) /\ Opened(MainHolder, opened)
     \/ McpClose /\ UNCHANGED telemetry

\* The client of a session is opened with the first tool, by the environment's
\* file and not the one main was given; a call whose client cannot be opened is
\* answered with an error, and the next one tries again.
McpLine(line) ==
  /\ load.mcp /\ McpOnly
  /\ \E answer \in {"none", "result", "error", "tool"} :
       /\ HandleLine(line, answer)
       /\ IF Opens(line, answer) THEN Opened(ToolHolder, TRUE)
          ELSE IF line = "call" /\ mcp.state = "Ready" /\ ~mcp.client THEN Opened(ToolHolder, FALSE)
          ELSE UNCHANGED telemetry

Next ==
  \/ \E h \in Holders : TakeLease(h) \/ GiveLease(h) \/ Join(h)
  \/ HostShutsDown \/ Export \/ HostStep \/ HostTrouble \/ Time \/ Issuer \/ Seconds
  \/ \E s \in Spans : Measure(s)
  \/ \E r \in Requests : Receive(r) \/ Handle(r)
  \/ \E k \in KeyIds : Token(k)
  \/ McpProcess \/ \E line \in Lines : McpLine(line)

\* Threads and tasks go on, a request is answered or times out, time passes, and
\* tokens of every key go on coming.
Fairness ==
  /\ WF_vars(Export) /\ WF_vars(HostStep) /\ WF_vars(Seconds)
  /\ \A h \in Holders : WF_vars(Join(h))
  /\ WF_vars(\E r \in Requests : Handle(r))
  /\ \A k \in KeyIds : WF_vars(Token(k))

Spec == Init /\ [][Next]_vars
FairSpec == Spec /\ Fairness

\* A span is exported, dropped and counted, or still queued, and the service lives as
\* long as its leases (acquire_lease, start_service).
TelemetrySound == SpansAccounted /\ FlushedAtStop /\ ServiceLeased

\* The limits on requests hold over all listeners, and nothing is left of a request
\* when the host reports a clean stop (ServiceState::call, serve_state_ready).
RequestsBounded == TypeOK /\ PermitsExact /\ RateBounded /\ StoppedClean

\* What others wait for comes: the telemetry mutex is freed, a host that is asked to
\* stop ends, a rotated key is picked up.
ServiceRecovers == MutexFreed /\ HostEnds /\ KeysPickedUp

=============================================================================
