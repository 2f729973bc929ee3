-------------------------- MODULE HostToolsProofs --------------------------
(***************************************************************************)
(* Proofs about the hosts of a process and the tools they dispatch to.     *)
(*                                                                         *)
(* NetworkService, for any holders, spans, requests, limits and            *)
(* workloads: every span is accounted for, the limits on requests hold     *)
(* over all listeners, a clean stop is clean, and tools wait for the       *)
(* handshake.  Its parts share no variables but through the actions of     *)
(* NetworkService, so each has an invariant of its own.                    *)
(*                                                                         *)
(* PackageTools, for any calls, requests, keys and policies: the tools     *)
(* answer with what is the case, and a key stands for one request, done    *)
(* once.  The policy calls and the batches share no variable either.       *)
(***************************************************************************)
EXTENDS NetworkService, PackageTools, FiniteSetTheorems, TLAPS

-----------------------------------------------------------------------------
(* Telemetry: the invariant.                                               *)

EndedIn(sp) == {s \in Spans : sp[s] = "ended"}
Exporters ==
  [pc: {"off", "parked", "drain", "post"}, stopping: BOOLEAN, attempt: 0 .. 2, batch: SUBSET Spans]

TelemetryTyped ==
  /\ refs \in Nat /\ lock \in Holders \cup {Nobody} /\ tracing \in BOOLEAN /\ stop \in BOOLEAN
  /\ exporter \in Exporters /\ queue \subseteq Spans /\ acked \subseteq Spans /\ dropped \in Nat
  /\ span \in [Spans -> {"new", "open", "ended", "untraced"}]
  /\ holder \in [Holders -> {"none", "held", "joining", "over", "refused"}]
  /\ shut \in [Holders -> {"no", "flags", "joining", "done"}]

\* A span is in one place at most, and got there after it had ended.
SpansInv ==
  /\ Cardinality(queue) <= QueueCap
  /\ queue \cup exporter.batch \cup acked \subseteq EndedIn(span)
  /\ queue \cap exporter.batch = {} /\ queue \cap acked = {} /\ exporter.batch \cap acked = {}
  /\ exporter.pc # "post" => exporter.batch = {}
  /\ SpansAccounted

NoShutdown == \A h \in Holders : shut[h] = "no"

\* An exporter that goes on has a service, or someone who joins it with the mutex; it
\* stops only when its service was told to.
ServiceInv ==
  /\ service = Nobody => refs = 0
  /\ service # Nobody => ~stop
  /\ exporter.stopping => stop
  /\ service = Nobody /\ lock = Nobody => exporter.pc = "off"
  /\ lock # Nobody => service = Nobody
  /\ refs <= Cardinality(Held)
  /\ ServiceLeased

\* What had ended when the service was told to stop is taken in the last round.
CutInv ==
  /\ cut \subseteq EndedIn(span)
  /\ exporter.pc = "off" => cut \cap queue = {}
  /\ exporter.pc = "post" /\ exporter.stopping => cut \cap queue = {}

TelemetryInv == TelemetryTyped /\ SpansInv /\ ServiceInv /\ CutInv

-----------------------------------------------------------------------------
(* Telemetry: leases.                                                      *)

\* Leases and spans are finitely many.
LEMMA TelemetryFinite ==
  ASSUME TelemetryTyped
  PROVE  /\ IsFiniteSet(Held) /\ IsFiniteSet(queue) /\ IsFiniteSet(acked) /\ IsFiniteSet(EndedIn(span))
         /\ IsFiniteSet(exporter.batch) /\ Cardinality(Held) \in Nat /\ Cardinality(queue) \in Nat
         /\ Cardinality(acked) \in Nat /\ Cardinality(exporter.batch) \in Nat
         /\ Cardinality(EndedIn(span)) \in Nat
<1>1. Held \subseteq Holders /\ queue \subseteq Spans /\ acked \subseteq Spans /\ EndedIn(span) \subseteq Spans
      /\ exporter.batch \subseteq Spans
  BY DEF Held, EndedIn, TelemetryTyped, Exporters
<1>2. /\ IsFiniteSet(Held) /\ IsFiniteSet(queue) /\ IsFiniteSet(acked) /\ IsFiniteSet(EndedIn(span))
      /\ IsFiniteSet(exporter.batch)
  BY <1>1, TelemetryAssumption, FS_Subset
<1> QED
  BY <1>2, FS_CardinalityType

\* One lease more,
LEMMA HeldMore ==
  ASSUME TelemetryTyped, NEW h \in Holders, holder[h] # "held", holder' = [holder EXCEPT ![h] = "held"]
  PROVE  Held' # {} /\ Cardinality(Held') = Cardinality(Held) + 1
<1>1. holder \in [Holders -> {"none", "held", "joining", "over", "refused"}]
  BY DEF TelemetryTyped
<1>2. Held' = Held \cup {h} /\ h \notin Held
  BY <1>1 DEF Held
<1>3. IsFiniteSet(Held)
  BY TelemetryFinite
<1> QED
  BY <1>2, <1>3, FS_AddElement

\* one lease less,
LEMMA HeldLess ==
  ASSUME TelemetryTyped, NEW h \in Holders, NEW x, x # "held", holder[h] = "held",
         holder' = [holder EXCEPT ![h] = x]
  PROVE  /\ Cardinality(Held) >= 1 /\ Cardinality(Held') = Cardinality(Held) - 1
         /\ Held # {} /\ Held' # {} <=> Cardinality(Held') # 0
<1>1. holder \in [Holders -> {"none", "held", "joining", "over", "refused"}]
  BY DEF TelemetryTyped
<1>2. Held' = Held \ {h} /\ h \in Held
  BY <1>1 DEF Held
<1>3. IsFiniteSet(Held) /\ IsFiniteSet(Held') /\ Cardinality(Held) \in Nat
  BY <1>2, TelemetryFinite, FS_Subset
<1>4. Cardinality(Held') = Cardinality(Held) - 1 /\ Cardinality(Held') \in Nat
  BY <1>2, <1>3, FS_RemoveElement, FS_CardinalityType
<1> QED
  BY <1>2, <1>3, <1>4, FS_EmptySet

\* or as many.
LEMMA HeldSame ==
  ASSUME TelemetryTyped, NEW h \in Holders, NEW x, x # "held", holder[h] # "held",
         holder' = [holder EXCEPT ![h] = x]
  PROVE  Held' = Held
<1>1. holder \in [Holders -> {"none", "held", "joining", "over", "refused"}]
  BY DEF TelemetryTyped
<1> QED
  BY <1>1 DEF Held

\* A holder takes a lease: it starts the service, joins it or is refused.
LEMMA AcquireKeeps ==
  ASSUME TelemetryInv, NEW h \in Holders, Acquire(h)
  PROVE  TelemetryInv'
<1>1. /\ TelemetryTyped /\ SpansInv /\ ServiceInv /\ CutInv /\ lock = Nobody
      /\ holder[h] # "held" /\ UNCHANGED <<lock, queue, dropped, acked, span, cut, shut>>
      /\ Settings[h] # Nobody /\ Settings[h].collector \in BOOLEAN /\ Exports(Settings[h]) \in BOOLEAN
      /\ Cardinality(Held) \in Nat /\ refs \in Nat
  BY TelemetryAssumption, TelemetryFinite DEF TelemetryInv, Acquire, TelemetryTyped, Exports
<1>2. CASE Refuse(h)
  <2>1. Held' = Held
    BY <1>1, <1>2, HeldSame DEF Refuse
  <2>2. TelemetryTyped'
    BY <1>1, <1>2 DEF TelemetryTyped, Refuse
  <2>3. ServiceInv'
    BY <1>1, <1>2, <2>1 DEF ServiceInv, ServiceLeased, Refuse
  <2>4. SpansInv' /\ CutInv'
    BY <1>1, <1>2 DEF SpansInv, SpansAccounted, CutInv, EndedIn, Refuse
  <2> QED
    BY <2>2, <2>3, <2>4 DEF TelemetryInv
<1>3. CASE service = Nobody /\ StartService(h)
  <2>1. Held' # {} /\ Cardinality(Held') = Cardinality(Held) + 1
    BY <1>1, <1>3, HeldMore DEF StartService
  <2>2. /\ exporter' \in Exporters /\ exporter'.batch = {} /\ ~exporter'.stopping /\ exporter'.pc # "post"
        /\ exporter'.pc = IF Exports(Settings[h]) THEN "parked" ELSE "off"
    <3>1. CASE Exports(Settings[h]) = TRUE
      <4>1. exporter' = [pc |-> "parked", stopping |-> FALSE, attempt |-> 0, batch |-> {}]
        BY <1>3, <3>1 DEF StartService, NoExporter
      <4> QED
        BY <4>1, <3>1 DEF Exporters
    <3>2. CASE Exports(Settings[h]) = FALSE
      <4>1. exporter' = [pc |-> "off", stopping |-> FALSE, attempt |-> 0, batch |-> {}]
        BY <1>3, <3>2 DEF StartService, NoExporter
      <4> QED
        BY <4>1, <3>2 DEF Exporters
    <3> QED
      BY <1>1, <3>1, <3>2
  <2>3. exporter.pc = "off" /\ exporter.batch = {}
    BY <1>1, <1>3 DEF ServiceInv, SpansInv
  <2>4. service' = Settings[h] /\ refs' = 1 /\ tracing' = Settings[h].collector /\ stop' = FALSE
    BY <1>3 DEF StartService
  <2>5. TelemetryTyped'
    <3>1. holder' = [holder EXCEPT ![h] = "held"]
      BY <1>3 DEF StartService
    <3>2. holder' \in [Holders -> {"none", "held", "joining", "over", "refused"}]
      BY <1>1, <3>1 DEF TelemetryTyped
    <3> QED
      BY <1>1, <2>2, <2>4, <3>2 DEF TelemetryTyped
  <2>6. SpansInv' /\ CutInv'
    <3>1. SpansInv'
      BY <1>1, <2>2, <2>3 DEF SpansInv, SpansAccounted, EndedIn
    <3>2. CutInv'
      BY <1>1, <2>2, <2>3 DEF CutInv, EndedIn
    <3> QED
      BY <3>1, <3>2
  <2>7. ServiceInv'
    <3>1. NoShutdown => refs' = Cardinality(Held')
      <4>1. NoShutdown => refs = Cardinality(Held)
        BY <1>1 DEF ServiceInv, ServiceLeased, NoShutdown
      <4>2. refs = 0
        BY <1>1, <1>3 DEF ServiceInv
      <4> QED
        BY <1>1, <2>1, <2>4, <4>1, <4>2
    <3>2. NoShutdown' = NoShutdown
      BY <1>1 DEF NoShutdown
    <3>3. ServiceLeased'
      BY <1>1, <2>1, <2>2, <2>4, <3>1, <3>2 DEF ServiceLeased, NoShutdown
    <3> QED
      BY <1>1, <2>1, <2>2, <2>4, <3>3 DEF ServiceInv
  <2> QED
    BY <2>5, <2>6, <2>7 DEF TelemetryInv
<1>4. CASE /\ service = Settings[h] /\ refs' = refs + 1 /\ holder' = [holder EXCEPT ![h] = "held"]
           /\ UNCHANGED <<service, tracing, stop, exporter>>
  <2>1. Held' # {} /\ Cardinality(Held') = Cardinality(Held) + 1
    BY <1>1, <1>4, HeldMore
  <2>2. TelemetryTyped'
    BY <1>1, <1>4 DEF TelemetryTyped
  <2>3. ServiceInv'
    BY <1>1, <1>4, <2>1 DEF ServiceInv, ServiceLeased
  <2>4. SpansInv' /\ CutInv'
    BY <1>1, <1>4 DEF SpansInv, SpansAccounted, CutInv, EndedIn
  <2> QED
    BY <2>2, <2>3, <2>4 DEF TelemetryInv
<1> QED
  BY <1>2, <1>3, <1>4 DEF Acquire

\* The service is told to stop: its exporter has not begun its last round.
LEMMA StopKeeps ==
  ASSUME TelemetryInv, NEW h \in Holders, service # Nobody, service' = Nobody, stop' = TRUE, lock' = h,
         cut' = (IF exporter.pc = "off" THEN {} ELSE {s \in Spans : span[s] = "ended"}),
         refs' = 0, tracing' \in BOOLEAN, NoShutdown' => NoShutdown /\ tracing' = FALSE /\ Held' = {},
         holder' \in [Holders -> {"none", "held", "joining", "over", "refused"}],
         shut' \in [Holders -> {"no", "flags", "joining", "done"}],
         UNCHANGED <<exporter, queue, dropped, acked, span>>
  PROVE  TelemetryInv'
<1>1. /\ TelemetryTyped /\ SpansInv /\ ServiceInv /\ CutInv /\ ~stop /\ ~exporter.stopping /\ h # Nobody
      /\ exporter.stopping \in BOOLEAN
  BY TelemetryAssumption DEF TelemetryInv, ServiceInv, TelemetryTyped, Exporters
<1>2. TelemetryTyped'
  BY <1>1 DEF TelemetryTyped
<1>3. SpansInv'
  BY <1>1 DEF SpansInv, SpansAccounted, EndedIn
<1>4. CutInv'
  BY <1>1 DEF CutInv, EndedIn
<1>5. Cardinality(Held') \in Nat /\ Cardinality({}) = 0
  <2>1. Held' \subseteq Holders
    BY DEF Held
  <2> QED
    BY <2>1, TelemetryAssumption, FS_Subset, FS_CardinalityType, FS_EmptySet
<1>6. ServiceInv'
  <2>1. ServiceLeased'
    BY <1>1, <1>5 DEF ServiceLeased, NoShutdown
  <2> QED
    BY <1>1, <1>5, <2>1 DEF ServiceInv
<1> QED
  BY <1>2, <1>3, <1>4, <1>6 DEF TelemetryInv

\* A lease is given back, the last one with the service.
LEMMA ReleaseKeeps ==
  ASSUME TelemetryInv, NEW h \in Holders, Release(h)
  PROVE  TelemetryInv'
<1>1. /\ TelemetryTyped /\ SpansInv /\ ServiceInv /\ CutInv /\ holder[h] = "held"
      /\ UNCHANGED <<exporter, queue, dropped, acked, span, shut>>
      /\ Cardinality(Held) \in Nat /\ refs \in Nat
  BY TelemetryFinite DEF TelemetryInv, Release, TelemetryTyped
<1>2. ASSUME NEW x \in {"over", "joining"}, holder' = [holder EXCEPT ![h] = x]
      PROVE  /\ holder' \in [Holders -> {"none", "held", "joining", "over", "refused"}]
             /\ Cardinality(Held) >= 1 /\ Cardinality(Held') = Cardinality(Held) - 1
             /\ Held # {} /\ Held' # {} <=> Cardinality(Held') # 0
  <2>1. holder' \in [Holders -> {"none", "held", "joining", "over", "refused"}]
    BY <1>1, <1>2 DEF TelemetryTyped
  <2>2. x # "held"
    OBVIOUS
  <2> QED
    BY <1>1, <1>2, <2>1, <2>2, HeldLess
<1>3. CASE /\ service = Nobody \/ refs > 1
           /\ refs' = IF service = Nobody THEN refs ELSE refs - 1
           /\ holder' = [holder EXCEPT ![h] = "over"] /\ UNCHANGED <<service, lock, tracing, stop, cut>>
  <2>1. /\ holder' \in [Holders -> {"none", "held", "joining", "over", "refused"}]
        /\ Cardinality(Held) >= 1 /\ Cardinality(Held') = Cardinality(Held) - 1
        /\ Held # {} /\ Held' # {} <=> Cardinality(Held') # 0
    BY <1>2, <1>3
  <2>2. TelemetryTyped'
    BY <1>1, <1>3, <2>1 DEF TelemetryTyped
  <2>3. ServiceLeased'
    BY <1>1, <1>3, <2>1 DEF ServiceInv, ServiceLeased
  <2>4. ServiceInv'
    BY <1>1, <1>3, <2>1, <2>3 DEF ServiceInv
  <2>5. SpansInv' /\ CutInv'
    BY <1>1, <1>3 DEF SpansInv, SpansAccounted, CutInv, EndedIn
  <2> QED
    BY <2>2, <2>4, <2>5 DEF TelemetryInv
<1>4. CASE service # Nobody /\ refs = 1 /\ refs' = 0 /\ holder' = [holder EXCEPT ![h] = "joining"] /\ Stop(h)
  <2>1. /\ holder' \in [Holders -> {"none", "held", "joining", "over", "refused"}]
        /\ Cardinality(Held) >= 1 /\ Cardinality(Held') = Cardinality(Held) - 1
        /\ Held # {} /\ Held' # {} <=> Cardinality(Held') # 0
    BY <1>2, <1>4
  <2>2. NoShutdown' => NoShutdown /\ tracing' = FALSE /\ Held' = {}
    BY <1>1, <1>4, <2>1 DEF Stop, NoShutdown, ServiceInv, ServiceLeased
  <2>3. shut' \in [Holders -> {"no", "flags", "joining", "done"}]
    BY <1>1 DEF TelemetryTyped
  <2> QED
    BY <1>1, <1>4, <2>1, <2>2, <2>3, StopKeeps DEF Stop
<1> QED
  BY <1>3, <1>4 DEF Release

\* shutdown turns the traces off, whoever leases the service,
LEMMA ShutdownKeeps ==
  ASSUME TelemetryInv, NEW h \in Holders, ShutdownFlags(h) \/ ShutdownTake(h)
  PROVE  TelemetryInv'
<1>1. /\ TelemetryTyped /\ SpansInv /\ ServiceInv /\ CutInv
      /\ holder \in [Holders -> {"none", "held", "joining", "over", "refused"}]
      /\ shut \in [Holders -> {"no", "flags", "joining", "done"}]
      /\ Cardinality(Held) \in Nat
  BY TelemetryFinite DEF TelemetryInv, TelemetryTyped
<1>2. CASE ShutdownFlags(h)
  <2>1. ~NoShutdown' /\ shut' \in [Holders -> {"no", "flags", "joining", "done"}]
    BY <1>1, <1>2 DEF ShutdownFlags, NoShutdown
  <2>2. TelemetryTyped'
    BY <1>1, <1>2, <2>1 DEF TelemetryTyped, ShutdownFlags, tracers
  <2>3. ServiceInv'
    BY <1>1, <1>2, <2>1 DEF ServiceInv, ServiceLeased, NoShutdown, Held, ShutdownFlags, tracers
  <2>4. SpansInv' /\ CutInv'
    BY <1>1, <1>2 DEF SpansInv, SpansAccounted, CutInv, EndedIn, ShutdownFlags, tracers
  <2> QED
    BY <2>2, <2>3, <2>4 DEF TelemetryInv
<1>3. CASE ShutdownTake(h) /\ service # Nobody
  <2>1. ~NoShutdown' /\ shut' \in [Holders -> {"no", "flags", "joining", "done"}]
    BY <1>1, <1>3 DEF ShutdownTake, NoShutdown
  <2>2. tracing' \in BOOLEAN /\ holder' \in [Holders -> {"none", "held", "joining", "over", "refused"}]
    BY <1>1, <1>3 DEF ShutdownTake, TelemetryTyped
  <2> QED
    BY <1>3, <2>1, <2>2, StopKeeps DEF ShutdownTake
<1>4. CASE ShutdownTake(h) /\ service = Nobody
  <2>1. ~NoShutdown' /\ shut' \in [Holders -> {"no", "flags", "joining", "done"}]
    BY <1>1, <1>4 DEF ShutdownTake, NoShutdown
  <2>2. TelemetryTyped'
    BY <1>1, <1>4, <2>1 DEF TelemetryTyped, ShutdownTake
  <2>3. ServiceInv'
    BY <1>1, <1>4, <2>1 DEF ServiceInv, ServiceLeased, NoShutdown, Held, ShutdownTake
  <2>4. SpansInv' /\ CutInv'
    BY <1>1, <1>4 DEF SpansInv, SpansAccounted, CutInv, EndedIn, ShutdownTake
  <2> QED
    BY <2>2, <2>3, <2>4 DEF TelemetryInv
<1> QED
  BY <1>2, <1>3, <1>4

\* and the mutex is freed when the exporter is gone.
LEMMA JoinedKeeps ==
  ASSUME TelemetryInv, NEW h \in Holders, ReleaseJoined(h) \/ ShutdownJoined(h)
  PROVE  TelemetryInv'
<1>1. /\ TelemetryTyped /\ SpansInv /\ ServiceInv /\ CutInv
      /\ holder \in [Holders -> {"none", "held", "joining", "over", "refused"}]
      /\ shut \in [Holders -> {"no", "flags", "joining", "done"}]
  BY DEF TelemetryInv, TelemetryTyped
<1>2. /\ Held' = Held /\ (NoShutdown' => NoShutdown) /\ exporter.pc = "off" /\ lock' = Nobody
      /\ holder' \in [Holders -> {"none", "held", "joining", "over", "refused"}]
      /\ shut' \in [Holders -> {"no", "flags", "joining", "done"}]
      /\ UNCHANGED <<service, refs, tracing, stop, exporter, queue, dropped, acked, span, cut>>
  <2>1. CASE ReleaseJoined(h)
    <3>1. Held' = Held
      BY <1>1, <2>1, HeldSame DEF ReleaseJoined
    <3> QED
      BY <1>1, <2>1, <3>1 DEF ReleaseJoined, NoShutdown, tracers
  <2>2. CASE ShutdownJoined(h)
    BY <1>1, <2>2 DEF ShutdownJoined, NoShutdown, Held, tracers
  <2> QED
    BY <2>1, <2>2
<1>3. TelemetryTyped'
  BY <1>1, <1>2 DEF TelemetryTyped
<1>4. ServiceInv'
  BY <1>1, <1>2 DEF ServiceInv, ServiceLeased, NoShutdown
<1>5. SpansInv' /\ CutInv'
  BY <1>1, <1>2 DEF SpansInv, SpansAccounted, CutInv, EndedIn
<1> QED
  BY <1>3, <1>4, <1>5 DEF TelemetryInv

-----------------------------------------------------------------------------
(* Telemetry: spans.                                                       *)

\* A span begins or ends.
LEMMA MeasureKeeps ==
  ASSUME TelemetryInv, NEW s \in Spans, StartSpan(s) \/ EndSpan(s)
  PROVE  TelemetryInv'
<1>1. /\ TelemetryTyped /\ SpansInv /\ ServiceInv /\ CutInv
      /\ span \in [Spans -> {"new", "open", "ended", "untraced"}] /\ tracing \in BOOLEAN
      /\ queue \subseteq Spans /\ dropped \in Nat /\ QueueCap \in Nat /\ exporter \in Exporters
  BY TelemetryAssumption DEF TelemetryInv, TelemetryTyped
<1>2. CASE StartSpan(s)
  <2>1. EndedIn(span') = EndedIn(span) /\ span' \in [Spans -> {"new", "open", "ended", "untraced"}]
    BY <1>1, <1>2 DEF StartSpan, EndedIn
  <2>2. {x \in Spans : span'[x] = "ended"} = {x \in Spans : span[x] = "ended"}
    BY <2>1 DEF EndedIn
  <2>3. TelemetryTyped'
    BY <1>1, <1>2, <2>1 DEF StartSpan, TelemetryTyped
  <2>4. ServiceInv'
    BY <1>1, <1>2 DEF ServiceInv, ServiceLeased, Held, StartSpan
  <2>5. SpansInv' /\ CutInv'
    BY <1>1, <1>2, <2>1, <2>2 DEF StartSpan, SpansInv, SpansAccounted, CutInv
  <2> QED
    BY <2>3, <2>4, <2>5 DEF TelemetryInv
<1>3. CASE EndSpan(s)
  <2>1. /\ EndedIn(span') = EndedIn(span) \cup {s} /\ s \notin EndedIn(span)
        /\ span' \in [Spans -> {"new", "open", "ended", "untraced"}]
    BY <1>1, <1>3 DEF EndSpan, EndedIn
  <2>2. /\ IsFiniteSet(EndedIn(span)) /\ IsFiniteSet(queue) /\ Cardinality(queue) \in Nat
        /\ Cardinality(acked) \in Nat /\ Cardinality(exporter.batch) \in Nat
        /\ Cardinality(EndedIn(span)) \in Nat
    BY <1>1, TelemetryFinite
  <2>3. Cardinality(EndedIn(span')) = Cardinality(EndedIn(span)) + 1
    BY <2>1, <2>2, FS_AddElement
  <2>4. s \notin queue /\ s \notin exporter.batch /\ s \notin acked /\ s \notin cut
    BY <1>1, <2>1 DEF SpansInv, CutInv
  <2>5. \/ /\ queue' = queue \cup {s} /\ Cardinality(queue') = Cardinality(queue) + 1
           /\ Cardinality(queue') <= QueueCap /\ dropped' = dropped
        \/ queue' = queue /\ Cardinality(queue') <= QueueCap /\ dropped' = dropped + 1
    <3>1. CASE Cardinality(queue) < QueueCap
      <4>1. queue' = queue \cup {s} /\ dropped' = dropped
        BY <1>3, <3>1 DEF EndSpan
      <4>2. Cardinality(queue \cup {s}) = Cardinality(queue) + 1
        BY <2>2, <2>4, FS_AddElement
      <4> QED
        BY <1>1, <2>2, <3>1, <4>1, <4>2
    <3>2. CASE ~(Cardinality(queue) < QueueCap)
      <4>1. queue' = queue /\ dropped' = dropped + 1
        BY <1>3, <3>2 DEF EndSpan
      <4> QED
        BY <1>1, <4>1 DEF SpansInv
    <3> QED
      BY <3>1, <3>2
  <2>6. UNCHANGED <<service, refs, lock, tracing, stop, exporter, acked, holder, cut, shut>>
    BY <1>3 DEF EndSpan
  <2>7. TelemetryTyped'
    BY <1>1, <2>1, <2>5, <2>6 DEF TelemetryTyped
  <2>8. ServiceInv'
    BY <1>1, <2>6 DEF ServiceInv, ServiceLeased, Held
  <2>9. SpansInv'
    <3>1. SpansAccounted'
      <4>1. Cardinality(EndedIn(span)) = Cardinality(queue) + Cardinality(exporter.batch) + Cardinality(acked) + dropped
        BY <1>1 DEF SpansInv, SpansAccounted, EndedIn
      <4>2. Cardinality(EndedIn(span')) =
              Cardinality(queue') + Cardinality(exporter'.batch) + Cardinality(acked') + dropped'
        BY <1>1, <2>2, <2>3, <2>5, <2>6, <4>1
      <4> QED
        BY <4>2 DEF SpansAccounted, EndedIn
    <3>2. queue' \cup exporter'.batch \cup acked' \subseteq EndedIn(span')
      BY <1>1, <2>1, <2>5, <2>6 DEF SpansInv
    <3>3. queue' \cap exporter'.batch = {} /\ queue' \cap acked' = {} /\ exporter'.batch \cap acked' = {}
      BY <1>1, <2>4, <2>5, <2>6 DEF SpansInv
    <3> QED
      BY <1>1, <2>5, <2>6, <3>1, <3>2, <3>3 DEF SpansInv
  <2>10. CutInv'
    BY <1>1, <2>1, <2>4, <2>5, <2>6 DEF CutInv
  <2> QED
    BY <2>7, <2>8, <2>9, <2>10 DEF TelemetryInv
<1> QED
  BY <1>2, <1>3

\* The exporter: what it takes, it acknowledges or gives up.
LEMMA ExportKeeps ==
  ASSUME TelemetryInv, TelemetryStep
  PROVE  TelemetryInv'
<1>1. /\ TelemetryTyped /\ SpansInv /\ ServiceInv /\ CutInv
      /\ queue \subseteq Spans /\ acked \subseteq Spans /\ dropped \in Nat /\ stop \in BOOLEAN
      /\ exporter \in Exporters
      /\ IsFiniteSet(acked) /\ IsFiniteSet(exporter.batch) /\ Cardinality(queue) \in Nat
      /\ Cardinality(acked) \in Nat /\ Cardinality(exporter.batch) \in Nat /\ Cardinality({}) = 0
      /\ QueueCap \in Nat
  BY TelemetryFinite, TelemetryAssumption, FS_EmptySet DEF TelemetryInv, TelemetryTyped
<1>2. UNCHANGED exporting
  BY DEF TelemetryStep, Wake, TakeSpans, Retry, Posted
<1>3. UNCHANGED <<service, refs, lock, tracing, stop, span, holder, cut, shut>>
  BY <1>2 DEF exporting
<1>4. CASE Wake
  <2>1. exporter' = [exporter EXCEPT !.pc = "drain", !.stopping = stop] /\ UNCHANGED <<queue, dropped, acked>>
    BY <1>4 DEF Wake
  <2>2. /\ exporter' \in Exporters /\ exporter'.pc = "drain" /\ exporter'.stopping = stop
        /\ exporter'.batch = exporter.batch /\ exporter.pc = "parked"
    BY <1>1, <1>4, <2>1 DEF Exporters, Wake
  <2>3. TelemetryTyped'
    BY <1>1, <1>3, <2>1, <2>2 DEF TelemetryTyped
  <2>4. ServiceInv'
    BY <1>1, <1>3, <2>2 DEF ServiceInv, ServiceLeased, Held
  <2>5. SpansInv' /\ CutInv'
    BY <1>1, <1>3, <2>1, <2>2 DEF SpansInv, SpansAccounted, CutInv, EndedIn
  <2> QED
    BY <2>3, <2>4, <2>5 DEF TelemetryInv
<1>5. CASE TakeSpans
  <2>1. /\ exporter' = [exporter EXCEPT !.pc = IF queue = {} THEN AfterRound(exporter.stopping) ELSE "post",
                                        !.batch = queue, !.attempt = 0]
        /\ queue' = {} /\ UNCHANGED <<dropped, acked>> /\ exporter.pc = "drain"
    BY <1>5 DEF TakeSpans
  <2>2. /\ exporter' \in Exporters /\ exporter'.batch = queue /\ exporter'.stopping = exporter.stopping
        /\ exporter'.pc \in {"post", "off", "parked"}
        /\ exporter'.pc # "post" => queue = {} /\ exporter'.pc = AfterRound(exporter.stopping)
    <3> DEFINE next == IF queue = {} THEN AfterRound(exporter.stopping) ELSE "post"
    <3>1. next \in {"post", "off", "parked"} /\ (next # "post" => queue = {} /\ next = AfterRound(exporter.stopping))
      BY DEF AfterRound
    <3>2. /\ exporter'.pc = next /\ exporter'.batch = queue /\ exporter'.attempt = 0
          /\ exporter'.stopping = exporter.stopping
          /\ exporter' = [pc |-> next, stopping |-> exporter.stopping, attempt |-> 0, batch |-> queue]
      <4> HIDE DEF next
      <4>1. exporter' = [exporter EXCEPT !.pc = next, !.batch = queue, !.attempt = 0]
        BY <2>1 DEF next
      <4> QED
        BY <1>1, <4>1 DEF Exporters
    <3> HIDE DEF next
    <3>3. exporter' \in Exporters
      BY <1>1, <3>1, <3>2 DEF Exporters
    <3> QED
      BY <3>1, <3>2, <3>3
  <2>3. TelemetryTyped'
    BY <1>1, <1>3, <2>1, <2>2 DEF TelemetryTyped
  <2>4. ServiceInv'
    BY <1>1, <1>3, <2>1, <2>2 DEF ServiceInv, ServiceLeased, Held, AfterRound
  <2>5. SpansInv'
    <3>1. exporter.batch = {}
      BY <1>1, <2>1 DEF SpansInv
    <3>2. SpansAccounted'
      BY <1>1, <1>3, <2>1, <2>2, <3>1 DEF SpansInv, SpansAccounted
    <3> QED
      BY <1>1, <1>3, <2>1, <2>2, <3>1, <3>2 DEF SpansInv, EndedIn
  <2>6. CutInv'
    BY <1>1, <1>3, <2>1, <2>2 DEF CutInv, EndedIn
  <2> QED
    BY <2>3, <2>4, <2>5, <2>6 DEF TelemetryInv
<1>6. CASE Retry
  <2>1. exporter' = [exporter EXCEPT !.attempt = @ + 1] /\ UNCHANGED <<queue, dropped, acked>>
    BY <1>6 DEF Retry
  <2>2. /\ exporter' \in Exporters /\ exporter'.pc = exporter.pc /\ exporter'.stopping = exporter.stopping
        /\ exporter'.batch = exporter.batch
    BY <1>1, <1>6, <2>1 DEF Exporters, Retry
  <2>3. TelemetryTyped'
    BY <1>1, <1>3, <2>1, <2>2 DEF TelemetryTyped
  <2>4. ServiceInv'
    BY <1>1, <1>3, <2>2 DEF ServiceInv, ServiceLeased, Held
  <2>5. SpansInv' /\ CutInv'
    BY <1>1, <1>3, <2>1, <2>2 DEF SpansInv, SpansAccounted, CutInv, EndedIn
  <2> QED
    BY <2>3, <2>4, <2>5 DEF TelemetryInv
<1>7. CASE Posted
  <2>1. /\ exporter' = [exporter EXCEPT !.pc = AfterRound(exporter.stopping), !.batch = {}]
        /\ \/ acked' = acked \cup exporter.batch /\ dropped' = dropped
           \/ dropped' = dropped + Cardinality(exporter.batch) /\ acked' = acked
        /\ queue' = queue /\ exporter.pc = "post"
    BY <1>7 DEF Posted
  <2>2. /\ exporter' \in Exporters /\ exporter'.batch = {} /\ exporter'.stopping = exporter.stopping
        /\ exporter'.pc = AfterRound(exporter.stopping) /\ exporter'.pc # "post"
    BY <1>1, <2>1 DEF Exporters, AfterRound
  <2>3. TelemetryTyped'
    <3>1. acked' \subseteq Spans /\ dropped' \in Nat
      BY <1>1, <2>1 DEF Exporters
    <3> QED
      BY <1>1, <1>3, <2>1, <2>2, <3>1 DEF TelemetryTyped
  <2>4. ServiceInv'
    BY <1>1, <1>3, <2>1, <2>2 DEF ServiceInv, ServiceLeased, Held, AfterRound
  <2>5. SpansInv'
    <3>1. Cardinality(acked') + dropped' = Cardinality(acked) + Cardinality(exporter.batch) + dropped
      <4>1. acked \cap exporter.batch = {}
        BY <1>1 DEF SpansInv
      <4>2. Cardinality(acked \cup exporter.batch) = Cardinality(acked) + Cardinality(exporter.batch)
        <5>1. Cardinality(acked \cap exporter.batch) = 0
          BY <1>1, <4>1
        <5>2. Cardinality(acked \cup exporter.batch) =
                Cardinality(acked) + Cardinality(exporter.batch) - Cardinality(acked \cap exporter.batch)
          BY <1>1, FS_Union
        <5> QED
          BY <1>1, <5>1, <5>2
      <4>3. CASE acked' = acked \cup exporter.batch /\ dropped' = dropped
        BY <1>1, <4>2, <4>3
      <4>4. CASE dropped' = dropped + Cardinality(exporter.batch) /\ acked' = acked
        BY <1>1, <4>4
      <4> QED
        BY <2>1, <4>3, <4>4
    <3>2. Cardinality(acked') \in Nat /\ dropped' \in Nat
      <4>1. IsFiniteSet(acked')
        BY <1>1, <2>1, FS_Union
      <4> QED
        BY <4>1, <2>3, FS_CardinalityType DEF TelemetryTyped
    <3>3. SpansAccounted'
      <4>1. Cardinality({x \in Spans : span'[x] = "ended"}) =
              Cardinality(queue) + Cardinality(exporter.batch) + Cardinality(acked) + dropped
        BY <1>1, <1>3 DEF SpansInv, SpansAccounted
      <4> QED
        BY <1>1, <2>1, <2>2, <3>1, <3>2, <4>1 DEF SpansAccounted
    <3>4. queue' \cup exporter'.batch \cup acked' \subseteq EndedIn(span')
      BY <1>1, <1>3, <2>1, <2>2 DEF SpansInv, EndedIn
    <3>5. queue' \cap exporter'.batch = {} /\ queue' \cap acked' = {} /\ exporter'.batch \cap acked' = {}
      BY <1>1, <2>1, <2>2 DEF SpansInv
    <3> QED
      BY <1>1, <2>1, <2>2, <3>3, <3>4, <3>5 DEF SpansInv
  <2>6. CutInv'
    BY <1>1, <1>3, <2>1, <2>2 DEF CutInv, EndedIn, AfterRound
  <2> QED
    BY <2>3, <2>4, <2>5, <2>6 DEF TelemetryInv
<1> QED
  BY <1>4, <1>5, <1>6, <1>7 DEF TelemetryStep

-----------------------------------------------------------------------------
(* Telemetry: every step of the process.                                   *)

LEMMA TelemetryStarts ==
  ASSUME TelemetryInit
  PROVE  TelemetryInv
<1>1. Held = {} /\ EndedIn(span) = {} /\ {s \in Spans : span[s] = "ended"} = {} /\ Cardinality({}) = 0
  BY FS_EmptySet DEF TelemetryInit, Held, EndedIn
<1>2. exporter \in Exporters /\ exporter.pc = "off" /\ exporter.batch = {} /\ ~exporter.stopping
  BY DEF TelemetryInit, NoExporter, Exporters
<1>3. TelemetryTyped
  BY <1>2 DEF TelemetryInit, TelemetryTyped
<1>4. SpansInv /\ CutInv
  <2>1. queue = {} /\ acked = {} /\ cut = {} /\ dropped = 0 /\ QueueCap \in Nat
    BY TelemetryAssumption DEF TelemetryInit
  <2>2. SpansAccounted
    BY <1>1, <1>2, <2>1 DEF SpansAccounted
  <2> QED
    BY <1>1, <1>2, <2>1, <2>2 DEF SpansInv, CutInv
<1>5. ServiceInv
  BY <1>1, <1>2 DEF TelemetryInit, ServiceInv, ServiceLeased
<1> QED
  BY <1>3, <1>4, <1>5 DEF TelemetryInv

LEMMA TelemetryStutters ==
  ASSUME TelemetryInv, UNCHANGED telemetry
  PROVE  TelemetryInv'
<1>1. UNCHANGED <<service, refs, lock, tracing, stop, exporter, queue, dropped, acked, span, holder, cut, shut>>
  BY DEF telemetry
<1>2. TelemetryTyped' /\ SpansInv'
  BY <1>1 DEF TelemetryInv, TelemetryTyped, SpansInv, SpansAccounted, EndedIn
<1>3. ServiceInv' /\ CutInv'
  BY <1>1 DEF TelemetryInv, ServiceInv, ServiceLeased, Held, CutInv, EndedIn
<1> QED
  BY <1>2, <1>3 DEF TelemetryInv

LEMMA TelemetryPreserved ==
  ASSUME TelemetryInv, [Next]_vars
  PROVE  TelemetryInv'
<1>1. ASSUME NEW h \in Holders, Acquire(h) \/ Release(h) \/ HolderStep(h) \/ ShutdownFlags(h)
      PROVE  TelemetryInv'
  BY <1>1, AcquireKeeps, ReleaseKeeps, ShutdownKeeps, JoinedKeeps DEF HolderStep
<1>2. ASSUME NEW h \in Holders, NEW opened, Opened(h, opened)
      PROVE  TelemetryInv'
  BY <1>1, <1>2, TelemetryStutters DEF Opened
<1>3. ASSUME UNCHANGED telemetry
      PROVE  TelemetryInv'
  BY <1>3, TelemetryStutters
<1>4. CASE \E h \in Holders : TakeLease(h) \/ GiveLease(h) \/ Join(h)
  BY <1>1, <1>4 DEF TakeLease, GiveLease, Join
<1>5. CASE HostShutsDown
  BY <1>1, <1>5, ServiceAssumption DEF HostShutsDown
<1>6. CASE Export \/ \E s \in Spans : Measure(s)
  BY <1>6, ExportKeeps, MeasureKeeps DEF Export, Measure
<1>7. CASE HostStep \/ HostTrouble \/ Time
  BY <1>3, <1>7 DEF HostStep, HostTrouble, Time, HostOnly
<1>8. CASE Issuer \/ Seconds \/ \E k \in KeyIds : Token(k)
  BY <1>3, <1>8 DEF Issuer, Seconds, Token, KeysOnly
<1>9. CASE \E r \in Requests : Receive(r) \/ Handle(r)
  BY <1>3, <1>9 DEF Receive, Handle
<1>10. CASE McpProcess
  BY <1>2, <1>3, <1>10, ServiceAssumption DEF McpProcess
<1>11. CASE \E line \in Lines : McpLine(line)
  BY <1>2, <1>3, <1>11, ServiceAssumption DEF McpLine
<1>12. CASE UNCHANGED vars
  BY <1>3, <1>12 DEF vars
<1> QED
  BY <1>4, <1>5, <1>6, <1>7, <1>8, <1>9, <1>10, <1>11, <1>12 DEF Next

-----------------------------------------------------------------------------
(* The MCP session.                                                        *)

McpTyped ==
  /\ mcp \in [pc: {"starting", "serving", "closed", "failed"}, state: {"New", "Initializing", "Ready"}, client: BOOLEAN]
  /\ heard \in Seq({"initialize", "initialized", "list", "call"}) /\ Len(heard) <= MaxLines

\* The state of the session is what has been heard.
McpInv ==
  /\ McpTyped
  /\ mcp.state = "New" => \A i \in 1 .. Len(heard) : heard[i] = "initialized"
  /\ mcp.state # "New" => \E i \in 1 .. Len(heard) : heard[i] = "initialize"
  /\ mcp.state = "Ready" =>
       \E i, k \in 1 .. Len(heard) : i < k /\ heard[i] = "initialize" /\ heard[k] = "initialized"
  /\ ToolsAfterHandshake

LEMMA McpStarts ==
  ASSUME McpInit
  PROVE  McpInv
<1>1. mcp = [pc |-> "starting", state |-> "New", client |-> FALSE] /\ heard = <<>> /\ Len(heard) = 0
  BY DEF McpInit
<1>2. McpTyped
  BY <1>1, McpAssumption DEF McpTyped
<1>3. ToolsAfterHandshake
  BY <1>1 DEF ToolsAfterHandshake
<1> QED
  BY <1>1, <1>2, <1>3 DEF McpInv

\* A line that is not answered with an error extends what has been heard, and no
\* tool is among it before the session is ready.
LEMMA LineHeard ==
  ASSUME McpInv, NEW line, NEW answer, mcp.pc = "serving", answer \in Answers(line),
         line \in {"initialize", "initialized", "list", "call"}, answer # "error",
         Len(heard) < MaxLines, heard' = Append(heard, line),
         mcp' = [mcp EXCEPT !.state = NextState(line), !.client = @ \/ answer = "tool"]
  PROVE  McpInv'
<1>1. /\ McpTyped /\ heard \in Seq({"initialize", "initialized", "list", "call"}) /\ Len(heard) \in Nat
      /\ mcp.client \in BOOLEAN /\ MaxLines \in Nat /\ ToolsAfterHandshake
      /\ mcp.state \in {"New", "Initializing", "Ready"}
  BY McpAssumption DEF McpInv, McpTyped
<1>2. /\ line = "initialize" => mcp.state = "New"
      /\ line \in {"list", "call"} => mcp.state = "Ready"
  BY <1>1 DEF Answers
<1>3. /\ mcp'.state = IF line = "initialized" /\ mcp.state = "Initializing" THEN "Ready"
                      ELSE IF line = "initialize" THEN "Initializing" ELSE mcp.state
  BY <1>1, <1>2 DEF McpTyped, NextState
<1>4. /\ heard' \in Seq({"initialize", "initialized", "list", "call"}) /\ Len(heard') = Len(heard) + 1
      /\ heard'[Len(heard) + 1] = line
  BY <1>1
<1>5. \A i \in 1 .. Len(heard) : i \in 1 .. Len(heard') /\ heard'[i] = heard[i]
  BY <1>1
<1>6. \A i \in 1 .. Len(heard') : i \in 1 .. Len(heard) \/ i = Len(heard) + 1
  BY <1>1, <1>4
<1>7. McpTyped'
  <2>1. NextState(line) \in {"New", "Initializing", "Ready"}
    BY <1>1 DEF NextState
  <2>2. mcp' \in [pc: {"starting", "serving", "closed", "failed"}, state: {"New", "Initializing", "Ready"}, client: BOOLEAN]
    BY <1>1, <2>1 DEF McpTyped
  <2> QED
    BY <1>1, <1>4, <2>2 DEF McpTyped
<1>8. mcp'.state = "New" => \A i \in 1 .. Len(heard') : heard'[i] = "initialized"
  <2> SUFFICES ASSUME mcp'.state = "New"
               PROVE  \A i \in 1 .. Len(heard') : heard'[i] = "initialized"
    OBVIOUS
  <2>1. mcp.state = "New" /\ line = "initialized"
    BY <1>1, <1>2, <1>3
  <2> QED
    BY <1>4, <1>5, <1>6, <2>1 DEF McpInv
<1>9. mcp'.state # "New" => \E i \in 1 .. Len(heard') : heard'[i] = "initialize"
  <2>1. CASE line = "initialize"
    BY <1>1, <1>4, <2>1
  <2>2. CASE line # "initialize" /\ mcp'.state # "New"
    <3>1. mcp.state # "New"
      BY <1>1, <1>3, <2>2
    <3> QED
      BY <1>5, <3>1 DEF McpInv
  <2> QED
    BY <2>1, <2>2
<1>10. mcp'.state = "Ready" =>
         \E i, k \in 1 .. Len(heard') : i < k /\ heard'[i] = "initialize" /\ heard'[k] = "initialized"
  <2>1. CASE mcp.state = "Ready"
    BY <1>5, <2>1 DEF McpInv
  <2>2. CASE mcp.state # "Ready" /\ mcp'.state = "Ready"
    <3>1. line = "initialized" /\ mcp.state = "Initializing"
      BY <1>1, <1>3, <2>2
    <3>2. PICK i \in 1 .. Len(heard) : heard[i] = "initialize"
      BY <3>1 DEF McpInv
    <3>3. i \in 1 .. Len(heard') /\ heard'[i] = "initialize" /\ i < Len(heard) + 1 /\ Len(heard) + 1 \in 1 .. Len(heard')
      BY <1>1, <1>4, <1>5, <3>2
    <3> QED
      BY <1>4, <3>1, <3>3
  <2> QED
    BY <2>1, <2>2
<1>11. ToolsAfterHandshake'
  <2>1. ASSUME NEW i \in 1 .. Len(heard'), NEW j \in 1 .. Len(heard'),
               heard'[i] = "initialize", heard'[j] = "initialize"
        PROVE  i = j
    <3>1. CASE line = "initialize"
      <4>1. \A x \in 1 .. Len(heard) : heard[x] = "initialized"
        BY <1>2, <3>1 DEF McpInv
      <4> QED
        BY <1>5, <1>6, <2>1, <4>1
    <3>2. CASE line # "initialize"
      <4>1. i \in 1 .. Len(heard) /\ j \in 1 .. Len(heard) /\ heard[i] = "initialize" /\ heard[j] = "initialize"
        BY <1>4, <1>5, <1>6, <2>1, <3>2
      <4> QED
        BY <1>1, <4>1 DEF ToolsAfterHandshake
    <3> QED
      BY <3>1, <3>2
  <2>2. ASSUME NEW n \in 1 .. Len(heard'), heard'[n] \in {"list", "call"}
        PROVE  \E i \in 1 .. Len(heard'), k \in 1 .. n : heard'[i] = "initialize" /\ i < k /\ heard'[k] = "initialized"
    <3>1. CASE n \in 1 .. Len(heard)
      <4>1. PICK i \in 1 .. Len(heard), k \in 1 .. n : heard[i] = "initialize" /\ i < k /\ heard[k] = "initialized"
        BY <1>1, <1>5, <2>2, <3>1 DEF ToolsAfterHandshake
      <4>2. k \in 1 .. Len(heard)
        BY <1>1, <3>1
      <4> QED
        BY <1>5, <4>1, <4>2
    <3>2. CASE n = Len(heard) + 1
      <4>1. mcp.state = "Ready"
        BY <1>2, <1>4, <2>2, <3>2
      <4>2. PICK i \in 1 .. Len(heard), k \in 1 .. Len(heard) : i < k /\ heard[i] = "initialize" /\ heard[k] = "initialized"
        BY <4>1 DEF McpInv
      <4>3. k \in 1 .. n
        BY <1>1, <3>2, <4>2
      <4> QED
        BY <1>5, <4>2, <4>3
    <3> QED
      BY <1>6, <3>1, <3>2
  <2> QED
    BY <2>1, <2>2 DEF ToolsAfterHandshake
<1> QED
  BY <1>7, <1>8, <1>9, <1>10, <1>11 DEF McpInv

\* Any other line leaves what has been heard, and the state.
LEMMA LineUnheard ==
  ASSUME McpInv, NEW line, NEW answer, answer \in Answers(line), UNCHANGED heard,
         line \notin {"initialize", "initialized", "list", "call"} \/ answer = "error",
         mcp' = [mcp EXCEPT !.state = NextState(line), !.client = @ \/ answer = "tool"]
  PROVE  McpInv'
<1>1. NextState(line) = mcp.state
  BY DEF Answers, NextState
<1>2. mcp'.state = mcp.state /\ McpTyped'
  BY <1>1 DEF McpInv, McpTyped
<1> QED
  BY <1>2 DEF McpInv, ToolsAfterHandshake

LEMMA McpKept ==
  ASSUME McpInv, UNCHANGED heard, mcp'.state = mcp.state, McpTyped'
  PROVE  McpInv'
BY DEF McpInv, ToolsAfterHandshake

LEMMA McpPreserved ==
  ASSUME McpInv, [Next]_vars
  PROVE  McpInv'
<1>1. ASSUME UNCHANGED session
      PROVE  McpInv'
  BY <1>1, McpKept DEF session, McpInv, McpTyped
<1>2. CASE \E line \in Lines : McpLine(line)
  <2>1. PICK line \in Lines : McpLine(line)
    BY <1>2
  <2>2. PICK answer \in {"none", "result", "error", "tool"} : HandleLine(line, answer)
    BY <2>1 DEF McpLine
  <2> QED
    BY <2>2, LineHeard, LineUnheard DEF HandleLine
<1>3. CASE McpProcess
  <2>1. UNCHANGED heard /\ mcp'.state = mcp.state /\ McpTyped'
    BY <1>3 DEF McpProcess, McpStart, McpClose, McpInv, McpTyped
  <2> QED
    BY <2>1, McpKept
<1>4. CASE \E h \in Holders : TakeLease(h) \/ GiveLease(h) \/ Join(h)
  BY <1>1, <1>4 DEF TakeLease, GiveLease, Join, TelemetryOnly
<1>5. CASE HostShutsDown \/ Export \/ \E s \in Spans : Measure(s)
  BY <1>1, <1>5 DEF HostShutsDown, Export, Measure, TelemetryOnly
<1>6. CASE HostStep \/ HostTrouble \/ Time
  BY <1>1, <1>6 DEF HostStep, HostTrouble, Time, HostOnly
<1>7. CASE Issuer \/ Seconds \/ \E k \in KeyIds : Token(k)
  BY <1>1, <1>7 DEF Issuer, Seconds, Token, KeysOnly
<1>8. CASE \E r \in Requests : Receive(r) \/ Handle(r)
  BY <1>1, <1>8 DEF Receive, Handle
<1>9. CASE UNCHANGED vars
  BY <1>1, <1>9 DEF vars
<1> QED
  BY <1>2, <1>3, <1>4, <1>5, <1>6, <1>7, <1>8, <1>9 DEF Next

-----------------------------------------------------------------------------
(* The signing keys.                                                       *)

\* The cache and what is published are never empty, and the waits are bounded.
LEMMA KeysPreserved ==
  ASSUME KeyTypeOK, [Next]_vars
  PROVE  KeyTypeOK'
<1>1. ASSUME UNCHANGED signing
      PROVE  KeyTypeOK'
  BY <1>1 DEF signing, KeyTypeOK
<1>2. ASSUME NEW k, NEW found, Lookup(k, found)
      PROVE  KeyTypeOK'
  BY <1>2, KeyAssumption DEF Lookup, KeyTypeOK, signing
<1>3. CASE Issuer
  <2>1. published' \subseteq KeyIds /\ published' # {} /\ UNCHANGED <<keys, elapsed, outages>>
    BY <1>3 DEF Issuer, Rotate
  <2>2. rotations' \in 0 .. MaxRotations
    BY <1>3, KeyAssumption DEF Issuer, Rotate, KeyTypeOK
  <2> QED
    BY <2>1, <2>2 DEF KeyTypeOK
<1>4. CASE Seconds
  BY <1>4, KeyAssumption DEF Seconds, SecondPasses, KeyTypeOK
<1>5. CASE \E k \in KeyIds : Token(k)
  BY <1>2, <1>5 DEF Token
<1>6. CASE \E r \in Requests : Receive(r) \/ Handle(r)
  <2>1. PICK r \in Requests : Receive(r) \/ Handle(r)
    BY <1>6
  <2>2. CASE Authenticate(r)
    BY <1>1, <1>2, <2>2 DEF Authenticate
  <2>3. CASE Arrive(r) \/ Admit(r) \/ Respond(r) \/ TimedOut(r)
    BY <1>1, <2>3 DEF Arrive, Admit, Respond, TimedOut
  <2> QED
    BY <2>1, <2>2, <2>3 DEF Receive, Handle
<1>7. CASE \E h \in Holders : TakeLease(h) \/ GiveLease(h) \/ Join(h)
  BY <1>1, <1>7 DEF TakeLease, GiveLease, Join, TelemetryOnly
<1>8. CASE HostShutsDown \/ Export \/ \E s \in Spans : Measure(s)
  BY <1>1, <1>8 DEF HostShutsDown, Export, Measure, TelemetryOnly
<1>9. CASE HostStep \/ HostTrouble \/ Time
  BY <1>1, <1>9 DEF HostStep, HostTrouble, Time, HostOnly
<1>10. CASE McpProcess \/ \E line \in Lines : McpLine(line)
  BY <1>1, <1>10 DEF McpProcess, McpLine, McpOnly
<1>11. CASE UNCHANGED vars
  BY <1>1, <1>11 DEF vars
<1> QED
  BY <1>3, <1>4, <1>5, <1>6, <1>7, <1>8, <1>9, <1>10, <1>11 DEF Next

-----------------------------------------------------------------------------
(* The host: the invariant.                                                *)

InFlight == {"auth", "admit", "call"}
Answered ==
  {"none", "busy", "unauthenticated", "invalid", "refused", "rate_limited", "withheld", "unavailable",
   "answer", "error", "timeout"}
Tasks == {"none", "serving", "stopping", "ended", "failed", "aborted"}
Hosts ==
  [pc: {"binding", "serving", "stopping", "ended"}, wanted: Seq(Modes), binds: SUBSET Modes,
   bound: SUBSET Modes, ready: {"none", "ok", "error"}, failed: BOOLEAN, report: {"none", "stopped", "error"}]

HostTyped ==
  /\ host \in Hosts /\ task \in [Modes -> Tasks] /\ asked \in BOOLEAN
  /\ request \in [Requests -> [pc: {"new", "auth", "admit", "call", "done"}, answer: Answered]]
  /\ slots \in [Limiters -> Nat] /\ permits \in Nat

\* A request in flight has a listener, or had one that failed or was aborted, and a
\* host that stopped cleanly has none left.
Attended == {"serving", "stopping", "failed", "aborted"}
DrainInv ==
  /\ host.pc = "binding" => \A m \in Modes : task[m] = "none"
  /\ \A r \in Requests : request[r].pc \in InFlight => task[Request[r].mode] \in Attended
  /\ host.report # "none" => host.pc = "ended"
  /\ host.report = "stopped" => \A m \in Modes : task[m] \in {"none", "ended"}

\* With the passes of a scope since any time: what was left in its bucket when it was
\* used last is no more than the limit until then, and without a bucket there is room
\* for a full one.
Within(s) ==
  \A i \in 1 .. Len(admitted[s]) :
    IF s \in DOMAIN buckets
    THEN /\ admitted[s][i] <= buckets[s].last
         /\ Len(admitted[s]) - i + 1 + buckets[s].tokens <= PassesIn(limits, buckets[s].last - admitted[s][i])
    ELSE /\ admitted[s][i] <= now
         /\ Len(admitted[s]) - i + 1 + limits.burst <= PassesIn(limits, now - admitted[s][i])
Bounded(s) ==
  \A i, j \in 1 .. Len(admitted[s]) :
    i <= j => j - i + 1 <= PassesIn(limits, admitted[s][j] - admitted[s][i])
RateInv ==
  /\ limits \in [enabled: BOOLEAN, burst: Nat, rate: Nat]
  /\ now \in Nat /\ DOMAIN buckets \subseteq Scopes
  /\ \A s \in DOMAIN buckets : buckets[s].tokens \in 0 .. limits.burst /\ buckets[s].last \in 0 .. now
  /\ admitted \in [Scopes -> Seq(Nat)]
  /\ limits.enabled => \A s \in Scopes : Within(s) /\ Bounded(s)

HostInv == HostTyped /\ DrainInv /\ PermitsExact /\ RateInv

-----------------------------------------------------------------------------
(* The host: permits and slots.                                            *)

Requested == [pc: {"new", "auth", "admit", "call", "done"}, answer: Answered]
Calls == Holding({"call"})
AtLimiter(l) == {r \in Holding({"auth", "admit", "call"}) : Limiter(r) = l}
OneIf(p) == IF p THEN 1 ELSE 0

\* A set with one element more, or less, or neither.
LEMMA CardinalityMoves ==
  ASSUME NEW S, IsFiniteSet(S), NEW x, NEW p \in BOOLEAN, NEW T, T = IF p THEN S \cup {x} ELSE S \ {x}
  PROVE  /\ IsFiniteSet(T) /\ Cardinality(S) \in Nat /\ Cardinality(T) \in Nat
         /\ Cardinality(T) + OneIf(x \in S) = Cardinality(S) + OneIf(p)
<1>1. Cardinality(S) \in Nat
  BY FS_CardinalityType
<1>2. CASE p /\ x \notin S
  BY <1>1, <1>2, FS_AddElement DEF OneIf
<1>3. CASE p /\ x \in S
  <2>1. T = S
    BY <1>3
  <2> QED
    BY <1>1, <1>3, <2>1 DEF OneIf
<1>4. CASE ~p /\ x \in S
  <2>1. T = S \ {x}
    BY <1>4
  <2>2. IsFiniteSet(T) /\ Cardinality(T) = Cardinality(S) - 1
    BY <1>4, <2>1, FS_RemoveElement
  <2>3. Cardinality(T) \in Nat
    BY <2>2, FS_CardinalityType
  <2> QED
    BY <1>1, <1>4, <2>2, <2>3 DEF OneIf
<1>5. CASE ~p /\ x \notin S
  <2>1. T = S
    BY <1>5
  <2> QED
    BY <1>1, <1>5, <2>1 DEF OneIf
<1> QED
  BY <1>2, <1>3, <1>4, <1>5

LEMMA LimiterType ==
  ASSUME NEW r \in Requests
  PROVE  Limiter(r) \in Limiters
BY DEF Limiter, Limiters

LEMMA RequestsFinite ==
  ASSUME NEW l
  PROVE  IsFiniteSet(Calls) /\ IsFiniteSet(AtLimiter(l)) /\ Cardinality(Calls) \in Nat /\ Cardinality(AtLimiter(l)) \in Nat
<1>1. Calls \subseteq Requests /\ AtLimiter(l) \subseteq Requests
  BY DEF Calls, AtLimiter, Holding
<1> QED
  BY <1>1, HostAssumption, FS_Subset, FS_CardinalityType

\* One request moves, and takes or gives back what its stage costs.
LEMMA PermitsMove ==
  ASSUME HostTyped, PermitsExact, NEW r \in Requests, NEW x \in Requested, request' = [request EXCEPT ![r] = x],
         slots' \in [Limiters -> Nat], permits' \in Nat,
         \A l \in Limiters : slots'[l] + OneIf(x.pc \in InFlight /\ Limiter(r) = l) =
                              slots[l] + OneIf(request[r].pc \in InFlight /\ Limiter(r) = l),
         permits' + OneIf(x.pc = "call") = permits + OneIf(request[r].pc = "call")
  PROVE  PermitsExact'
<1>1. /\ request \in [Requests -> Requested] /\ request'[r] = x
      /\ \A q \in Requests \ {r} : request'[q] = request[q]
      /\ slots \in [Limiters -> Nat] /\ permits \in Nat
  BY DEF HostTyped, Requested
<1>2. permits' + Cardinality(Calls') = MaxInFlight
  <2>1. Calls' = IF x.pc = "call" THEN Calls \cup {r} ELSE Calls \ {r}
    BY <1>1 DEF Calls, Holding
  <2>2. r \in Calls <=> request[r].pc = "call"
    BY DEF Calls, Holding
  <2>3. /\ Cardinality(Calls) \in Nat /\ Cardinality(Calls') \in Nat
        /\ Cardinality(Calls') + OneIf(r \in Calls) = Cardinality(Calls) + OneIf(x.pc = "call")
    <3> DEFINE c == x.pc = "call"
    <3>1. c \in BOOLEAN /\ IsFiniteSet(Calls)
      BY RequestsFinite
    <3>2. Calls' = IF c THEN Calls \cup {r} ELSE Calls \ {r}
      BY <2>1
    <3> HIDE DEF c
    <3>3. /\ Cardinality(Calls) \in Nat /\ Cardinality(Calls') \in Nat
          /\ Cardinality(Calls') + OneIf(r \in Calls) = Cardinality(Calls) + OneIf(c)
      BY <3>1, <3>2, CardinalityMoves
    <3> QED
      BY <3>3 DEF c
  <2>4. permits + Cardinality(Calls) = MaxInFlight /\ OneIf(r \in Calls) = OneIf(request[r].pc = "call")
    BY <2>2 DEF PermitsExact, Calls, OneIf
  <2>5. OneIf(x.pc = "call") \in Nat /\ OneIf(request[r].pc = "call") \in Nat /\ MaxInFlight \in Nat
    BY HostAssumption DEF OneIf
  <2> QED
    BY <1>1, <2>3, <2>4, <2>5
<1>3. ASSUME NEW l \in Limiters
      PROVE  slots'[l] + Cardinality(AtLimiter(l)') = MaxInFlight
  <2> DEFINE p == x.pc \in InFlight /\ Limiter(r) = l
  <2>1. AtLimiter(l)' = IF p THEN AtLimiter(l) \cup {r} ELSE AtLimiter(l) \ {r}
    BY <1>1 DEF AtLimiter, Holding, InFlight
  <2>2. r \in AtLimiter(l) <=> request[r].pc \in InFlight /\ Limiter(r) = l
    BY DEF AtLimiter, Holding, InFlight
  <2>3. /\ Cardinality(AtLimiter(l)) \in Nat /\ Cardinality(AtLimiter(l)') \in Nat
        /\ Cardinality(AtLimiter(l)') + OneIf(r \in AtLimiter(l)) = Cardinality(AtLimiter(l)) + OneIf(p)
    <3>1. p \in BOOLEAN /\ IsFiniteSet(AtLimiter(l))
      BY RequestsFinite
    <3> QED
      BY ZenonT(40), <2>1, <3>1, CardinalityMoves
  <2>4. slots[l] + Cardinality(AtLimiter(l)) = MaxInFlight /\ slots[l] \in Nat /\ slots'[l] \in Nat
        /\ OneIf(r \in AtLimiter(l)) = OneIf(request[r].pc \in InFlight /\ Limiter(r) = l)
    BY <1>1, <2>2 DEF PermitsExact, AtLimiter, OneIf
  <2>5. OneIf(p) \in Nat /\ OneIf(r \in AtLimiter(l)) \in Nat /\ MaxInFlight \in Nat
    BY HostAssumption DEF OneIf
  <2>6. slots'[l] + OneIf(p) = slots[l] + OneIf(r \in AtLimiter(l))
    BY <2>4
  <2> HIDE DEF p
  <2> QED
    BY <2>3, <2>4, <2>5, <2>6
<1> QED
  BY <1>2, <1>3 DEF PermitsExact, Calls, AtLimiter

\* A request that is answered, refused or timed out gives back what it held.
LEMMA RequestLeaves ==
  ASSUME HostTyped, DrainInv, PermitsExact, NEW r \in Requests, NEW a \in Answered,
         request[r].pc \in InFlight, Reply(r, a), FreeSlot(r),
         permits' = IF request[r].pc = "call" THEN permits + 1 ELSE permits,
         UNCHANGED <<host, task, asked>>
  PROVE  HostTyped' /\ DrainInv' /\ PermitsExact'
<1> DEFINE x == [pc |-> "done", answer |-> a]
<1>1. /\ request \in [Requests -> Requested] /\ slots \in [Limiters -> Nat] /\ permits \in Nat
      /\ Limiter(r) \in Limiters /\ x \in Requested /\ request' = [request EXCEPT ![r] = x]
      /\ x.pc = "done" /\ x.answer = a
  BY LimiterType DEF HostTyped, Requested, Reply
<1> HIDE DEF x
<1>2. slots' = [slots EXCEPT ![Limiter(r)] = @ + 1] /\ slots' \in [Limiters -> Nat] /\ permits' \in Nat
  BY <1>1 DEF FreeSlot
<1>3. PermitsExact'
  <2>1. \A l \in Limiters : slots'[l] + OneIf(x.pc \in InFlight /\ Limiter(r) = l) =
                              slots[l] + OneIf(request[r].pc \in InFlight /\ Limiter(r) = l)
    BY <1>1, <1>2 DEF OneIf, InFlight
  <2>2. permits' + OneIf(x.pc = "call") = permits + OneIf(request[r].pc = "call")
    BY <1>1 DEF OneIf
  <2> QED
    BY <1>1, <1>2, <2>1, <2>2, PermitsMove
<1>4. request' \in [Requests -> Requested] /\ request'[r] = x /\ \A q \in Requests \ {r} : request'[q] = request[q]
  BY <1>1
<1>5. HostTyped'
  BY <1>2, <1>4 DEF HostTyped, Requested
<1>6. DrainInv'
  BY <1>1, <1>4 DEF DrainInv, InFlight
<1> QED
  BY <1>3, <1>5, <1>6

\* A request that goes on to the next stage.
LEMMA RequestMoves ==
  ASSUME HostTyped, DrainInv, PermitsExact, NEW r \in Requests, NEW pc \in InFlight,
         request' = [request EXCEPT ![r].pc = pc], task[Request[r].mode] \in Attended,
         slots' \in [Limiters -> Nat], permits' \in Nat,
         \A l \in Limiters : slots'[l] + OneIf(Limiter(r) = l) =
                              slots[l] + OneIf(request[r].pc \in InFlight /\ Limiter(r) = l),
         permits' + OneIf(pc = "call") = permits + OneIf(request[r].pc = "call"),
         UNCHANGED <<host, task, asked>>
  PROVE  HostTyped' /\ DrainInv' /\ PermitsExact'
<1> DEFINE x == [request[r] EXCEPT !.pc = pc]
<1>1. /\ request \in [Requests -> Requested]
      /\ x \in Requested /\ x.pc = pc /\ x.answer = request[r].answer /\ request' = [request EXCEPT ![r] = x]
  BY DEF HostTyped, Requested, InFlight
<1> HIDE DEF x
<1>2. PermitsExact'
  <2>1. \A l \in Limiters : slots'[l] + OneIf(x.pc \in InFlight /\ Limiter(r) = l) =
                              slots[l] + OneIf(request[r].pc \in InFlight /\ Limiter(r) = l)
    BY <1>1 DEF OneIf
  <2>2. permits' + OneIf(x.pc = "call") = permits + OneIf(request[r].pc = "call")
    BY <1>1
  <2> QED
    BY <1>1, <2>1, <2>2, PermitsMove
<1>3. request' \in [Requests -> Requested] /\ request'[r] = x /\ \A q \in Requests \ {r} : request'[q] = request[q]
  BY <1>1
<1>4. HostTyped'
  BY <1>3 DEF HostTyped, Requested
<1>5. DrainInv'
  BY <1>1, <1>3 DEF DrainInv
<1> QED
  BY <1>2, <1>4, <1>5

LEMMA ArriveKeeps ==
  ASSUME HostTyped, DrainInv, PermitsExact, NEW r \in Requests, Arrive(r)
  PROVE  HostTyped' /\ DrainInv' /\ PermitsExact'
<1>1. /\ request \in [Requests -> Requested] /\ slots \in [Limiters -> Nat] /\ permits \in Nat
      /\ Limiter(r) \in Limiters /\ request[r].pc = "new" /\ task[Request[r].mode] = "serving"
      /\ UNCHANGED <<host, task, asked, permits>>
  BY LimiterType DEF HostTyped, Requested, Arrive
<1>2. CASE slots[Limiter(r)] = 0
  <2> DEFINE x == [pc |-> "done", answer |-> "busy"]
  <2>1. request' = [request EXCEPT ![r] = x] /\ x \in Requested /\ x.pc = "done" /\ x.answer = "busy" /\ slots' = slots
    BY <1>2 DEF Arrive, Reply, Requested, Answered
  <2> HIDE DEF x
  <2>2. PermitsExact'
    <3>1. \A l \in Limiters : slots'[l] + OneIf(x.pc \in InFlight /\ Limiter(r) = l) =
                                slots[l] + OneIf(request[r].pc \in InFlight /\ Limiter(r) = l)
      BY <1>1, <2>1 DEF OneIf, InFlight
    <3>2. permits' + OneIf(x.pc = "call") = permits + OneIf(request[r].pc = "call")
      BY <1>1, <2>1 DEF OneIf
    <3> QED
      BY <1>1, <2>1, <3>1, <3>2, PermitsMove
  <2>3. request' \in [Requests -> Requested] /\ request'[r] = x /\ \A q \in Requests \ {r} : request'[q] = request[q]
    BY <1>1, <2>1
  <2>4. HostTyped'
    BY <1>1, <2>1, <2>3 DEF HostTyped, Requested
  <2>5. DrainInv'
    BY <1>1, <2>1, <2>3 DEF DrainInv, InFlight
  <2> QED
    BY <2>2, <2>4, <2>5
<1>3. CASE slots[Limiter(r)] # 0
  <2>1. request' = [request EXCEPT ![r].pc = "auth"] /\ slots' = [slots EXCEPT ![Limiter(r)] = @ - 1]
    BY <1>3 DEF Arrive
  <2>2. slots' \in [Limiters -> Nat]
    BY <1>1, <1>3, <2>1
  <2>3. \A l \in Limiters : slots'[l] + OneIf(Limiter(r) = l) =
                              slots[l] + OneIf(request[r].pc \in InFlight /\ Limiter(r) = l)
    BY <1>1, <2>1 DEF OneIf, InFlight
  <2>4. permits' + OneIf("auth" = "call") = permits + OneIf(request[r].pc = "call")
    BY <1>1 DEF OneIf
  <2> QED
    BY <1>1, <2>1, <2>2, <2>3, <2>4, RequestMoves DEF InFlight, Attended
<1> QED
  BY <1>2, <1>3

LEMMA AuthenticateKeeps ==
  ASSUME HostTyped, DrainInv, PermitsExact, NEW r \in Requests, Authenticate(r)
  PROVE  HostTyped' /\ DrainInv' /\ PermitsExact'
<1>1. /\ request[r].pc = "auth" /\ UNCHANGED <<host, task, asked, permits>>
      /\ slots \in [Limiters -> Nat] /\ permits \in Nat /\ task[Request[r].mode] \in Attended
  BY DEF Authenticate, HostTyped, DrainInv, InFlight
<1>2. CASE Reply(r, "unauthenticated") /\ FreeSlot(r)
  BY <1>1, <1>2, RequestLeaves DEF InFlight, Answered
<1>3. CASE request' = [request EXCEPT ![r].pc = "admit"] /\ UNCHANGED slots
  <2>1. /\ \A l \in Limiters : slots'[l] + OneIf(Limiter(r) = l) =
                                 slots[l] + OneIf(request[r].pc \in InFlight /\ Limiter(r) = l)
        /\ permits' + OneIf("admit" = "call") = permits + OneIf(request[r].pc = "call")
    BY <1>1, <1>3 DEF OneIf, InFlight
  <2> QED
    BY <1>1, <1>3, <2>1, RequestMoves DEF InFlight
<1> QED
  BY <1>2, <1>3 DEF Authenticate

LEMMA AdmitKeeps ==
  ASSUME HostTyped, DrainInv, PermitsExact, NEW r \in Requests, Admit(r)
  PROVE  HostTyped' /\ DrainInv' /\ PermitsExact'
<1>1. /\ request[r].pc = "admit" /\ UNCHANGED <<host, task, asked>>
      /\ slots \in [Limiters -> Nat] /\ permits \in Nat /\ task[Request[r].mode] \in Attended
  BY DEF Admit, HostTyped, DrainInv, InFlight
<1>2. CASE \E a \in Answered : Reply(r, a) /\ FreeSlot(r) /\ UNCHANGED permits
  BY <1>1, <1>2, RequestLeaves DEF InFlight
<1>3. CASE permits > 0 /\ request' = [request EXCEPT ![r].pc = "call"] /\ permits' = permits - 1 /\ UNCHANGED slots
  <2>1. /\ \A l \in Limiters : slots'[l] + OneIf(Limiter(r) = l) =
                                 slots[l] + OneIf(request[r].pc \in InFlight /\ Limiter(r) = l)
        /\ permits' + OneIf("call" = "call") = permits + OneIf(request[r].pc = "call")
        /\ permits' \in Nat
    BY <1>1, <1>3 DEF OneIf, InFlight
  <2> QED
    BY <1>1, <1>3, <2>1, RequestMoves DEF InFlight
<1>4. ~Decoded(r) => \E a \in Answered : Reply(r, a) /\ FreeSlot(r) /\ UNCHANGED permits
  <2>1. "invalid" \in Answered
    BY DEF Answered
  <2> QED
    BY <2>1 DEF Admit
<1>5. Decoded(r) /\ ~Authorized(r) => \E a \in Answered : Reply(r, a) /\ FreeSlot(r) /\ UNCHANGED permits
  <2> DEFINE a == IF Request[r].scope = Unknown THEN "invalid" ELSE "refused"
  <2>1. a \in Answered
    BY DEF Answered
  <2>2. Decoded(r) /\ ~Authorized(r) => Reply(r, a) /\ FreeSlot(r) /\ UNCHANGED permits
    BY DEF Admit
  <2> HIDE DEF a
  <2> QED
    BY <2>1, <2>2
<1>6. Decoded(r) /\ Authorized(r) =>
        \/ \E a \in Answered : Reply(r, a) /\ FreeSlot(r) /\ UNCHANGED permits
        \/ permits > 0 /\ request' = [request EXCEPT ![r].pc = "call"] /\ permits' = permits - 1 /\ UNCHANGED slots
  <2>1. {"rate_limited", "busy", "invalid"} \subseteq Answered
        /\ (Prepared(r) # "ok" => Prepared(r) \in Answered)
    BY DEF Answered, Prepared
  <2> QED
    BY <2>1 DEF Admit
<1> QED
  BY <1>2, <1>3, <1>4, <1>5, <1>6

LEMMA RespondKeeps ==
  ASSUME HostTyped, DrainInv, PermitsExact, NEW r \in Requests, Respond(r) \/ TimedOut(r)
  PROVE  HostTyped' /\ DrainInv' /\ PermitsExact'
<1>1. UNCHANGED <<host, task, asked>> /\ FreeSlot(r) /\ request[r].pc \in InFlight
      /\ permits' = IF request[r].pc = "call" THEN permits + 1 ELSE permits
  BY DEF Respond, TimedOut, InFlight
<1>2. \E a \in Answered : Reply(r, a)
  <2>1. {Rendered(r), "error", "timeout"} \subseteq Answered
    BY DEF Rendered, Answered
  <2> QED
    BY <2>1 DEF Respond, TimedOut
<1> QED
  BY <1>1, <1>2, RequestLeaves

-----------------------------------------------------------------------------
(* The host: listeners.                                                    *)

\* Listeners start, stop and end with no request of theirs in flight.
LEMMA TasksMove ==
  ASSUME HostTyped, DrainInv, PermitsExact, UNCHANGED <<request, slots, permits, asked>>,
         host' \in Hosts, task' \in [Modes -> Tasks],
         host'.pc = "binding" => \A m \in Modes : task'[m] = "none",
         \A r \in Requests : request[r].pc \in InFlight => task'[Request[r].mode] \in Attended,
         host'.report # "none" => host'.pc = "ended",
         host'.report = "stopped" => \A m \in Modes : task'[m] \in {"none", "ended"}
  PROVE  HostTyped' /\ DrainInv' /\ PermitsExact'
<1>1. HostTyped'
  BY DEF HostTyped
<1>2. PermitsExact'
  BY DEF PermitsExact, Holding
<1>3. DrainInv'
  BY DEF DrainInv
<1> QED
  BY <1>1, <1>2, <1>3

\* A listener without requests in flight may end.
LEMMA NotBusy ==
  ASSUME HostTyped, NEW m \in Modes, ~Busy(m), NEW r \in Requests, request[r].pc \in InFlight
  PROVE  Request[r].mode # m
BY DEF Busy, InFlight

LEMMA HostMoves ==
  ASSUME HostTyped, DrainInv, PermitsExact,
         \/ \E m \in Modes, ok \in BOOLEAN : Bind(m, ok)
         \/ \E m \in Modes : TaskEnds(m) \/ TaskFails(m)
         \/ Ready \/ Select \/ Drained
  PROVE  HostTyped' /\ DrainInv' /\ PermitsExact'
<1>1. /\ host \in Hosts /\ task \in [Modes -> Tasks]
      /\ \A r \in Requests : request[r].pc \in InFlight => task[Request[r].mode] \in Attended
      /\ \A r \in Requests : Request[r].mode \in Modes
  BY HostAssumption DEF HostTyped, DrainInv
<1>2. ASSUME NEW m \in Modes, NEW ok \in BOOLEAN, Bind(m, ok)
      PROVE  HostTyped' /\ DrainInv' /\ PermitsExact'
  <2>1. UNCHANGED <<task, request, slots, permits, asked>> /\ host.pc = "binding" /\ host.wanted # <<>>
    BY <1>2 DEF Bind, hosting
  <2>2. /\ host' \in Hosts /\ host'.pc \in {"binding", "ended"}
        /\ host'.report = IF ok THEN host.report ELSE "error"
        /\ ~ok => host'.pc = "ended"
    <3>1. CASE ok
      <4>1. Tail(host.wanted) \in Seq(Modes) /\ host.bound \cup {m} \in SUBSET Modes
        BY <1>1, <2>1 DEF Hosts
      <4>2. host' = [host EXCEPT !.wanted = Tail(host.wanted), !.bound = host.bound \cup {m}]
        BY <1>2, <3>1 DEF Bind
      <4> QED
        BY <1>1, <2>1, <3>1, <4>1, <4>2 DEF Hosts
    <3>2. CASE ~ok
      <4>1. host' = [host EXCEPT !.pc = "ended", !.ready = "error", !.report = "error", !.bound = {}]
        BY <1>2, <3>2 DEF Bind
      <4> QED
        BY <1>1, <3>2, <4>1 DEF Hosts
    <3> QED
      BY <3>1, <3>2
  <2> QED
    BY <1>1, <2>1, <2>2, TasksMove DEF DrainInv
<1>3. ASSUME NEW m \in Modes, TaskEnds(m) \/ TaskFails(m)
      PROVE  HostTyped' /\ DrainInv' /\ PermitsExact'
  <2>1. /\ UNCHANGED <<host, request, slots, permits, asked>> /\ task[m] \in {"serving", "stopping"}
        /\ \/ ~Busy(m) /\ task' = [task EXCEPT ![m] = "ended"]
           \/ task' = [task EXCEPT ![m] = "failed"]
    BY <1>3 DEF TaskEnds, TaskFails, hosting
  <2>2. /\ task' \in [Modes -> Tasks]
        /\ \A r \in Requests : request[r].pc \in InFlight => task'[Request[r].mode] \in Attended
    BY <1>1, <2>1, NotBusy DEF Tasks, Attended
  <2>3. host.pc # "binding" /\ host.report # "stopped"
    BY <2>1 DEF DrainInv
  <2> QED
    BY <1>1, <2>1, <2>2, <2>3, TasksMove DEF DrainInv
<1>4. CASE Ready
  <2>1. UNCHANGED <<request, slots, permits, asked>> /\ host.pc = "binding" /\ host.report = "none"
        /\ \A m \in Modes : task[m] = "none"
    BY <1>1, <1>4 DEF Ready, hosting, DrainInv
  <2>2. \A r \in Requests : request[r].pc \notin InFlight
    BY <1>1, <2>1 DEF Attended
  <2>3. /\ host' \in Hosts /\ host'.pc # "binding" /\ host'.report \in {"none", "error"}
        /\ host'.report # "none" => host'.pc = "ended"
        /\ task' \in [Modes -> Tasks]
    <3>1. CASE host.bound = {}
      <4>1. host' = [host EXCEPT !.pc = "ended", !.ready = "error", !.report = "error"] /\ task' = task
        BY <1>4, <3>1 DEF Ready
      <4> QED
        BY <1>1, <4>1 DEF Hosts
    <3>2. CASE host.bound # {}
      <4>1. /\ host' = [host EXCEPT !.pc = "serving", !.ready = "ok"]
            /\ task' = [m \in Modes |-> IF m \in host.bound THEN "serving" ELSE "none"]
        BY <1>4, <3>2 DEF Ready
      <4> QED
        BY <1>1, <2>1, <4>1 DEF Hosts, Tasks
    <3> QED
      BY <3>1, <3>2
  <2> QED
    BY <2>1, <2>2, <2>3, TasksMove
<1>5. CASE Select
  <2>1. UNCHANGED <<request, slots, permits, asked>> /\ host.pc = "serving" /\ host.report = "none" /\ task' = StopAll
    BY <1>1, <1>5 DEF Select, hosting, DrainInv
  <2>2. \E f \in BOOLEAN : host' = [host EXCEPT !.pc = "stopping", !.failed = f]
    BY <1>5 DEF Select
  <2>3. host' \in Hosts /\ host'.pc = "stopping" /\ host'.report = "none"
    BY <1>1, <2>1, <2>2 DEF Hosts
  <2>4. /\ task' \in [Modes -> Tasks]
        /\ \A m \in Modes : task[m] \in Attended => task'[m] \in Attended
    BY <1>1, <2>1 DEF StopAll, Tasks, Attended
  <2> QED
    BY <1>1, <2>1, <2>3, <2>4, TasksMove
<1>6. CASE Drained
  <2>1. UNCHANGED <<task, request, slots, permits, asked>> /\ host.pc = "stopping" /\ \A m \in Modes : Over(m)
    BY <1>6 DEF Drained, hosting
  <2>2. /\ host' \in Hosts /\ host'.pc = "ended" /\ host'.report \in {"stopped", "error"}
        /\ host'.report = "stopped" => \A m \in Modes : task[m] # "failed"
    <3> DEFINE x == IF host.failed \/ \E m \in Modes : task[m] = "failed" THEN "error" ELSE "stopped"
    <3>1. x \in {"stopped", "error"} /\ (x = "stopped" => \A m \in Modes : task[m] # "failed")
      OBVIOUS
    <3>2. host' = [host EXCEPT !.pc = "ended", !.report = x, !.bound = {}]
      BY <1>6 DEF Drained, Ended
    <3> HIDE DEF x
    <3> QED
      BY <1>1, <3>1, <3>2 DEF Hosts
  <2> QED
    BY <1>1, <2>1, <2>2, TasksMove DEF Over
<1> QED
  BY <1>2, <1>3, <1>4, <1>5, <1>6

\* The drain is given up: the listeners that are left are aborted, and their requests
\* go on.
LEMMA DrainBreaks ==
  ASSUME HostTyped, DrainInv, PermitsExact, DrainBroken
  PROVE  HostTyped' /\ DrainInv' /\ PermitsExact'
<1> DEFINE gone == {m \in Modes : task[m] = "stopping"}
<1>1. /\ UNCHANGED <<request, slots, permits, asked>>
      /\ host' = [host EXCEPT !.pc = "ended", !.report = "error", !.bound = {}]
      /\ task' = [m \in Modes |-> IF m \in gone THEN "aborted" ELSE task[m]]
  BY DEF DrainBroken, Ended, hosting
<1>2. /\ host \in Hosts /\ task \in [Modes -> Tasks]
      /\ \A r \in Requests : request[r].pc \in InFlight => task[Request[r].mode] \in Attended
      /\ \A r \in Requests : Request[r].mode \in Modes
  BY HostAssumption DEF HostTyped, DrainInv
<1>3. host' \in Hosts /\ host'.pc = "ended" /\ host'.report = "error"
  BY <1>1, <1>2 DEF Hosts
<1>4. /\ task' \in [Modes -> Tasks]
      /\ \A m \in Modes : task[m] \in Attended => task'[m] \in Attended
  BY <1>1, <1>2 DEF Tasks, Attended
<1> QED
  BY <1>1, <1>2, <1>3, <1>4, TasksMove

-----------------------------------------------------------------------------
(* The host: the rate limit.                                               *)

\* The limits, in numbers.
Limit == [enabled: BOOLEAN, burst: Nat, rate: Nat]

LEMMA TimesGrows ==
  ASSUME NEW n \in Nat, NEW i \in Nat, NEW j \in Nat, i <= j
  PROVE  /\ n * i \in Nat /\ n * j \in Nat /\ n * (j - i) \in Nat
         /\ n * i <= n * j /\ n * i + n * (j - i) = n * j
<1>1. n * i \in Nat /\ n * j \in Nat
  OBVIOUS
<1>2. j - i \in Nat /\ n * (j - i) = n * j - n * i
  OBVIOUS
<1>3. n * (j - i) \in Nat
  BY <1>2
<1> QED
  BY <1>1, <1>2, <1>3

LEMMA DivGrows ==
  ASSUME NEW n \in Nat \ {0}, NEW x \in Nat, NEW y \in Nat, x <= y
  PROVE  /\ x \div n \in Nat /\ y \div n \in Nat /\ x \div n <= y \div n
         /\ x + n <= y => x \div n + 1 <= y \div n
<1> DEFINE p == x \div n
           q == y \div n
<1>1. /\ p \in Nat /\ q \in Nat /\ n * p <= x /\ x < n * p + n /\ n * q <= y /\ y < n * q + n
  OBVIOUS
<1> HIDE DEF p, q
<1>2. ~(q + 1 <= p)
  <2> SUFFICES ASSUME q + 1 <= p
               PROVE  FALSE
    OBVIOUS
  <2>1. n * (q + 1) <= n * p /\ n * (q + 1) = n * q + n
    BY <1>1, TimesGrows
  <2> QED
    BY <1>1, <2>1
<1>3. x + n <= y => ~(q <= p)
  <2> SUFFICES ASSUME x + n <= y, q <= p
               PROVE  FALSE
    OBVIOUS
  <2>1. n * q <= n * p /\ n * q \in Nat /\ n * p \in Nat
    BY <1>1, <2>1, TimesGrows
  <2> QED
    BY <1>1, <2>1
<1> QED
  BY <1>1, <1>2, <1>3 DEF p, q

\* Time allows what the rate adds; an idle time allows a whole burst.
LEMMA PassesGrow ==
  ASSUME NEW limit \in Limit, NEW x \in Nat, NEW y \in Nat, x <= y
  PROVE  /\ PassesIn(limit, x) \in Nat /\ PassesIn(limit, y) \in Nat /\ (y - x) * limit.rate \in Nat
         /\ PassesIn(limit, x) + (y - x) * limit.rate <= PassesIn(limit, y)
         /\ x + IdleTime <= y => PassesIn(limit, x) + limit.burst <= PassesIn(limit, y)
         /\ limit.burst <= PassesIn(limit, x)
<1> DEFINE b == limit.burst
           n == limit.rate
           S == Surplus(limit)
           p == x \div IdleTime
           q == y \div IdleTime
<1>1. b \in Nat /\ n \in Nat /\ IdleTime \in Nat \ {0}
  BY HostAssumption DEF Limit
<1>2. n * IdleTime \in Nat
  BY <1>1
<1>3. S \in Nat /\ b <= S + n * IdleTime
  BY <1>1, <1>2 DEF Surplus
<1>4. p \in Nat /\ q \in Nat /\ p <= q /\ (x + IdleTime <= y => p + 1 <= q)
  BY <1>1, DivGrows
<1>5. PassesIn(limit, x) = b + n * x + S * p /\ PassesIn(limit, y) = b + n * y + S * q
  BY DEF PassesIn
<1> HIDE DEF b, n, S, p, q
<1>6. n * x \in Nat /\ n * y \in Nat /\ n * (y - x) \in Nat /\ n * x + n * (y - x) = n * y /\ y - x \in Nat
  BY <1>1, TimesGrows
<1>7. (y - x) * n = n * (y - x)
  BY <1>1, <1>6
<1>8. S * p \in Nat /\ S * q \in Nat /\ S * p <= S * q
  BY <1>3, <1>4, TimesGrows
<1>9. x + IdleTime <= y => n * x + n * IdleTime <= n * y /\ S * p + S <= S * q
  <2> SUFFICES ASSUME x + IdleTime <= y
               PROVE  n * x + n * IdleTime <= n * y /\ S * p + S <= S * q
    OBVIOUS
  <2>1. x + IdleTime \in Nat /\ p + 1 \in Nat /\ p + 1 <= q
    BY <1>1, <1>4
  <2>2. n * (x + IdleTime) <= n * y /\ S * (p + 1) <= S * q
    BY <1>1, <1>3, <1>4, <2>1, TimesGrows
  <2>3. n * (x + IdleTime) = n * x + n * IdleTime /\ S * (p + 1) = S * p + S
    BY <1>1, <1>3, <1>4
  <2> QED
    BY <2>2, <2>3
<1>10. /\ PassesIn(limit, x) \in Nat /\ PassesIn(limit, y) \in Nat /\ (y - x) * n \in Nat
       /\ PassesIn(limit, x) + (y - x) * n <= PassesIn(limit, y) /\ b <= PassesIn(limit, x)
  <2> DEFINE u == n * x
             v == n * (y - x)
             w == n * y
             g == S * p
             h == S * q
  <2>1. /\ u \in Nat /\ v \in Nat /\ w \in Nat /\ g \in Nat /\ h \in Nat /\ u + v = w /\ g <= h
        /\ PassesIn(limit, x) = b + u + g /\ PassesIn(limit, y) = b + w + h /\ (y - x) * n = v
    BY <1>5, <1>6, <1>7, <1>8
  <2> HIDE DEF u, v, w, g, h
  <2> QED
    BY <1>1, <2>1
<1>11. x + IdleTime <= y => PassesIn(limit, x) + b <= PassesIn(limit, y)
  <2> DEFINE u == n * x
             w == n * y
             k == n * IdleTime
             g == S * p
             h == S * q
  <2>1. /\ u \in Nat /\ w \in Nat /\ k \in Nat /\ g \in Nat /\ h \in Nat /\ b <= S + k
        /\ PassesIn(limit, x) = b + u + g /\ PassesIn(limit, y) = b + w + h
        /\ x + IdleTime <= y => u + k <= w /\ g + S <= h
    BY <1>2, <1>3, <1>5, <1>6, <1>8, <1>9
  <2> HIDE DEF u, w, k, g, h
  <2> QED
    BY <1>1, <1>3, <2>1
<1> QED
  BY <1>10, <1>11 DEF b, n

\* What a scope can spend now, after the idle buckets are dropped, is within what the
\* time since any of its passes allows.
LEMMA Accrued ==
  ASSUME RateInv, NEW s \in Scopes
  PROVE  /\ DOMAIN KeptBuckets(buckets) \subseteq DOMAIN buckets
         /\ \A x \in DOMAIN KeptBuckets(buckets) : KeptBuckets(buckets)[x] = buckets[x]
         /\ Tokens(KeptBuckets(buckets), s) \in 0 .. limits.burst
         /\ limits.enabled => \A i \in 1 .. Len(admitted[s]) :
              /\ admitted[s][i] <= now
              /\ Len(admitted[s]) - i + 1 + Tokens(KeptBuckets(buckets), s) <= PassesIn(limits, now - admitted[s][i])
<1> DEFINE b == KeptBuckets(buckets)
           T == Tokens(b, s)
           B == limits.burst
<1>1. /\ DOMAIN b \subseteq DOMAIN buckets /\ \A x \in DOMAIN b : b[x] = buckets[x]
      /\ \A x \in DOMAIN buckets \ DOMAIN b : ~(now - buckets[x].last < IdleTime)
  BY DEF KeptBuckets
<1>2. limits \in Limit /\ B \in Nat /\ limits.rate \in Nat /\ now \in Nat /\ IdleTime \in Nat \ {0}
  BY HostAssumption DEF RateInv, Limit
<1>3. \A x \in DOMAIN buckets : buckets[x].tokens \in 0 .. B /\ buckets[x].last \in 0 .. now
  BY DEF RateInv
<1>4. T = IF s \in DOMAIN b THEN Lesser(b[s].tokens + (now - b[s].last) * limits.rate, B) ELSE B
  BY DEF Tokens
<1>5. T \in 0 .. B /\ (s \in DOMAIN b => T <= buckets[s].tokens + (now - buckets[s].last) * limits.rate)
  <2>1. CASE s \in DOMAIN b
    <3> DEFINE k == buckets[s].tokens
               u == (now - buckets[s].last) * limits.rate
    <3>1. k \in Nat /\ now - buckets[s].last \in Nat
      BY <1>1, <1>2, <1>3, <2>1
    <3>2. u \in Nat
      BY <1>2, <3>1
    <3>3. T = Lesser(k + u, B)
      BY <1>1, <1>4, <2>1
    <3> HIDE DEF k, u, T, B
    <3>4. T \in 0 .. B /\ T <= k + u
      BY <1>2, <3>1, <3>2, <3>3 DEF Lesser
    <3> QED
      BY <3>4 DEF k, u
  <2>2. CASE s \notin DOMAIN b
    BY <1>2, <1>4, <2>2
  <2> QED
    BY <2>1, <2>2
<1> HIDE DEF b, T, B
<1>6. ASSUME limits.enabled, NEW i \in 1 .. Len(admitted[s])
      PROVE  /\ admitted[s][i] <= now
             /\ Len(admitted[s]) - i + 1 + T <= PassesIn(limits, now - admitted[s][i])
  <2> DEFINE n == Len(admitted[s]) - i + 1
             a == admitted[s][i]
  <2>1. n \in Nat /\ a \in Nat
    <3>1. admitted[s] \in Seq(Nat)
      BY DEF RateInv
    <3>2. Len(admitted[s]) \in Nat /\ a \in Nat
      BY <3>1
    <3> QED
      BY <3>2
  <2>2. IF s \in DOMAIN buckets
        THEN a <= buckets[s].last /\ n + buckets[s].tokens <= PassesIn(limits, buckets[s].last - a)
        ELSE a <= now /\ n + B <= PassesIn(limits, now - a)
    BY <1>6 DEF RateInv, Within, B
  <2> HIDE DEF n, a
  <2>3. CASE s \notin DOMAIN buckets
    <3>1. T = B
      BY <1>1, <1>4, <2>3
    <3> QED
      BY <2>2, <2>3, <3>1 DEF n, a
  <2>4. CASE s \in DOMAIN buckets
    <3>1. a <= buckets[s].last /\ n + buckets[s].tokens <= PassesIn(limits, buckets[s].last - a)
      BY <2>2, <2>4
    <3> DEFINE x == buckets[s].last - a
               y == now - a
               k == buckets[s].tokens
    <3>2. buckets[s].last \in Nat /\ k \in Nat /\ buckets[s].last <= now /\ a <= buckets[s].last
      BY <1>2, <1>3, <2>4, <3>1
    <3>3. x \in Nat /\ y \in Nat /\ x <= y /\ y - x = now - buckets[s].last /\ a <= now
      BY <1>2, <2>1, <3>2
    <3>4. n + k <= PassesIn(limits, x)
      BY <3>1
    <3> HIDE DEF x, y, k
    <3>5. /\ PassesIn(limits, x) \in Nat /\ PassesIn(limits, y) \in Nat /\ (y - x) * limits.rate \in Nat
          /\ PassesIn(limits, x) + (y - x) * limits.rate <= PassesIn(limits, y)
          /\ x + IdleTime <= y => PassesIn(limits, x) + B <= PassesIn(limits, y)
      BY <1>2, <3>3, PassesGrow DEF B
    <3>6. CASE s \in DOMAIN b
      <4>1. T <= k + (y - x) * limits.rate /\ T \in Nat
        BY <1>2, <1>5, <3>3, <3>6 DEF k
      <4> DEFINE v == (y - x) * limits.rate
                 A == PassesIn(limits, x)
                 D == PassesIn(limits, y)
      <4>2. v \in Nat /\ A \in Nat /\ D \in Nat /\ A + v <= D /\ T <= k + v /\ n + k <= A
        BY <3>5, <3>4, <4>1
      <4> HIDE DEF v, A, D
      <4>3. n + T <= D
        BY <2>1, <3>2, <4>1, <4>2
      <4> QED
        BY <3>3, <4>3 DEF n, a, y, D
    <3>7. CASE s \notin DOMAIN b
      <4>1. T = B /\ now - buckets[s].last >= IdleTime
        BY <1>1, <1>2, <1>4, <2>4, <3>2, <3>7
      <4>2. x + IdleTime <= y
        BY <1>2, <3>3, <4>1
      <4> DEFINE A == PassesIn(limits, x)
                 D == PassesIn(limits, y)
      <4>3. A \in Nat /\ D \in Nat /\ A + B <= D /\ n + k <= A
        BY <3>5, <3>4, <4>2
      <4> HIDE DEF A, D
      <4>4. n + T <= D
        BY <1>2, <2>1, <3>2, <4>1, <4>3
      <4> QED
        BY <3>3, <4>4 DEF n, a, y, D
    <3> QED
      BY <3>6, <3>7
  <2> QED
    BY <2>3, <2>4
<1> QED
  BY <1>1, <1>5, <1>6 DEF b, T, B

\* A scope that passes spends a token of its bucket.
LEMMA PassKeeps ==
  ASSUME RateInv, limits.enabled, NEW s \in Scopes, NEW T \in 1 .. limits.burst, limits' = limits,
         \A i \in 1 .. Len(admitted[s]) :
           /\ admitted[s][i] <= now
           /\ Len(admitted[s]) - i + 1 + T <= PassesIn(limits, now - admitted[s][i]),
         admitted' = [admitted EXCEPT ![s] = Append(@, now)],
         s \in DOMAIN buckets', buckets'[s].tokens = T - 1, buckets'[s].last = now
  PROVE  Within(s)' /\ Bounded(s)'
<1> DEFINE a == admitted[s]
           n == Len(a)
<1>1. a \in Seq(Nat) /\ now \in Nat /\ limits \in Limit /\ limits.burst \in Nat
  BY DEF RateInv, Limit
<1>2. n \in Nat /\ T \in Nat /\ T >= 1 /\ T <= limits.burst /\ \A i \in 1 .. n : a[i] \in Nat
  <2>1. n \in Nat /\ \A i \in 1 .. n : a[i] \in Nat
    BY <1>1
  <2>2. T \in Nat /\ T >= 1 /\ T <= limits.burst
    BY <1>1
  <2> QED
    BY <2>1, <2>2
<1>3. /\ admitted'[s] = Append(a, now) /\ Len(admitted'[s]) = n + 1 /\ admitted'[s][n + 1] = now
      /\ \A i \in 1 .. n : admitted'[s][i] = a[i]
  BY <1>1 DEF RateInv
<1>4. \A i \in 1 .. n : a[i] <= now /\ n - i + 1 + T <= PassesIn(limits, now - a[i])
  OBVIOUS
<1>5. \A i, j \in 1 .. n : i <= j => j - i + 1 <= PassesIn(limits, a[j] - a[i])
  BY DEF RateInv, Bounded
<1>6. 0 = now - now /\ PassesIn(limits, 0) \in Nat /\ limits.burst <= PassesIn(limits, 0)
  <2>1. ASSUME NEW x \in Nat
        PROVE  PassesIn(limits, x) \in Nat /\ limits.burst <= PassesIn(limits, x)
    <3>1. x <= x
      OBVIOUS
    <3> QED
      BY <1>1, <3>1, PassesGrow
  <2>2. 0 = now - now /\ 0 \in Nat
    BY <1>1
  <2> QED
    BY <2>1, <2>2
<1>7. \A i \in 1 .. n : PassesIn(limits, now - a[i]) \in Nat
  <2> SUFFICES ASSUME NEW i \in 1 .. n
               PROVE  PassesIn(limits, now - a[i]) \in Nat
    OBVIOUS
  <2> DEFINE x == now - a[i]
  <2>1. a[i] \in Nat /\ a[i] <= now
    BY <1>2, <1>4
  <2>2. x \in Nat /\ x <= x
    <3> DEFINE y == a[i]
    <3>1. y \in Nat /\ y <= now /\ now \in Nat
      BY <1>1, <2>1
    <3> HIDE DEF y
    <3>2. now - y \in Nat /\ now - y <= now - y
      BY <3>1
    <3> QED
      BY <3>2 DEF y
  <2> HIDE DEF x
  <2>3. PassesIn(limits, x) \in Nat
    BY <1>1, <2>2, PassesGrow
  <2> QED
    BY <2>3 DEF x
<1> HIDE DEF a, n
<1>8. \A i \in 1 .. n + 1 : i \in 1 .. n \/ i = n + 1
  BY <1>2
<1>9. Within(s)'
  <2>1. ASSUME NEW i \in 1 .. n + 1
        PROVE  /\ admitted'[s][i] <= now
               /\ n + 1 - i + 1 + (T - 1) <= PassesIn(limits, now - admitted'[s][i])
    <3>1. CASE i \in 1 .. n
      <4>1. admitted'[s][i] = a[i] /\ n + 1 - i + 1 + (T - 1) = n - i + 1 + T
        BY <1>2, <1>3, <3>1
      <4> QED
        BY <1>4, <3>1, <4>1
    <3>2. CASE i = n + 1
      <4>1. admitted'[s][i] = now /\ n + 1 - i + 1 + (T - 1) = T
        BY <1>2, <1>3, <3>2
      <4>2. T <= PassesIn(limits, 0) /\ now <= now
        BY <1>1, <1>2, <1>6
      <4> QED
        BY <1>6, <4>1, <4>2
    <3> QED
      BY <1>8, <3>1, <3>2
  <2>2. ASSUME NEW i \in 1 .. Len(admitted'[s])
        PROVE  /\ admitted'[s][i] <= buckets'[s].last
               /\ Len(admitted'[s]) - i + 1 + buckets'[s].tokens <= PassesIn(limits', buckets'[s].last - admitted'[s][i])
    <3>1. i \in 1 .. n + 1 /\ Len(admitted'[s]) = n + 1
      BY <1>3
    <3>2. buckets'[s].last = now /\ buckets'[s].tokens = T - 1 /\ limits' = limits
      OBVIOUS
    <3>3. Len(admitted'[s]) - i + 1 + buckets'[s].tokens = n + 1 - i + 1 + (T - 1)
      <4> DEFINE m == Len(admitted'[s])
                 k == buckets'[s].tokens
      <4>1. m = n + 1 /\ k = T - 1
        BY <3>1, <3>2
      <4> HIDE DEF m, k
      <4>2. m - i + 1 + k = n + 1 - i + 1 + (T - 1)
        BY <1>2, <3>1, <4>1
      <4> QED
        BY <4>2 DEF m, k
    <3>4. PassesIn(limits', buckets'[s].last - admitted'[s][i]) = PassesIn(limits, now - admitted'[s][i])
      BY <3>2
    <3> QED
      BY <2>1, <3>1, <3>2, <3>3, <3>4
  <2> QED
    BY <2>2 DEF Within
<1>10. Bounded(s)'
  <2>1. ASSUME NEW i \in 1 .. n + 1, NEW j \in 1 .. n + 1, i <= j
        PROVE  j - i + 1 <= PassesIn(limits, admitted'[s][j] - admitted'[s][i])
    <3>1. CASE i \in 1 .. n /\ j \in 1 .. n
      BY <1>3, <1>5, <2>1, <3>1
    <3>2. CASE i \in 1 .. n /\ j = n + 1
      <4>1. admitted'[s][i] = a[i] /\ admitted'[s][j] = now
        BY <1>3, <3>2
      <4>2. j - i + 1 <= n - i + 1 + T /\ n - i + 1 + T \in Int /\ j - i + 1 \in Int
        BY <1>2, <3>2
      <4>3. j - i + 1 <= PassesIn(limits, now - a[i])
        <5> DEFINE D == PassesIn(limits, now - a[i])
        <5>1. D \in Nat /\ n - i + 1 + T <= D
          BY <1>4, <1>7, <3>2
        <5> HIDE DEF D
        <5>2. j - i + 1 <= D
          BY <4>2, <5>1
        <5> QED
          BY <5>2 DEF D
      <4> QED
        BY <4>1, <4>3
    <3>3. CASE i = n + 1
      <4>1. j = n + 1 /\ j - i + 1 = 1
        BY <1>2, <2>1, <3>3
      <4>2. admitted'[s][i] = now /\ admitted'[s][j] = now
        BY <1>3, <3>3, <4>1
      <4>3. 1 <= PassesIn(limits, 0)
        BY <1>1, <1>2, <1>6
      <4> QED
        BY <1>6, <4>1, <4>2, <4>3
    <3> QED
      BY <1>8, <3>1, <3>2, <3>3
  <2> QED
    BY <1>3, <2>1 DEF Bounded
<1> QED
  BY <1>9, <1>10

LEMMA ConsumeKeeps ==
  ASSUME RateInv, NEW s \in Scopes, NEW passed \in BOOLEAN, Consume(s, passed), UNCHANGED <<limits, now>>
  PROVE  RateInv'
<1> DEFINE b == KeptBuckets(buckets)
           T == Tokens(b, s)
           left == IF passed THEN T - 1 ELSE T
<1>1. /\ passed = (limits.enabled => T >= 1)
      /\ limits.enabled => buckets' = [x \in DOMAIN b \cup {s} |-> IF x = s THEN [tokens |-> left, last |-> now] ELSE b[x]]
      /\ ~limits.enabled => buckets' = buckets
      /\ admitted' = IF passed THEN [admitted EXCEPT ![s] = Append(@, now)] ELSE admitted
  BY DEF Consume
<1>2. /\ DOMAIN b \subseteq DOMAIN buckets /\ \A x \in DOMAIN b : b[x] = buckets[x]
      /\ \A x \in Scopes : Tokens(b, x) \in 0 .. limits.burst
      /\ limits.enabled => \A x \in Scopes : \A i \in 1 .. Len(admitted[x]) :
           /\ admitted[x][i] <= now
           /\ Len(admitted[x]) - i + 1 + Tokens(b, x) <= PassesIn(limits, now - admitted[x][i])
  BY Accrued
<1>3. T \in 0 .. limits.burst /\ limits.burst \in Nat /\ now \in Nat /\ limits \in Limit
  BY <1>2 DEF RateInv, Limit
<1>4. \A x \in DOMAIN buckets : x \in Scopes /\ buckets[x].tokens \in 0 .. limits.burst /\ buckets[x].last \in 0 .. now
  BY DEF RateInv
<1>5. admitted' \in [Scopes -> Seq(Nat)] /\ \A x \in Scopes : x # s => admitted'[x] = admitted[x]
  BY <1>1, <1>3 DEF RateInv
<1>6. \A x \in Scopes : x \notin DOMAIN b => Tokens(b, x) = limits.burst
  BY DEF Tokens
<1> HIDE DEF b
<1>7. CASE ~limits.enabled
  BY <1>1, <1>5, <1>7 DEF RateInv
<1>8. CASE limits.enabled
  <2>1. passed => T \in 1 .. limits.burst
    <3>1. passed => T >= 1
      BY <1>1, <1>8
    <3> QED
      BY <1>3, <3>1
  <2>2. left \in 0 .. limits.burst /\ (passed => left = T - 1) /\ (~passed => left = T)
    BY <1>3, <2>1
  <2> HIDE DEF left
  <2>3. /\ DOMAIN buckets' = DOMAIN b \cup {s} /\ buckets'[s].tokens = left /\ buckets'[s].last = now
        /\ \A x \in DOMAIN b : x # s => buckets'[x] = buckets[x]
    BY <1>1, <1>2, <1>8
  <2>4. /\ now' \in Nat /\ DOMAIN buckets' \subseteq Scopes
        /\ \A x \in DOMAIN buckets' : buckets'[x].tokens \in 0 .. limits'.burst /\ buckets'[x].last \in 0 .. now'
    BY <1>2, <1>3, <1>4, <2>2, <2>3
  <2>5. \A x \in Scopes : Within(x) /\ Bounded(x)
    BY <1>8 DEF RateInv
  <2>6. ASSUME NEW x \in Scopes
        PROVE  Within(x)' /\ Bounded(x)'
    <3>1. CASE x # s /\ x \in DOMAIN buckets'
      <4>1. x \in DOMAIN buckets /\ buckets'[x] = buckets[x] /\ admitted'[x] = admitted[x]
        BY <1>2, <1>5, <2>3, <3>1
      <4> QED
        BY <2>5, <3>1, <4>1 DEF Within, Bounded
    <3>2. CASE x # s /\ x \notin DOMAIN buckets'
      <4>1. x \notin DOMAIN b /\ admitted'[x] = admitted[x]
        BY <1>5, <2>3, <3>2
      <4>2. \A i \in 1 .. Len(admitted[x]) :
              /\ admitted[x][i] <= now
              /\ Len(admitted[x]) - i + 1 + limits.burst <= PassesIn(limits, now - admitted[x][i])
        BY <1>2, <1>6, <1>8, <4>1
      <4> QED
        BY <2>5, <3>2, <4>1, <4>2 DEF Within, Bounded
    <3>3. CASE x = s /\ passed
      <4>1. Within(s)' /\ Bounded(s)'
        BY <1>1, <1>2, <1>8, <2>1, <2>2, <2>3, <3>3, PassKeeps
      <4> QED
        BY <3>3, <4>1
    <3>4. CASE x = s /\ ~passed
      <4>1. admitted' = admitted /\ s \in DOMAIN buckets' /\ buckets'[s].tokens = T /\ buckets'[s].last = now
        BY <1>1, <2>2, <2>3, <3>4
      <4>2. \A i \in 1 .. Len(admitted[s]) :
              /\ admitted[s][i] <= now
              /\ Len(admitted[s]) - i + 1 + T <= PassesIn(limits, now - admitted[s][i])
        BY <1>2, <1>8
      <4> HIDE DEF T
      <4> QED
        BY <2>5, <3>4, <4>1, <4>2 DEF Within, Bounded
    <3> QED
      BY <3>1, <3>2, <3>3, <3>4
  <2> QED
    BY <1>5, <2>4, <2>6 DEF RateInv
<1> QED
  BY <1>7, <1>8

\* Time allows a scope without a bucket no less, and the others the same until their
\* buckets are used.
LEMMA TimeKeeps ==
  ASSUME RateInv, TimePasses
  PROVE  RateInv'
<1>1. /\ now' = now + 1 /\ UNCHANGED <<limits, buckets, admitted>> /\ now \in Nat
      /\ admitted \in [Scopes -> Seq(Nat)] /\ limits \in Limit /\ limits.burst \in Nat
  BY DEF TimePasses, RateInv, Limit
<1>2. /\ now' \in Nat
      /\ \A s \in DOMAIN buckets' : buckets'[s].tokens \in 0 .. limits'.burst /\ buckets'[s].last \in 0 .. now'
  BY <1>1 DEF RateInv
<1>3. ASSUME limits.enabled, NEW s \in Scopes
      PROVE  Within(s)' /\ Bounded(s)'
  <2>1. Within(s) /\ Bounded(s)
    BY <1>3 DEF RateInv
  <2>2. CASE s \in DOMAIN buckets
    BY <1>1, <2>1, <2>2 DEF Within, Bounded
  <2>3. CASE s \notin DOMAIN buckets
    <3>1. ASSUME NEW i \in 1 .. Len(admitted[s])
          PROVE  /\ admitted[s][i] <= now + 1
                 /\ Len(admitted[s]) - i + 1 + limits.burst <= PassesIn(limits, now + 1 - admitted[s][i])
      <4> DEFINE n == Len(admitted[s]) - i + 1
                 a == admitted[s][i]
      <4>1. n \in Nat /\ a \in Nat
        <5>1. admitted[s] \in Seq(Nat)
          BY <1>1
        <5>2. Len(admitted[s]) \in Nat /\ a \in Nat
          BY <5>1
        <5> QED
          BY <5>2
      <4>2. a <= now /\ n + limits.burst <= PassesIn(limits, now - a)
        BY <2>1, <2>3 DEF Within
      <4> HIDE DEF n, a
      <4>3. now - a \in Nat /\ now + 1 - a \in Nat /\ now - a <= now + 1 - a
        BY <1>1, <4>1, <4>2
      <4> DEFINE x == now - a
                 y == now + 1 - a
      <4>4. x \in Nat /\ y \in Nat /\ x <= y /\ n + limits.burst <= PassesIn(limits, x)
        BY <4>2, <4>3
      <4> HIDE DEF x, y
      <4>5. /\ PassesIn(limits, x) \in Nat /\ PassesIn(limits, y) \in Nat /\ (y - x) * limits.rate \in Nat
            /\ PassesIn(limits, x) + (y - x) * limits.rate <= PassesIn(limits, y)
        BY <1>1, <4>4, PassesGrow
      <4>6. n + limits.burst <= PassesIn(limits, y)
        <5> DEFINE v == (y - x) * limits.rate
                   A == PassesIn(limits, x)
                   D == PassesIn(limits, y)
        <5>1. v \in Nat /\ A \in Nat /\ D \in Nat /\ A + v <= D /\ n + limits.burst <= A
          BY <4>4, <4>5
        <5> HIDE DEF v, A, D
        <5>2. n + limits.burst <= D
          BY <1>1, <4>1, <5>1
        <5> QED
          BY <5>2 DEF D
      <4>7. a <= now + 1
        BY <1>1, <4>1, <4>2
      <4> QED
        BY <4>6, <4>7 DEF n, a, y
    <3>2. ASSUME NEW i \in 1 .. Len(admitted'[s])
          PROVE  /\ admitted'[s][i] <= now'
                 /\ Len(admitted'[s]) - i + 1 + limits'.burst <= PassesIn(limits', now' - admitted'[s][i])
      <4>1. limits' = limits /\ now' = now + 1 /\ admitted' = admitted /\ i \in 1 .. Len(admitted[s])
        BY <1>1
      <4>2. PassesIn(limits', now' - admitted'[s][i]) = PassesIn(limits, now + 1 - admitted[s][i])
        <5>1. admitted[s] \in Seq(Nat)
          BY <1>1
        <5>2. admitted[s][i] \in Nat /\ admitted'[s][i] = admitted[s][i]
          BY <4>1, <5>1
        <5>3. now' - admitted'[s][i] = now + 1 - admitted[s][i]
          BY <1>1, <4>1, <5>2
        <5> QED
          BY <4>1, <5>3
      <4>3. Len(admitted'[s]) - i + 1 + limits'.burst = Len(admitted[s]) - i + 1 + limits.burst
        BY <4>1
      <4> QED
        BY <3>1, <4>1, <4>2, <4>3
    <3>3. Bounded(s)'
      BY <1>1, <2>1 DEF Bounded
    <3>4. s \notin DOMAIN buckets'
      BY <1>1, <2>3
    <3> QED
      BY <3>2, <3>3, <3>4 DEF Within
  <2> QED
    BY <2>2, <2>3
<1> QED
  BY <1>1, <1>2, <1>3 DEF RateInv

LEMMA RateStutters ==
  ASSUME RateInv, UNCHANGED <<limits, now, buckets, admitted>>
  PROVE  RateInv'
BY DEF RateInv, Within, Bounded
-----------------------------------------------------------------------------
(* The host: every step of the process.                                    *)

LEMMA HostStarts ==
  ASSUME NEW wanted \in Seq(Modes), NEW binds \in SUBSET Modes,
         NEW limit \in [enabled: BOOLEAN, burst: Nat, rate: Nat], HostInit(wanted, binds, limit)
  PROVE  HostInv
<1>1. /\ host = [pc |-> "binding", wanted |-> wanted, binds |-> binds, bound |-> {}, ready |-> "none",
                 failed |-> FALSE, report |-> "none"]
      /\ task = [m \in Modes |-> "none"] /\ asked = FALSE
      /\ request = [r \in Requests |-> [pc |-> "new", answer |-> "none"]]
      /\ slots = [l \in Limiters |-> MaxInFlight] /\ permits = MaxInFlight
      /\ limits = limit /\ buckets = <<>> /\ now = 0 /\ admitted = [s \in Scopes |-> <<>>]
  BY DEF HostInit
<1>2. HostTyped
  <2>1. host \in Hosts
    BY <1>1 DEF Hosts
  <2>2. task \in [Modes -> Tasks] /\ request \in [Requests -> Requested]
    BY <1>1 DEF Tasks, Requested, Answered
  <2>3. slots \in [Limiters -> Nat] /\ permits \in Nat
    BY <1>1, HostAssumption
  <2> QED
    BY <1>1, <2>1, <2>2, <2>3 DEF HostTyped, Requested
<1>3. DrainInv
  BY <1>1 DEF DrainInv, InFlight
<1>4. PermitsExact
  <2>1. Calls = {} /\ \A l \in Limiters : AtLimiter(l) = {}
    BY <1>1 DEF Calls, AtLimiter, Holding
  <2>2. Cardinality({}) = 0 /\ MaxInFlight \in Nat
    BY FS_EmptySet, HostAssumption
  <2>3. permits + Cardinality(Calls) = MaxInFlight
    BY <1>1, <2>1, <2>2
  <2>4. ASSUME NEW l \in Limiters
        PROVE  slots[l] + Cardinality(AtLimiter(l)) = MaxInFlight
    <3>1. AtLimiter(l) = {} /\ slots[l] = MaxInFlight
      BY <1>1, <2>1
    <3>2. Cardinality(AtLimiter(l)) = 0
      BY <2>2, <3>1
    <3> QED
      BY <2>2, <3>1, <3>2
  <2> QED
    BY <2>3, <2>4 DEF PermitsExact, Calls, AtLimiter
<1>5. RateInv
  <2>1. DOMAIN buckets = {} /\ now \in Nat
    BY <1>1
  <2>2. \A s \in Scopes : Len(admitted[s]) = 0
    BY <1>1
  <2>3. admitted \in [Scopes -> Seq(Nat)]
    BY <1>1
  <2>4. \A s \in Scopes : Within(s) /\ Bounded(s)
    BY <2>2 DEF Within, Bounded
  <2> QED
    BY <1>1, <2>1, <2>3, <2>4 DEF RateInv
<1> QED
  BY <1>2, <1>3, <1>4, <1>5 DEF HostInv

\* Nothing else moves the requests or the listeners.
LEMMA HostRests ==
  ASSUME HostTyped, DrainInv, PermitsExact, UNCHANGED <<host, task, request, slots, permits>>, asked' \in BOOLEAN
  PROVE  HostTyped' /\ DrainInv' /\ PermitsExact'
BY DEF HostTyped, DrainInv, PermitsExact, Holding

\* A step of a request passes its scope through the limiter once, if at all.
LEMMA HandleLimited ==
  ASSUME RateInv, NEW r \in Requests, Arrive(r) \/ Authenticate(r) \/ Admit(r) \/ Respond(r) \/ TimedOut(r)
  PROVE  RateInv'
<1>1. CASE Admit(r) /\ Decoded(r) /\ Authorized(r)
  <2>1. Request[r].scope \in Scopes
    BY <1>1 DEF Authorized, Scopes
  <2>2. PICK passed \in BOOLEAN : Consume(Request[r].scope, passed)
    BY <1>1 DEF Admit
  <2>3. UNCHANGED <<limits, now>>
    BY <1>1 DEF Admit
  <2> QED
    BY <2>1, <2>2, <2>3, ConsumeKeeps
<1>2. CASE Admit(r) /\ ~(Decoded(r) /\ Authorized(r))
  BY <1>2, RateStutters DEF Admit
<1>3. CASE Arrive(r) \/ Authenticate(r) \/ Respond(r) \/ TimedOut(r)
  BY <1>3, RateStutters DEF Arrive, Authenticate, Respond, TimedOut
<1> QED
  BY <1>1, <1>2, <1>3

LEMMA HostPreserved ==
  ASSUME HostInv, [Next]_vars
  PROVE  HostInv'
<1>1. HostTyped /\ DrainInv /\ PermitsExact /\ RateInv /\ asked \in BOOLEAN
  BY DEF HostInv, HostTyped
<1>2. ASSUME UNCHANGED serving
      PROVE  HostInv'
  <2>1. UNCHANGED <<host, task, asked, request, slots, permits, limits, buckets, now, admitted>>
    BY <1>2 DEF serving
  <2> QED
    BY <1>1, <2>1, HostRests, RateStutters DEF HostInv
<1>3. ASSUME UNCHANGED <<slots, permits, limits, buckets, now, admitted>>, HostTyped' /\ DrainInv' /\ PermitsExact'
      PROVE  HostInv'
  BY <1>1, <1>3, RateStutters DEF HostInv
<1>4. CASE HostStep
  <2>1. UNCHANGED hosting
    BY <1>4 DEF HostStep, Bind, TaskEnds, Ready, Select, Drained
  <2>2. \/ \E m \in Modes, ok \in BOOLEAN : Bind(m, ok)
        \/ \E m \in Modes : TaskEnds(m) \/ TaskFails(m)
        \/ Ready \/ Select \/ Drained
    <3>1. \A m \in Modes : (m \in host.binds) \in BOOLEAN
      OBVIOUS
    <3> QED
      BY <1>4, <3>1 DEF HostStep
  <2>3. HostTyped' /\ DrainInv' /\ PermitsExact'
    BY <1>1, <2>2, HostMoves
  <2> QED
    BY <1>3, <2>1, <2>3 DEF hosting
<1>5. CASE HostTrouble
  <2>1. CASE AskShutdown
    <3>1. UNCHANGED <<host, task, request, slots, permits, limits, buckets, now, admitted>> /\ asked' \in BOOLEAN
      BY <2>1 DEF AskShutdown
    <3> QED
      BY <1>1, <1>3, <3>1, HostRests
  <2>2. CASE DrainBroken
    <3>1. HostTyped' /\ DrainInv' /\ PermitsExact' /\ UNCHANGED <<limits, buckets, now, admitted>>
      BY <1>1, <2>2, DrainBreaks DEF DrainBroken, hosting
    <3> QED
      BY <1>1, <3>1, RateStutters DEF HostInv
  <2>3. CASE \E m \in Modes : Bind(m, FALSE) \/ TaskFails(m)
    <3>1. UNCHANGED hosting
      BY <2>3 DEF Bind, TaskFails
    <3>2. HostTyped' /\ DrainInv' /\ PermitsExact'
      BY <1>1, <2>3, HostMoves
    <3> QED
      BY <1>3, <3>1, <3>2 DEF hosting
  <2> QED
    BY <1>5, <2>1, <2>2, <2>3 DEF HostTrouble
<1>6. CASE Time
  <2>1. UNCHANGED <<host, task, asked, request, slots, permits>> /\ TimePasses
    BY <1>6 DEF Time, TimePasses
  <2> QED
    BY <1>1, <2>1, HostRests, TimeKeeps DEF HostInv
<1>7. CASE \E r \in Requests : Receive(r) \/ Handle(r)
  <2>1. PICK r \in Requests : Arrive(r) \/ Authenticate(r) \/ Admit(r) \/ Respond(r) \/ TimedOut(r)
    BY <1>7 DEF Receive, Handle
  <2>2. RateInv'
    BY <1>1, <2>1, HandleLimited
  <2>3. HostTyped' /\ DrainInv' /\ PermitsExact'
    BY <1>1, <2>1, ArriveKeeps, AuthenticateKeeps, AdmitKeeps, RespondKeeps
  <2> QED
    BY <2>2, <2>3 DEF HostInv
<1>8. CASE \E h \in Holders : TakeLease(h) \/ GiveLease(h) \/ Join(h)
  BY <1>2, <1>8 DEF TakeLease, GiveLease, Join, TelemetryOnly
<1>9. CASE HostShutsDown \/ Export \/ \E s \in Spans : Measure(s)
  BY <1>2, <1>9 DEF HostShutsDown, Export, Measure, TelemetryOnly
<1>10. CASE Issuer \/ Seconds \/ \E k \in KeyIds : Token(k)
  BY <1>2, <1>10 DEF Issuer, Seconds, Token, KeysOnly
<1>11. CASE McpProcess \/ \E line \in Lines : McpLine(line)
  BY <1>2, <1>11 DEF McpProcess, McpLine, McpOnly
<1>12. CASE UNCHANGED vars
  BY <1>2, <1>12 DEF vars
<1> QED
  BY <1>4, <1>5, <1>6, <1>7, <1>8, <1>9, <1>10, <1>11, <1>12 DEF Next

-----------------------------------------------------------------------------
(* NetworkService: the theorems.                                           *)

NetworkInv == TelemetryInv /\ McpInv /\ KeyTypeOK /\ HostInv /\ load \in Workloads

\* The invariants of the parts hold together, whatever the process does at once
\* (serve_with_shutdown, the clients of the process, the MCP session).
THEOREM NetworkInvariant == Spec => []NetworkInv
<1>1. Init => NetworkInv
  <2> SUFFICES ASSUME Init
               PROVE  NetworkInv
    OBVIOUS
  <2>1. /\ load \in Workloads /\ load.wanted \in Seq(Modes) /\ load.binds \in SUBSET Modes
        /\ load.limit \in [enabled: BOOLEAN, burst: Nat, rate: Nat]
    BY ServiceAssumption DEF Init
  <2>2. TelemetryInv /\ McpInv
    BY TelemetryStarts, McpStarts DEF Init
  <2>3. HostInv
    BY <2>1, HostStarts DEF Init
  <2>4. KeyTypeOK
    BY KeyAssumption DEF Init, KeyInit, KeyTypeOK
  <2> QED
    BY <2>1, <2>2, <2>3, <2>4 DEF NetworkInv
<1>2. NetworkInv /\ [Next]_vars => NetworkInv'
  <2> SUFFICES ASSUME NetworkInv, [Next]_vars
               PROVE  NetworkInv'
    OBVIOUS
  <2>1. load' = load
    BY DEF Next, vars, TakeLease, GiveLease, Join, HostShutsDown, Export, Measure, TelemetryOnly, HostStep, HostTrouble,
           Time, HostOnly, Issuer, Seconds, Token, KeysOnly, Receive, Handle, McpProcess, McpLine, McpOnly
  <2> QED
    BY <2>1, TelemetryPreserved, McpPreserved, KeysPreserved, HostPreserved DEF NetworkInv
<1> QED
  BY <1>1, <1>2, PTL DEF Spec

\* Every span that ended is queued, with the exporter, acknowledged or counted as
\* dropped; the end of a service with an exporter flushes; and until somebody calls
\* shutdown the service runs exactly while leases are held, traces are taken exactly
\* while it has a collector, and it has an exporter exactly if it is enabled as well:
\* over any clients, hosts, settings and spans (acquire_lease, start_service,
\* release_lease, shutdown, export_otlp).
THEOREM SpansAreAccounted == Spec => []TelemetrySound
<1>1. NetworkInv => TelemetrySound
  BY DEF NetworkInv, TelemetryInv, SpansInv, CutInv, ServiceInv, TelemetrySound, FlushedAtStop
<1> QED
  BY <1>1, NetworkInvariant, PTL

\* No permit is lost or doubled; no scope passes an enabled limiter more often than
\* burst and rate allow, with the surplus of a burst that does not fill up in the idle
\* time; and a host that reports a clean stop has answered all it accepted: for any
\* limits, enabled or not, listeners and requests (ServiceState::call,
\* check_and_consume, serve_state_ready).
THEOREM LimitsHold == Spec => []RequestsBounded
<1>1. NetworkInv => RequestsBounded
  <2> SUFFICES ASSUME NetworkInv
               PROVE  RequestsBounded
    OBVIOUS
  <2>1. TelemetryTypeOK
    <3>1. Held \subseteq Holders /\ IsFiniteSet(Holders)
      BY TelemetryAssumption DEF Held
    <3>2. Cardinality(Held) <= Cardinality(Holders) /\ Cardinality(Held) \in Nat /\ Cardinality(Holders) \in Nat
      BY <3>1, FS_Subset, FS_CardinalityType
    <3>3. refs \in Nat /\ refs <= Cardinality(Held)
      BY DEF NetworkInv, TelemetryInv, TelemetryTyped, ServiceInv
    <3>4. refs \in 0 .. Cardinality(Holders)
      BY <3>2, <3>3
    <3>5. exporter.pc \in {"off", "parked", "drain", "post"} /\ exporter.attempt \in 0 .. 2
      BY DEF NetworkInv, TelemetryInv, TelemetryTyped, Exporters
    <3> QED
      BY <3>4, <3>5 DEF NetworkInv, TelemetryInv, TelemetryTyped, SpansInv, TelemetryTypeOK
  <2>2. HostTyped /\ DrainInv /\ PermitsExact /\ RateInv
    BY DEF NetworkInv, HostInv
  <2>3. HostTypeOK
    <3>1. permits \in 0 .. MaxInFlight
      <4>1. permits + Cardinality(Calls) = MaxInFlight /\ permits \in Nat /\ MaxInFlight \in Nat
        BY <2>2, HostAssumption DEF PermitsExact, HostTyped, Calls
      <4> QED
        BY <4>1, RequestsFinite
    <3>2. slots \in [Limiters -> 0 .. MaxInFlight]
      <4>1. ASSUME NEW l \in Limiters
            PROVE  slots[l] \in 0 .. MaxInFlight
        <5>1. slots[l] + Cardinality(AtLimiter(l)) = MaxInFlight /\ slots[l] \in Nat /\ MaxInFlight \in Nat
          BY <2>2, HostAssumption DEF PermitsExact, HostTyped, AtLimiter
        <5> QED
          BY <5>1, RequestsFinite
      <4> QED
        BY <2>2, <4>1 DEF HostTyped
    <3>3. host \in Hosts /\ task \in [Modes -> Tasks] /\ request \in [Requests -> Requested]
      BY <2>2 DEF HostTyped, Requested
    <3>4. /\ host.pc \in {"binding", "serving", "stopping", "ended"} /\ host.bound \subseteq Modes
          /\ host.ready \in {"none", "ok", "error"} /\ host.report \in {"none", "stopped", "error"}
      BY <3>3 DEF Hosts
    <3>5. \A r \in Requests : request[r].pc \in {"new", "auth", "admit", "call", "done"}
      BY <3>3 DEF Requested
    <3> QED
      BY <2>2, <3>1, <3>2, <3>3, <3>4, <3>5 DEF HostTypeOK, Tasks, RateInv
  <2>4. McpTypeOK
    BY DEF NetworkInv, McpInv, McpTyped, McpTypeOK
  <2>5. StoppedClean
    <3> SUFFICES ASSUME host.report = "stopped"
                 PROVE  /\ \A r \in Requests : request[r].pc \in {"new", "done"}
                        /\ \A m \in Modes : task[m] \in {"none", "ended"}
      BY DEF StoppedClean
    <3>1. \A m \in Modes : task[m] \in {"none", "ended"}
      BY <2>2 DEF DrainInv
    <3>2. \A r \in Requests : request[r].pc \notin InFlight
      BY <2>2, <3>1, HostAssumption DEF DrainInv, Attended
    <3>3. \A r \in Requests : request[r].pc \in {"new", "auth", "admit", "call", "done"}
      BY <2>2 DEF HostTyped
    <3> QED
      BY <2>2, <3>1, <3>2, <3>3 DEF DrainInv, InFlight
  <2>6. RateBounded
    BY <2>2 DEF RateInv, RateBounded, Bounded
  <2> QED
    BY <2>1, <2>2, <2>3, <2>4, <2>5, <2>6 DEF NetworkInv, RequestsBounded, TypeOK
<1> QED
  BY <1>1, NetworkInvariant, PTL

\* A tool runs, or the list is given, only after one accepted initialize and the
\* notification that followed it, for sessions of any length (handle of protocol.rs).
THEOREM ToolsWait == Spec => []ToolsAfterHandshake
<1>1. NetworkInv => ToolsAfterHandshake
  BY DEF NetworkInv, McpInv
<1> QED
  BY <1>1, NetworkInvariant, PTL

-----------------------------------------------------------------------------
(* Policies.                                                               *)

PolicyPcs == {"new", "draining", "claimed", "invalidated", "cached", "missed", "read", "done"}
Listing == {"cached", "missed", "read"}

\* A call has the fields of NewCall, whatever they hold.
IsCall(x) ==
  x = [pc |-> x.pc, request |-> x.request, version |-> x.version, policies |-> x.policies,
       event |-> x.event, result |-> x.result, answer |-> x.answer, listed |-> x.listed,
       during |-> x.during]

PolicyShape ==
  /\ rows = [i \in Ids |-> rows[i]] /\ \A i \in Ids : Cardinality(rows[i]) <= 1
  /\ pfaults \in 0 .. MaxPolicyFaults
  /\ pcall = [c \in Callers |-> pcall[c]]
  /\ \A c \in Callers : IsCall(pcall[c]) /\ pcall[c].pc \in PolicyPcs

\* The versions H that there have been, each one longer than the one before it, up to the last.
Chain(H, rank, last) ==
  /\ rank \in [H -> Nat] /\ last \in H
  /\ \A v \in H : rank[v] <= rank[last]
  /\ \A u, v \in H : \A i, change : v = NextVersion(u, i, change) => rank[v] = rank[u] + 1
  /\ <<>> \notin H
  /\ \A v \in H : \E u \in H \cup {<<>>} : \E i, change : v = NextVersion(u, i, change)

\* Every version that a call or the copy in Redis carries is one of them.
Known(H) ==
  /\ cache # None => cache.version \in H
  /\ \A c \in Callers : pcall[c].pc \in Listing => pcall[c].version \in H

History == \E H, rank : Chain(H, rank, version) /\ Known(H)

\* Rows that a reader has, or has put in Redis, under the current version are current.
Current ==
  /\ CacheFresh
  /\ \A c \in Callers : pcall[c].pc = "read" /\ pcall[c].version = version
                          => pcall[c].policies = rows

\* A listing call has seen the rows as they are now, and those it has read.
Seen ==
  \A c \in Callers :
    /\ pcall[c].pc \in Listing => rows \in pcall[c].during
    /\ pcall[c].pc = "read" => pcall[c].policies \in pcall[c].during
    /\ pcall[c].answer = "list" => pcall[c].pc = "done"

\* Whatever carries the version that a call has read holds rows of a moment of that call.
Moments ==
  \A c \in Callers : pcall[c].pc = "cached" =>
    /\ cache # None /\ cache.version = pcall[c].version => cache.policies \in pcall[c].during
    /\ \A d \in Callers : pcall[d].pc = "read" /\ pcall[d].version = pcall[c].version
                            => pcall[d].policies \in pcall[c].during

PolicyInv == PolicyShape /\ History /\ Current /\ Seen /\ Moments /\ ListedWithinCall

\* Two versions are the same only as continuations of the same version.
LEMMA VersionsDiffer ==
  ASSUME NEW u, NEW v, NEW i, NEW j, NEW x, NEW y
  PROVE  /\ NextVersion(u, i, x) = NextVersion(v, j, y) => u = v
         /\ NextVersion(u, i, x) # <<>>
  BY DEF NextVersion

\* The next version is a new one.
LEMMA VersionIsNew ==
  ASSUME NEW H, NEW rank, Chain(H, rank, version), NEW i, NEW change
  PROVE  NextVersion(version, i, change) \notin H
<1>1. SUFFICES ASSUME NextVersion(version, i, change) \in H PROVE FALSE
  OBVIOUS
<1> DEFINE n == NextVersion(version, i, change)
<1>2. rank[n] = rank[version] + 1
  BY <1>1 DEF Chain
<1> HIDE DEF n
<1>3. rank[n] \in Nat /\ rank[version] \in Nat /\ rank[n] <= rank[version]
  BY <1>1 DEF Chain, n
<1> QED
  BY <1>2, <1>3

\* The order of the versions extends to the version that a change makes.
LEMMA ChainGrows ==
  ASSUME NEW H, NEW rank, Chain(H, rank, version), NEW i, NEW change,
         version' = NextVersion(version, i, change)
  PROVE  \E r : Chain(H \cup {version'}, r, version')
<1> DEFINE n == version'
           K == H \cup {n}
           r == [v \in K |-> IF v = n THEN rank[version] + 1 ELSE rank[v]]
<1>1. n \notin H /\ n # <<>>
  BY VersionIsNew, VersionsDiffer
<1>2. /\ version \in H /\ rank \in [H -> Nat] /\ <<>> \notin H
      /\ \A v \in H : rank[v] \in Nat /\ rank[v] <= rank[version]
  BY DEF Chain
<1>3. \A v \in H : \E u \in H \cup {<<>>} : \E j, x : v = NextVersion(u, j, x)
  BY DEF Chain
<1>4. r \in [K -> Nat] /\ r[n] = rank[version] + 1 /\ \A v \in H : r[v] = rank[v]
  BY <1>1, <1>2
<1> HIDE DEF r
<1>5. \A v \in K : r[v] <= r[n]
  BY <1>2, <1>4
<1>6. ASSUME NEW u \in K, NEW v \in K, NEW j, NEW x, v = NextVersion(u, j, x)
      PROVE  r[v] = r[u] + 1
  <2>1. CASE v = n
    <3>1. u = version
      BY <1>6, <2>1 DEF NextVersion
    <3> QED
      BY <1>2, <1>4, <2>1, <3>1
  <2>2. CASE v \in H
    <3>1. PICK p \in H \cup {<<>>} : \E k, y : v = NextVersion(p, k, y)
      BY <1>3, <2>2
    <3>2. u = p
      BY <1>6, <3>1 DEF NextVersion
    <3>3. u \in H
      BY <1>1, <3>2
    <3>4. rank[v] = rank[u] + 1
      BY <1>6, <2>2, <3>3 DEF Chain
    <3> QED
      BY <1>4, <2>2, <3>3, <3>4
  <2> QED
    BY <2>1, <2>2
<1>7. \A v \in K : \E u \in K \cup {<<>>} : \E j, x : v = NextVersion(u, j, x)
  BY <1>2, <1>3
<1>8. /\ r \in [K -> Nat] /\ n \in K
      /\ \A u, v \in K : \A j, x : v = NextVersion(u, j, x) => r[v] = r[u] + 1
      /\ <<>> \notin K
  BY <1>1, <1>2, <1>4, <1>6
<1> QED
  BY <1>5, <1>7, <1>8 DEF Chain

\* Only caller c moves, and it keeps the fields of a call.
Moves(c) ==
  /\ pcall' = [d \in Callers |-> pcall'[d]]
  /\ \A d \in Callers : d # c => pcall'[d] = pcall[d]
  /\ IsCall(pcall'[c]) /\ pcall'[c].pc \in PolicyPcs

\* A change of rows happens only in policy_mutate.
Stores ==
  /\ rows' = rows /\ version' = version /\ pfaults' \in 0 .. MaxPolicyFaults

\* Steps after which the caller does not list: the copy in Redis stays, goes or is the
\* caller's own, and an answered list is one of a moment of the call.
LEMMA EndsListing ==
  ASSUME PolicyInv, NEW c \in Callers, Moves(c), Stores,
         pcall'[c].pc \notin Listing,
         pcall'[c].answer = "list" =>
           /\ pcall'[c].pc = "done"
           /\ \E moment \in pcall'[c].during : pcall'[c].listed = Listed(moment, pcall'[c].request),
         \/ cache' \in {cache, None}
         \/ pcall[c].pc = "read" /\ cache' = Copy(c)
  PROVE  PolicyInv'
<1>1. PolicyShape'
  BY DEF PolicyInv, PolicyShape, Moves, Stores
<1>2. History'
  <2>1. PICK H : \E rank : Chain(H, rank, version) /\ Known(H)
    BY DEF PolicyInv, History
  <2>2. PICK rank : Chain(H, rank, version) /\ Known(H)
    BY <2>1
  <2>3. Known(H)'
    BY <2>2 DEF Known, Moves, Copy, Listing
  <2> QED
    BY <2>2, <2>3 DEF History, Stores
<1>3. Current'
  BY DEF PolicyInv, Current, CacheFresh, Moves, Stores, Copy, Listing
<1>4. Seen'
  BY DEF PolicyInv, Seen, Moves, Stores, Listing
<1>5. Moments'
  BY DEF PolicyInv, Moments, Moves, Copy, Listing
<1>6. ListedWithinCall'
  BY DEF PolicyInv, ListedWithinCall, Moves
<1> QED
  BY <1>1, <1>2, <1>3, <1>4, <1>5, <1>6 DEF PolicyInv

\* What the invariant says of one policy call.
LEMMA CallFacts ==
  ASSUME PolicyInv, NEW c \in Callers
  PROVE  /\ pcall = [d \in Callers |-> pcall[d]] /\ IsCall(pcall[c]) /\ pcall[c].pc \in PolicyPcs
         /\ pcall[c].answer = "list" => pcall[c].pc = "done"
         /\ pfaults \in 0 .. MaxPolicyFaults
  BY DEF PolicyInv, PolicyShape, Seen

\* An answer ends the call and touches nothing else.
LEMMA AnswerMoves ==
  ASSUME PolicyInv, NEW c \in Callers, NEW a, Answer(c, a)
  PROVE  Moves(c) /\ pcall'[c].pc = "done" /\ pcall'[c].answer = a
<1>1. pcall = [d \in Callers |-> pcall[d]] /\ IsCall(pcall[c])
  BY CallFacts
<1> QED
  BY <1>1 DEF Answer, Moves, IsCall, PolicyPcs

\* So does the answer that carries a list.
LEMMA AnswerListMoves ==
  ASSUME PolicyInv, NEW c \in Callers, NEW l, AnswerList(c, l)
  PROVE  /\ Moves(c) /\ pcall'[c].pc = "done" /\ pcall'[c].answer = "list"
         /\ pcall'[c].listed = l /\ pcall'[c].request = pcall[c].request
         /\ pcall'[c].during = pcall[c].during
<1>1. pcall = [d \in Callers |-> pcall[d]] /\ IsCall(pcall[c])
  BY CallFacts
<1> QED
  BY <1>1 DEF AnswerList, Moves, IsCall, PolicyPcs

LEMMA RefusedKeeps ==
  ASSUME PolicyInv, NEW c \in Callers, NEW r, DispatchRefused(c, r)
  PROVE  PolicyInv'
<1>1. Moves(c) /\ pcall'[c].pc = "done" /\ pcall'[c].answer = "invalid"
  BY AnswerMoves DEF DispatchRefused
<1>2. Stores /\ cache' = cache
  BY CallFacts DEF DispatchRefused, Stores
<1> QED
  BY <1>1, <1>2, EndsListing DEF Listing

LEMMA PolicyFailsKeeps ==
  ASSUME PolicyInv, NEW c \in Callers, PolicyFails(c), MaxPolicyFaults \in Nat
  PROVE  PolicyInv'
<1>1. Moves(c) /\ pcall'[c].pc = "done" /\ pcall'[c].answer = "error"
  BY AnswerMoves DEF PolicyFails
<1>2. Stores /\ cache' = cache
  BY CallFacts DEF PolicyFails, Stores
<1> QED
  BY <1>1, <1>2, EndsListing DEF Listing

LEMMA DrainKeeps ==
  ASSUME PolicyInv, NEW c \in Callers, MaxPolicyFaults \in Nat,
         DrainClaim(c) \/ DrainEnd(c) \/ DrainInvalidate(c) \/ DrainFinish(c)
  PROVE  PolicyInv'
<1>1. /\ pcall = [d \in Callers |-> pcall[d]] /\ IsCall(pcall[c])
      /\ pfaults \in 0 .. MaxPolicyFaults
  BY CallFacts
<1>2. CASE DrainClaim(c)
  <2>1. Moves(c) /\ pcall'[c].pc = "claimed" /\ pcall'[c].answer = pcall[c].answer
    BY <1>1, <1>2 DEF DrainClaim, Moves, IsCall, PolicyPcs
  <2>2. Stores /\ cache' = cache /\ pcall[c].answer # "list"
    BY <1>1, <1>2, CallFacts DEF DrainClaim, Stores, In
  <2> QED
    BY <2>1, <2>2, EndsListing DEF Listing
<1>3. CASE DrainEnd(c)
  <2>1. Moves(c) /\ pcall'[c].pc = "done" /\ pcall'[c].answer = "ok"
    BY <1>3, AnswerMoves DEF DrainEnd
  <2>2. Stores /\ cache' = cache
    BY <1>1, <1>3 DEF DrainEnd, Stores
  <2> QED
    BY <2>1, <2>2, EndsListing DEF Listing
<1>4. CASE DrainInvalidate(c)
  <2>1. Moves(c) /\ pcall'[c].pc = "invalidated" /\ pcall'[c].answer = pcall[c].answer
    BY <1>1, <1>4 DEF DrainInvalidate, Moves, IsCall, PolicyPcs
  <2>2. Stores /\ cache' \in {cache, None} /\ pcall[c].answer # "list"
    BY <1>1, <1>4, CallFacts DEF DrainInvalidate, Stores, In
  <2> QED
    BY <2>1, <2>2, EndsListing DEF Listing
<1>5. CASE DrainFinish(c)
  <2>1. Moves(c) /\ pcall'[c].pc = "draining" /\ pcall'[c].answer = pcall[c].answer
    BY <1>1, <1>5 DEF DrainFinish, Moves, IsCall, PolicyPcs
  <2>2. Stores /\ cache' = cache /\ pcall[c].answer # "list"
    BY <1>1, <1>5, CallFacts DEF DrainFinish, Stores, In
  <2> QED
    BY <2>1, <2>2, EndsListing DEF Listing
<1> QED
  BY <1>2, <1>3, <1>4, <1>5

\* Time that passes for the copy and the events.
LEMMA EnvironmentKeeps ==
  ASSUME PolicyInv, rows' = rows, version' = version, pcall' = pcall, pfaults' = pfaults,
         cache' \in {cache, None}
  PROVE  PolicyInv'
<1>1. PolicyShape' /\ Seen' /\ ListedWithinCall'
  BY DEF PolicyInv, PolicyShape, Seen, ListedWithinCall
<1>2. Current' /\ Moments'
  BY DEF PolicyInv, Current, CacheFresh, Moments
<1>3. History'
  BY DEF PolicyInv, History, Known
<1> QED
  BY <1>1, <1>2, <1>3 DEF PolicyInv

\* The version row is read: everything that carries this version holds the rows as they
\* are now.
LEMMA ReadVersionKeeps ==
  ASSUME PolicyInv, NEW c \in Callers, NEW r, ReadVersion(c, r)
  PROVE  PolicyInv'
<1>1. pcall = [d \in Callers |-> pcall[d]] /\ IsCall(pcall[c]) /\ pcall[c].answer # "list"
  BY CallFacts DEF ReadVersion, In
<1>2. /\ Moves(c) /\ pcall'[c].pc = "cached" /\ pcall'[c].version = version
      /\ pcall'[c].during = {rows} /\ pcall'[c].answer = pcall[c].answer
  BY <1>1 DEF ReadVersion, Moves, IsCall, PolicyPcs
<1>3. UNCHANGED <<rows, version, cache, pfaults>>
  BY DEF ReadVersion
<1>4. PolicyShape'
  BY <1>2, <1>3 DEF PolicyInv, PolicyShape, Moves
<1>5. History'
  <2>1. PICK H : \E rank : Chain(H, rank, version) /\ Known(H)
    BY DEF PolicyInv, History
  <2>2. PICK rank : Chain(H, rank, version) /\ Known(H)
    BY <2>1
  <2>3. Known(H)'
    BY <1>2, <1>3, <2>2 DEF Known, Moves, Chain
  <2> QED
    BY <1>3, <2>2, <2>3 DEF History
<1>6. Current'
  BY <1>2, <1>3 DEF PolicyInv, Current, CacheFresh, Moves
<1>7. Seen' /\ ListedWithinCall'
  BY <1>1, <1>2, <1>3 DEF PolicyInv, Seen, ListedWithinCall, Moves, Listing
<1>8. Moments'
  <2> SUFFICES ASSUME NEW b \in Callers, pcall'[b].pc = "cached"
               PROVE  /\ cache # None /\ cache.version = pcall'[b].version => cache.policies \in pcall'[b].during
                      /\ \A d \in Callers : pcall'[d].pc = "read" /\ pcall'[d].version = pcall'[b].version
                                              => pcall'[d].policies \in pcall'[b].during
    BY <1>3 DEF Moments
  <2>1. ASSUME NEW d \in Callers, pcall'[d].pc = "read" PROVE d # c /\ pcall'[d] = pcall[d]
    BY <1>2, <2>1 DEF Moves
  <2>2. CASE b = c
    BY <1>2, <2>1, <2>2 DEF PolicyInv, Current, CacheFresh
  <2>3. CASE b # c
    <3>1. pcall'[b] = pcall[b]
      BY <1>2, <2>3 DEF Moves
    <3> QED
      BY <2>1, <3>1 DEF PolicyInv, Moments
  <2> QED
    BY <2>2, <2>3
<1> QED
  BY <1>4, <1>5, <1>6, <1>7, <1>8 DEF PolicyInv

\* A hit lists rows of a moment of the call.
LEMMA ReadCacheKeeps ==
  ASSUME PolicyInv, NEW c \in Callers, ReadCache(c), MaxPolicyFaults \in Nat
  PROVE  PolicyInv'
<1>1. /\ pcall = [d \in Callers |-> pcall[d]] /\ IsCall(pcall[c]) /\ pcall[c].answer # "list"
      /\ pfaults \in 0 .. MaxPolicyFaults
  BY CallFacts DEF ReadCache, In
<1>2. pcall[c].pc = "cached" /\ Stores /\ cache' = cache
  BY <1>1 DEF ReadCache, In, Stores
<1>3. CASE CacheUsable(c) /\ AnswerList(c, Listed(cache.policies, pcall[c].request))
  <2>1. /\ Moves(c) /\ pcall'[c].pc = "done" /\ pcall'[c].answer = "list"
        /\ pcall'[c].listed = Listed(cache.policies, pcall[c].request)
        /\ pcall'[c].request = pcall[c].request /\ pcall'[c].during = pcall[c].during
    BY <1>3, AnswerListMoves
  <2>2. cache.policies \in pcall[c].during
    BY <1>2, <1>3 DEF CacheUsable, PolicyInv, Moments
  <2> QED
    BY <1>2, <2>1, <2>2, EndsListing DEF Listing
<1>4. CASE pcall' = [pcall EXCEPT ![c].pc = "missed"]
  <2>1. /\ Moves(c) /\ pcall'[c].pc = "missed" /\ pcall'[c].during = pcall[c].during
        /\ pcall'[c].answer = pcall[c].answer /\ pcall'[c].version = pcall[c].version
    BY <1>1, <1>4 DEF Moves, IsCall, PolicyPcs
  <2>2. PolicyShape'
    BY <1>2, <2>1 DEF PolicyInv, PolicyShape, Moves, Stores
  <2>3. History'
    <3>1. \A H : Known(H) => Known(H)'
      BY <1>2, <2>1 DEF Known, Moves, Listing
    <3> QED
      BY <1>2, <3>1 DEF PolicyInv, History, Stores
  <2>4. Current' /\ Moments'
    BY <1>2, <2>1 DEF PolicyInv, Current, CacheFresh, Moments, Moves, Stores
  <2>5. Seen' /\ ListedWithinCall'
    BY <1>1, <1>2, <2>1 DEF PolicyInv, Seen, ListedWithinCall, Moves, Stores, Listing
  <2> QED
    BY <2>2, <2>3, <2>4, <2>5 DEF PolicyInv
<1> QED
  BY <1>3, <1>4 DEF ReadCache

\* The rows that are read are those of this moment of every listing call.
LEMMA ReadRowsKeeps ==
  ASSUME PolicyInv, NEW c \in Callers, ReadRows(c)
  PROVE  PolicyInv'
<1>1. pcall = [d \in Callers |-> pcall[d]] /\ IsCall(pcall[c]) /\ pcall[c].answer # "list"
  BY CallFacts DEF ReadRows, In
<1>2. /\ Moves(c) /\ pcall'[c].pc = "read" /\ pcall'[c].during = pcall[c].during
      /\ pcall'[c].answer = pcall[c].answer /\ pcall'[c].version = pcall[c].version
      /\ pcall'[c].policies = rows
  BY <1>1 DEF ReadRows, Moves, IsCall, PolicyPcs
<1>3. UNCHANGED <<rows, version, cache, pfaults>> /\ pcall[c].pc = "missed"
  BY DEF ReadRows, In
<1>4. PolicyShape'
  BY <1>2, <1>3 DEF PolicyInv, PolicyShape, Moves
<1>5. History'
  <2>1. \A H : Known(H) => Known(H)'
    BY <1>2, <1>3 DEF Known, Moves, Listing
  <2> QED
    BY <1>3, <2>1 DEF PolicyInv, History
<1>6. Current'
  BY <1>2, <1>3 DEF PolicyInv, Current, CacheFresh, Moves
<1>7. Seen' /\ ListedWithinCall'
  BY <1>1, <1>2, <1>3 DEF PolicyInv, Seen, ListedWithinCall, Moves, Listing
<1>8. Moments'
  <2>1. \A b \in Callers : pcall'[b].pc = "cached" =>
          b # c /\ pcall'[b] = pcall[b] /\ rows \in pcall'[b].during
    BY <1>2 DEF PolicyInv, Seen, Moves, Listing
  <2>2. \A d \in Callers : pcall'[d].pc = "read" => pcall'[d].policies = rows \/ pcall'[d] = pcall[d]
    BY <1>2 DEF Moves
  <2> QED
    BY <1>3, <2>1, <2>2 DEF PolicyInv, Moments
<1> QED
  BY <1>4, <1>5, <1>6, <1>7, <1>8 DEF PolicyInv

LEMMA PutCacheKeeps ==
  ASSUME PolicyInv, NEW c \in Callers, PutCache(c), MaxPolicyFaults \in Nat
  PROVE  PolicyInv'
<1>1. pcall[c].pc = "read" /\ (cache' = cache \/ cache' = Copy(c)) /\ Stores
  BY CallFacts DEF PutCache, In, Stores
<1>2. AnswerList(c, Listed(pcall[c].policies, pcall[c].request))
  BY DEF PutCache
<1>3. /\ Moves(c) /\ pcall'[c].pc = "done" /\ pcall'[c].answer = "list"
      /\ pcall'[c].listed = Listed(pcall[c].policies, pcall[c].request)
      /\ pcall'[c].request = pcall[c].request /\ pcall'[c].during = pcall[c].during
  BY <1>2, AnswerListMoves
<1>4. pcall[c].policies \in pcall[c].during
  BY <1>1 DEF PolicyInv, Seen
<1> QED
  BY <1>1, <1>3, <1>4, EndsListing DEF Listing

\* policy_mutate: nothing carries the new version yet, and every listing call sees the
\* new rows.
LEMMA MutateKeeps ==
  ASSUME PolicyInv, NEW c \in Callers, NEW r, NEW change, Mutate(c, r, change),
         Cardinality(change) <= 1, pcall[c].pc = "new"
  PROVE  /\ PolicyInv'
         /\ \A d \in Callers : d # c => pcall'[d].pc = pcall[d].pc /\ pcall'[d].event = pcall[d].event
         /\ pcall'[c].pc = "draining"
<1>1. /\ pcall = [d \in Callers |-> pcall[d]] /\ \A d \in Callers : IsCall(pcall[d])
      /\ pcall[c].answer # "list"
  BY CallFacts DEF PolicyInv, PolicyShape
<1> DEFINE after == [rows EXCEPT ![r.id] = change]
           Seeing(d) == d # c /\ pcall[d].pc \in Listing
<1>2. /\ rows' = after /\ version' = NextVersion(version, r.id, change)
      /\ cache' = cache /\ pfaults' = pfaults
  BY DEF Mutate
<1> DEFINE calls == [pcall EXCEPT ![c].pc = "draining", ![c].request = r]
<1>3. pcall' = Witness(calls, after)
  BY DEF Mutate
<1>4. /\ calls = [d \in Callers |-> calls[d]] /\ IsCall(calls[c]) /\ calls[c].pc = "draining"
      /\ calls[c].answer = pcall[c].answer
      /\ \A d \in Callers : d # c => calls[d] = pcall[d]
  BY <1>1 DEF IsCall
<1> HIDE DEF calls, after
<1>5. /\ pcall' = [d \in Callers |-> pcall'[d]] /\ pcall'[c] = calls[c]
      /\ \A d \in Callers : d # c /\ ~Seeing(d) => pcall'[d] = pcall[d]
      /\ \A d \in Callers : Seeing(d) => pcall'[d] = [pcall[d] EXCEPT !.during = @ \cup {after}]
  BY <1>3, <1>4 DEF Witness, Listing
<1>6. \A d \in Callers : d # c =>
        /\ IsCall(pcall'[d]) /\ pcall'[d].pc = pcall[d].pc /\ pcall'[d].version = pcall[d].version
        /\ pcall'[d].event = pcall[d].event /\ pcall'[d].policies = pcall[d].policies
        /\ pcall'[d].answer = pcall[d].answer /\ pcall'[d].listed = pcall[d].listed
        /\ pcall'[d].request = pcall[d].request /\ pcall[d].during \subseteq pcall'[d].during
        /\ pcall[d].pc \in Listing => after \in pcall'[d].during
  <2> SUFFICES ASSUME NEW d \in Callers, d # c
               PROVE  /\ IsCall(pcall'[d]) /\ pcall'[d].pc = pcall[d].pc
                      /\ pcall'[d].version = pcall[d].version
                      /\ pcall'[d].event = pcall[d].event /\ pcall'[d].policies = pcall[d].policies
                      /\ pcall'[d].answer = pcall[d].answer /\ pcall'[d].listed = pcall[d].listed
                      /\ pcall'[d].request = pcall[d].request
                      /\ pcall[d].during \subseteq pcall'[d].during
                      /\ pcall[d].pc \in Listing => after \in pcall'[d].during
    OBVIOUS
  <2>1. CASE Seeing(d)
    <3>1. pcall'[d] = [pcall[d] EXCEPT !.during = pcall[d].during \cup {after}]
      BY <1>5, <2>1
    <3>2. IsCall(pcall[d])
      BY <1>1
    <3> QED
      BY <3>1, <3>2 DEF IsCall
  <2>2. CASE ~Seeing(d)
    BY <1>1, <1>5, <2>2
  <2> QED
    BY <2>1, <2>2
<1>7. pcall'[c].pc = "draining" /\ pcall'[c].answer # "list" /\ IsCall(pcall'[c])
  BY <1>1, <1>4, <1>5
<1> HIDE DEF Seeing
<1>8. PICK H : \E rank : Chain(H, rank, version) /\ Known(H)
  BY DEF PolicyInv, History
<1>9. PICK rank : Chain(H, rank, version) /\ Known(H)
  BY <1>8
<1>10. version' \notin H
  BY <1>2, <1>9, VersionIsNew
<1>11. PolicyShape'
  <2>1. rows' = [j \in Ids |-> rows'[j]] /\ \A j \in Ids : Cardinality(rows'[j]) <= 1
    BY <1>2 DEF PolicyInv, PolicyShape, after
  <2>2. \A d \in Callers : pcall'[d].pc \in PolicyPcs /\ IsCall(pcall'[d])
    BY <1>6, <1>7 DEF PolicyInv, PolicyShape, PolicyPcs
  <2>3. pcall' = [d \in Callers |-> pcall'[d]] /\ pfaults' \in 0 .. MaxPolicyFaults
    BY <1>2, <1>5 DEF PolicyInv, PolicyShape
  <2> QED
    BY <2>1, <2>2, <2>3 DEF PolicyShape
<1>12. History'
  <2> SUFFICES ASSUME NEW K, K = H \cup {version'} PROVE History'
    OBVIOUS
  <2>1. \E q : Chain(K, q, version')
    BY <1>2, <1>9, ChainGrows
  <2>2. Known(K)'
    BY <1>2, <1>6, <1>7, <1>9 DEF Known, Listing
  <2> QED
    BY <2>1, <2>2 DEF History
<1>13. Current'
  <2>1. cache' # None => cache'.version # version'
    BY <1>2, <1>9, <1>10 DEF Known
  <2>2. ASSUME NEW d \in Callers, pcall'[d].pc = "read" PROVE pcall'[d].version # version'
    <3>1. d # c /\ pcall[d].pc = "read" /\ pcall'[d].version = pcall[d].version
      BY <1>6, <1>7, <2>2
    <3> QED
      BY <1>9, <1>10, <3>1 DEF Known, Listing
  <2> QED
    BY <2>1, <2>2 DEF Current, CacheFresh
<1>14. Seen'
  BY <1>2, <1>6, <1>7 DEF PolicyInv, Seen, Listing
<1>15. Moments'
  BY <1>2, <1>6, <1>7 DEF PolicyInv, Moments
<1>16. ListedWithinCall'
  BY <1>6, <1>7 DEF PolicyInv, ListedWithinCall
<1> QED
  BY <1>6, <1>7, <1>11, <1>12, <1>13, <1>14, <1>15, <1>16 DEF PolicyInv

LEMMA PolicyCallKeeps ==
  ASSUME PolicyInv, NEW c \in Callers, NEW r, PolicyCall(c, r)
  PROVE  PolicyInv'
<1>1. pcall = [d \in Callers |-> pcall[d]] /\ IsCall(pcall[c]) /\ pfaults \in 0 .. MaxPolicyFaults
  BY CallFacts
<1>2. Cardinality({r.value}) = 1 /\ Cardinality({}) = 0
  BY FS_Singleton, FS_EmptySet
<1>3. CASE Upsert(c, r)
  BY <1>2, <1>3, MutateKeeps DEF Upsert, In
<1>4. CASE Remove(c, r) /\ rows[r.id] # {}
  BY <1>2, <1>4, MutateKeeps DEF Remove, In
<1>5. CASE Remove(c, r) /\ rows[r.id] = {}
  <2>1. Moves(c) /\ pcall'[c].pc = "done" /\ pcall'[c].answer = "not_found"
    BY <1>5, AnswerMoves DEF Remove
  <2>2. Stores /\ cache' = cache
    BY <1>1, <1>5 DEF Remove, Stores
  <2> QED
    BY <2>1, <2>2, EndsListing DEF Listing
<1>6. CASE RunOutbox(c, r)
  <2>1. Moves(c) /\ pcall'[c].pc = "draining" /\ pcall'[c].answer = pcall[c].answer
    BY <1>1, <1>6 DEF RunOutbox, Moves, IsCall, PolicyPcs
  <2>2. Stores /\ cache' = cache /\ pcall[c].answer # "list"
    BY <1>1, <1>6, CallFacts DEF RunOutbox, Stores, In
  <2> QED
    BY <2>1, <2>2, EndsListing DEF Listing
<1>7. CASE ReadVersion(c, r)
  BY <1>7, ReadVersionKeeps
<1> QED
  BY <1>3, <1>4, <1>5, <1>6, <1>7 DEF PolicyCall

LEMMA PolicyStepKeeps ==
  ASSUME PolicyInv, NEW c \in Callers, PolicyStep(c)
  PROVE  PolicyInv'
<1>1. MaxPolicyFaults \in Nat
  BY ToolsAssumption
<1> QED
  BY <1>1, DrainKeeps, ReadCacheKeeps, ReadRowsKeeps, PutCacheKeeps DEF PolicyStep

\* The policy part of the invariant holds at the start.
LEMMA PolicyInitial ==
  ASSUME PolicyInit
  PROVE  PolicyInv
<1>1. /\ rows = [i \in Ids |-> IF i = First.id THEN {First.value} ELSE {}]
      /\ version = NextVersion(<<>>, First.id, {First.value}) /\ cache = None
      /\ pcall = [c \in Callers |-> NewCall] /\ pfaults = 0
  BY DEF PolicyInit
<1>2. Cardinality({First.value}) = 1 /\ Cardinality({}) = 0
  BY FS_Singleton, FS_EmptySet
<1>3. \A c \in Callers : pcall[c] = NewCall /\ pcall[c].pc = "new" /\ pcall[c].answer = "none"
  BY <1>1 DEF NewCall
<1>4. IsCall(NewCall)
  BY DEF IsCall, NewCall
<1>5. PolicyShape
  BY <1>1, <1>2, <1>3, <1>4, ToolsAssumption DEF PolicyShape, PolicyPcs
<1>6. Chain({version}, [v \in {version} |-> 0], version)
  <2>1. version # <<>> /\ \A i, change : version # NextVersion(version, i, change)
    BY <1>1 DEF NextVersion
  <2> DEFINE H == {version}
             rank == [v \in H |-> 0]
  <2>2. rank \in [H -> Nat] /\ version \in H /\ <<>> \notin H /\ \A v \in H : rank[v] = 0 /\ v = version
    BY <2>1
  <2>3. \A u, v \in H : \A i, change : v = NextVersion(u, i, change) => rank[v] = rank[u] + 1
    BY <2>1
  <2>4. \A v \in H : \E u \in H \cup {<<>>} : \E i, change : v = NextVersion(u, i, change)
    BY <1>1
  <2> HIDE DEF H, rank
  <2>5. Chain(H, rank, version)
    BY <2>2, <2>3, <2>4 DEF Chain
  <2> QED
    BY <2>5 DEF H, rank
<1>7. Known({version})
  BY <1>1, <1>3 DEF Known, Listing
<1>8. Current /\ Seen /\ Moments /\ ListedWithinCall
  BY <1>1, <1>3 DEF Current, CacheFresh, Seen, Moments, ListedWithinCall, Listing
<1> QED
  BY <1>5, <1>6, <1>7, <1>8 DEF PolicyInv, History

\* A claimed event is on the outbox, is not delayed and has one claimant.
Claiming == {"claimed", "invalidated"}
Outbox ==
  /\ delayed \subseteq events
  /\ \A c \in Callers : pcall[c].pc \in Claiming => pcall[c].event \in events \ delayed
  /\ \A c, d \in Callers : pcall[c].pc \in Claiming /\ pcall[d].pc \in Claiming /\ c # d
                             => pcall[c].event # pcall[d].event

\* Steps that claim nothing and finish nothing.
LEMMA OutboxSame ==
  ASSUME Outbox, events \subseteq events', delayed' \subseteq delayed,
         \A d \in Callers : pcall'[d].pc \in Claiming =>
           pcall[d].pc \in Claiming /\ pcall'[d].event = pcall[d].event
  PROVE  Outbox'
  BY DEF Outbox

\* A refused, beginning or failing call leaves every change with its invalidation.
LEMMA OutboxCall ==
  ASSUME PolicyInv, Outbox, NEW c \in Callers, NEW r,
         DispatchRefused(c, r) \/ PolicyCall(c, r) \/ PolicyFails(c)
  PROVE  Outbox'
<1>1. pcall = [d \in Callers |-> pcall[d]] /\ IsCall(pcall[c])
  BY CallFacts
<1>2. Cardinality({r.value}) = 1 /\ Cardinality({}) = 0
  BY FS_Singleton, FS_EmptySet
<1>3. ASSUME NEW change, Cardinality(change) <= 1, pcall[c].pc = "new", Mutate(c, r, change)
      PROVE  Outbox'
  <2>1. \A d \in Callers : pcall'[d].pc \in Claiming =>
           pcall[d].pc \in Claiming /\ pcall'[d].event = pcall[d].event
    BY <1>3, MutateKeeps DEF Claiming
  <2>2. events \subseteq events' /\ delayed' = delayed
    BY <1>3 DEF Mutate
  <2> QED
    BY <2>1, <2>2, OutboxSame
<1>4. ASSUME NEW a, Answer(c, a), UNCHANGED <<events, delayed>>
      PROVE  Outbox'
  <2>1. Moves(c) /\ pcall'[c].pc = "done"
    BY <1>4, AnswerMoves
  <2> QED
    BY <1>4, <2>1, OutboxSame DEF Moves, Claiming
<1>5. CASE DispatchRefused(c, r) \/ PolicyFails(c) \/ (Remove(c, r) /\ rows[r.id] = {})
  BY <1>4, <1>5 DEF DispatchRefused, PolicyFails, Remove
<1>6. CASE Upsert(c, r) \/ (Remove(c, r) /\ rows[r.id] # {})
  <2>1. pcall[c].pc = "new" /\ (Mutate(c, r, {r.value}) \/ Mutate(c, r, {}))
    BY <1>6 DEF Upsert, Remove, In
  <2> QED
    BY <1>2, <1>3, <2>1
<1>7. CASE RunOutbox(c, r) \/ ReadVersion(c, r)
  <2>1. /\ pcall'[c].pc \in {"draining", "cached"} /\ UNCHANGED <<events, delayed>>
        /\ \A d \in Callers : d # c => pcall'[d] = pcall[d]
    BY <1>1, <1>7 DEF RunOutbox, ReadVersion, IsCall
  <2> QED
    BY <2>1, OutboxSame DEF Claiming
<1> QED
  BY <1>5, <1>6, <1>7 DEF PolicyCall

\* A step of a policy call posts the invalidation of every change it commits.
LEMMA OutboxStep ==
  ASSUME PolicyInv, Outbox, NEW c \in Callers, PolicyStep(c)
  PROVE  Outbox'
<1>1. pcall = [d \in Callers |-> pcall[d]] /\ IsCall(pcall[c])
  BY CallFacts
<1>2. CASE DrainClaim(c)
  <2>1. PICK e \in Claimable : pcall' = [pcall EXCEPT ![c].pc = "claimed", ![c].event = e]
    BY <1>2 DEF DrainClaim
  <2>2. /\ pcall'[c].event = e /\ UNCHANGED <<events, delayed>>
        /\ \A d \in Callers : d # c => pcall'[d] = pcall[d]
    BY <1>1, <1>2, <2>1 DEF DrainClaim, IsCall
  <2>3. e \in events \ delayed /\ \A d \in Callers : pcall[d].pc \in Claiming => pcall[d].event # e
    BY DEF Claimable, Claiming
  <2> QED
    BY <2>2, <2>3 DEF Outbox
<1>3. CASE DrainFinish(c)
  <2>1. /\ pcall[c].pc \in Claiming /\ pcall'[c].pc = "draining"
        /\ \A d \in Callers : d # c => pcall'[d] = pcall[d]
    BY <1>1, <1>3 DEF DrainFinish, IsCall, In, Claiming
  <2>2. \/ events' = events \ {pcall[c].event} /\ delayed' = delayed
        \/ events' = events /\ delayed' = delayed \cup {pcall[c].event}
    BY <1>3 DEF DrainFinish
  <2> QED
    BY <2>1, <2>2 DEF Outbox, Claiming
<1>4. CASE DrainInvalidate(c)
  <2>1. /\ pcall[c].pc \in Claiming /\ pcall'[c].event = pcall[c].event
        /\ \A d \in Callers : d # c => pcall'[d] = pcall[d]
        /\ UNCHANGED <<events, delayed>>
    BY <1>1, <1>4 DEF DrainInvalidate, IsCall, In, Claiming
  <2> QED
    BY <2>1, OutboxSame
<1>5. CASE DrainEnd(c) \/ ReadCache(c) \/ ReadRows(c) \/ PutCache(c)
  <2>1. /\ pcall'[c].pc \in {"done", "missed", "read"} /\ UNCHANGED <<events, delayed>>
        /\ \A d \in Callers : d # c => pcall'[d] = pcall[d]
    BY <1>1, <1>5 DEF DrainEnd, ReadCache, ReadRows, PutCache, Answer, AnswerList, IsCall
  <2> QED
    BY <2>1, OutboxSame DEF Claiming
<1> QED
  BY <1>2, <1>3, <1>4, <1>5 DEF PolicyStep

-----------------------------------------------------------------------------
(* Batches.                                                                *)

BatchPcs == {"new", "load", "renew", "run", "save", "release", "done"}

IsBatch(x) ==
  x = [pc |-> x.pc, request |-> x.request, at |-> x.at, failed |-> x.failed, answer |-> x.answer]

IsRequest(r) ==
  r.tool \in BatchTools /\ r.key \in IdempotencyKeys \cup {NoKey} /\ Len(r.items) \in Nat

\* The first n items of r have succeeded.
Did(r, n) == \A i \in 1 .. n : <<r.tool, r.items[i]>> \in did

\* A call as it stands: what it counts, and what is true of the items before its place.
CallOK(b) ==
  LET x == batch[b] IN
  /\ IsBatch(x) /\ x.pc \in BatchPcs /\ x.at \in Nat \ {0} /\ x.failed \in Nat
  /\ Running(b) => IsRequest(x.request)
  /\ x.pc \in {"load", "save", "release"} => Keyed(x.request)
  /\ x.pc \in {"new", "load"} => x.at = 1 /\ x.failed = 0
  /\ x.pc \notin {"release", "done"} => x.answer = "none"
  /\ x.pc \in {"renew", "run"} /\ x.failed = 0 => Did(x.request, x.at - 1)
  /\ x.pc = "save" /\ x.failed = 0 => Did(x.request, Len(x.request.items))
  /\ x.pc \in {"release", "done"} /\ x.answer = "response" /\ x.failed = 0
       => Did(x.request, Len(x.request.items))

\* What is kept for a key.
KeptOK(k) ==
  /\ saved[k].failed \in Nat
  /\ saved[k] # Unsaved /\ saved[k].failed = 0 => Did(saved[k].request, Len(saved[k].request.items))

LeaseOK(k) == lease[k] \in [owner: Batches \cup {Unset}, live: BOOLEAN]

\* A running call has the lease of its key.
HeldBy(b) ==
  Running(b) /\ Keyed(batch[b].request) => lease[KeyOf(b)] = [owner |-> b, live |-> TRUE]

\* What is kept for the key of a call that is past the lookup does not answer it.
Unanswered(b) ==
  batch[b].pc \in {"renew", "run", "save"} /\ Keyed(batch[b].request) =>
    saved[KeyOf(b)] = Unsaved \/ (SameRequest(b) /\ ~Kept(b))

BatchInv ==
  /\ batch = [b \in Batches |-> batch[b]] /\ \A b \in Batches : CallOK(b)
  /\ lease = [k \in StateKeys |-> lease[k]] /\ \A k \in StateKeys : LeaseOK(k)
  /\ saved = [k \in StateKeys |-> saved[k]] /\ \A k \in StateKeys : KeptOK(k)
  /\ bfaults \in 0 .. MaxBatchFaults /\ overruns \in 0 .. MaxOverruns
  /\ overruns = 0 => \A b \in Batches : HeldBy(b) /\ Unanswered(b)

\* CompletedNotRerun and KeyBoundToRequest, of one step.
RunsOnce ==
  \A b \in Batches :
    /\ overruns = 0 /\ batch'[b].at > batch[b].at
    /\ Keyed(batch[b].request) /\ batch[b].request.tool # "retrieve"
    => saved[KeyOf(b)] = Unsaved \/ saved[KeyOf(b)].failed > 0
KeyStays ==
  \A k \in StateKeys :
    overruns = 0 /\ saved[k] # Unsaved => saved'[k].request = saved[k].request

\* The state key of a keyed request is one of the keys.
LEMMA KeyTyped ==
  ASSUME NEW r, IsRequest(r), Keyed(r)
  PROVE  StateKey(r) \in StateKeys
  BY DEF IsRequest, Keyed, StateKey, StateKeys

\* A call that does not step stays as it is, whatever else succeeds.
LEMMA CallStays ==
  ASSUME NEW b \in Batches, CallOK(b), batch'[b] = batch[b], did \subseteq did'
  PROVE  CallOK(b)'
<1>1. \A r, n : Did(r, n) => Did(r, n)'
  BY DEF Did
<1> QED
  BY <1>1 DEF CallOK, Running

\* A kept response stays backed by what was executed.
LEMMA KeptStays ==
  ASSUME NEW k \in StateKeys, KeptOK(k), saved'[k] = saved[k], did \subseteq did'
  PROVE  KeptOK(k)'
<1>1. \A r, n : Did(r, n) => Did(r, n)'
  BY DEF Did
<1> QED
  BY <1>1 DEF KeptOK

\* A step of call b: it may take or free leases that no other running call holds, and
\* keep a response under its own key.
LEMMA BatchMoves ==
  ASSUME BatchInv, NEW b \in Batches,
         batch' = [d \in Batches |-> batch'[d]],
         \A d \in Batches : d # b => batch'[d] = batch[d],
         CallOK(b)', did \subseteq did',
         batch'[b].at = batch[b].at \/ batch[b].pc = "run",
         lease' = [k \in StateKeys |-> lease'[k]],
         \A k \in StateKeys : LeaseOK(k)',
         \A k \in StateKeys : lease'[k] = lease[k] \/ lease[k].owner = b \/ ~lease[k].live,
         saved' = [k \in StateKeys |-> saved'[k]],
         \A k \in StateKeys :
           \/ saved'[k] = saved[k]
           \/ /\ batch[b].pc = "save" /\ k = KeyOf(b) /\ KeptOK(k)'
              /\ saved'[k].request = [tool |-> batch[b].request.tool, items |-> batch[b].request.items],
         bfaults' \in 0 .. MaxBatchFaults, overruns' = overruns,
         overruns = 0 => HeldBy(b)' /\ Unanswered(b)'
  PROVE  BatchInv' /\ RunsOnce /\ KeyStays
<1>1. \A d \in Batches : CallOK(d)'
  BY CallStays DEF BatchInv
<1>2. \A k \in StateKeys : KeptOK(k)'
  BY KeptStays DEF BatchInv
<1>3. ASSUME overruns = 0, NEW d \in Batches PROVE HeldBy(d)' /\ Unanswered(d)'
  <2>1. CASE d = b
    BY <1>3, <2>1
  <2>2. CASE d # b
    <3>1. batch'[d] = batch[d] /\ HeldBy(d) /\ Unanswered(d) /\ CallOK(d) /\ HeldBy(b) /\ CallOK(b)
      BY <1>3, <2>2 DEF BatchInv
    <3>2. ASSUME Running(d), Keyed(batch[d].request)
          PROVE  /\ lease[KeyOf(d)] = [owner |-> d, live |-> TRUE] /\ KeyOf(d) \in StateKeys
                 /\ lease'[KeyOf(d)] = lease[KeyOf(d)] /\ saved'[KeyOf(d)] = saved[KeyOf(d)]
      <4>1. lease[KeyOf(d)] = [owner |-> d, live |-> TRUE]
        BY <3>1, <3>2 DEF HeldBy
      <4>2. KeyOf(d) \in StateKeys
        BY <3>1, <3>2, KeyTyped DEF CallOK, KeyOf
      <4>3. lease'[KeyOf(d)] = lease[KeyOf(d)]
        BY <2>2, <4>1, <4>2
      <4>4. ASSUME batch[b].pc = "save" PROVE lease[KeyOf(b)] = [owner |-> b, live |-> TRUE]
        BY <3>1, <4>4 DEF HeldBy, CallOK, Running
      <4>5. saved'[KeyOf(d)] = saved[KeyOf(d)]
        BY <2>2, <4>1, <4>2, <4>4
      <4> QED
        BY <4>1, <4>2, <4>3, <4>5
    <3>3. HeldBy(d)'
      BY <3>1, <3>2 DEF HeldBy, Running, KeyOf
    <3>4. Unanswered(d)'
      BY <3>1, <3>2 DEF Unanswered, Running, KeyOf, SameRequest, Kept
    <3> QED
      BY <3>3, <3>4
  <2> QED
    BY <2>1, <2>2
<1>4. BatchInv'
  BY <1>1, <1>2, <1>3 DEF BatchInv
<1>5. RunsOnce
  <2> SUFFICES ASSUME NEW d \in Batches, overruns = 0, batch'[d].at > batch[d].at,
                      Keyed(batch[d].request), batch[d].request.tool # "retrieve"
               PROVE  saved[KeyOf(d)] = Unsaved \/ saved[KeyOf(d)].failed > 0
    BY DEF RunsOnce
  <2>1. CallOK(d) /\ CallOK(b) /\ Unanswered(d) /\ batch[d].at \in Nat
    BY DEF BatchInv, CallOK
  <2>2. batch[d].pc = "run"
    BY <2>1
  <2>3. saved[KeyOf(d)] = Unsaved \/ ~Kept(d)
    BY <2>1, <2>2 DEF Unanswered
  <2>4. KeyOf(d) \in StateKeys
    BY <2>1, <2>2, KeyTyped DEF CallOK, KeyOf, Running
  <2>5. saved[KeyOf(d)].failed \in Nat
    BY <2>4 DEF BatchInv, KeptOK
  <2> QED
    BY <2>3, <2>5 DEF Kept
<1>6. KeyStays
  <2> SUFFICES ASSUME NEW k \in StateKeys, overruns = 0, saved[k] # Unsaved
               PROVE  saved'[k].request = saved[k].request
    BY DEF KeyStays
  <2>1. CASE saved'[k] = saved[k]
    BY <2>1
  <2>2. CASE batch[b].pc = "save" /\ k = KeyOf(b)
              /\ saved'[k].request = [tool |-> batch[b].request.tool, items |-> batch[b].request.items]
    <3>1. Unanswered(b) /\ Keyed(batch[b].request)
      BY <2>2 DEF BatchInv, CallOK
    <3> QED
      BY <2>2, <3>1 DEF Unanswered, SameRequest
  <2> QED
    BY <2>1, <2>2
<1> QED
  BY <1>4, <1>5, <1>6

\* What the invariant says of one batch call.
LEMMA BatchFacts ==
  ASSUME BatchInv, NEW b \in Batches
  PROVE  /\ batch = [d \in Batches |-> batch[d]] /\ IsBatch(batch[b]) /\ CallOK(b)
         /\ lease = [k \in StateKeys |-> lease[k]] /\ \A k \in StateKeys : LeaseOK(k)
         /\ saved = [k \in StateKeys |-> saved[k]] /\ bfaults \in 0 .. MaxBatchFaults
  BY DEF BatchInv, CallOK

\* A call ends: what it says of success must be the case.
LEMMA EndOK ==
  ASSUME BatchInv, NEW b \in Batches, NEW a, BatchEnds(b, a), did' = did,
         a = "response" => batch[b].answer = a /\ batch[b].pc = "release"
  PROVE  /\ batch' = [d \in Batches |-> batch'[d]]
         /\ \A d \in Batches : d # b => batch'[d] = batch[d]
         /\ CallOK(b)' /\ batch'[b].at = batch[b].at
         /\ HeldBy(b)' /\ Unanswered(b)'
<1>1. batch = [d \in Batches |-> batch[d]] /\ IsBatch(batch[b]) /\ CallOK(b)
  BY BatchFacts
<1>2. /\ batch' = [d \in Batches |-> batch'[d]]
      /\ \A d \in Batches : d # b => batch'[d] = batch[d]
      /\ batch'[b] = [batch[b] EXCEPT !.pc = "done", !.answer = a]
  BY <1>1 DEF BatchEnds
<1>3. /\ IsBatch(batch'[b]) /\ batch'[b].pc = "done" /\ batch'[b].answer = a
      /\ batch'[b].at = batch[b].at /\ batch'[b].failed = batch[b].failed
      /\ batch'[b].request = batch[b].request
  BY <1>1, <1>2 DEF IsBatch
<1>4. CallOK(b)'
  BY <1>1, <1>3 DEF CallOK, BatchPcs, Running, Did
<1>5. HeldBy(b)' /\ Unanswered(b)'
  BY <1>3 DEF HeldBy, Unanswered, Running
<1> QED
  BY <1>2, <1>3, <1>4, <1>5

\* claim, of a lease that is free, has lapsed or is the call's own.
LEMMA ClaimOK ==
  ASSUME BatchInv, NEW b \in Batches, NEW k \in StateKeys, MayClaim(b, k), lease' = Claimed(b, k)
  PROVE  /\ lease' = [j \in StateKeys |-> lease'[j]] /\ \A j \in StateKeys : LeaseOK(j)'
         /\ \A j \in StateKeys : lease'[j] = lease[j] \/ lease[j].owner = b \/ ~lease[j].live
         /\ lease'[k] = [owner |-> b, live |-> TRUE]
<1>1. lease = [j \in StateKeys |-> lease[j]] /\ \A j \in StateKeys : LeaseOK(j)
  BY BatchFacts
<1>2. /\ lease' = [j \in StateKeys |-> lease'[j]] /\ lease'[k] = [owner |-> b, live |-> TRUE]
      /\ \A j \in StateKeys : j # k => lease'[j] = lease[j]
  BY <1>1 DEF Claimed
<1>3. \A j \in StateKeys : LeaseOK(j)'
  <2>1. [owner |-> b, live |-> TRUE] \in [owner: Batches \cup {Unset}, live: BOOLEAN]
    OBVIOUS
  <2> QED
    BY <1>1, <1>2, <2>1 DEF LeaseOK
<1>4. \A j \in StateKeys : lease'[j] = lease[j] \/ lease[j].owner = b \/ ~lease[j].live
  BY <1>2 DEF MayClaim
<1> QED
  BY <1>2, <1>3, <1>4

LEMMA BeginKeeps ==
  ASSUME BatchInv, NEW b \in Batches, NEW r, IsRequest(r), BeginBatch(b, r)
  PROVE  BatchInv' /\ RunsOnce /\ KeyStays
<1>1. batch = [d \in Batches |-> batch[d]] /\ IsBatch(batch[b]) /\ CallOK(b)
  BY BatchFacts
<1>2. batch[b].pc = "new" /\ UNCHANGED <<saved, bfaults, overruns, did>>
  BY DEF BeginBatch, At
<1>3. ASSUME NEW a, a # "response", BatchEnds(b, a), lease' = lease
      PROVE  BatchInv' /\ RunsOnce /\ KeyStays
  <2>1. /\ batch' = [d \in Batches |-> batch'[d]]
        /\ \A d \in Batches : d # b => batch'[d] = batch[d]
        /\ CallOK(b)' /\ batch'[b].at = batch[b].at /\ HeldBy(b)' /\ Unanswered(b)'
    BY <1>2, <1>3, EndOK
  <2> QED
    BY <1>2, <1>3, <2>1, BatchFacts, BatchMoves DEF LeaseOK
<1>4. ASSUME NEW pc, pc = IF Keyed(r) THEN "load" ELSE "renew",
             batch' = [batch EXCEPT ![b].pc = pc, ![b].request = r]
      PROVE  /\ batch' = [d \in Batches |-> batch'[d]]
             /\ \A d \in Batches : d # b => batch'[d] = batch[d]
             /\ CallOK(b)' /\ batch'[b].at = batch[b].at /\ Unanswered(b)'
             /\ batch'[b].request = r
  <2>1. /\ batch' = [d \in Batches |-> batch'[d]]
        /\ \A d \in Batches : d # b => batch'[d] = batch[d]
        /\ batch'[b] = [batch[b] EXCEPT !.pc = pc, !.request = r]
    BY <1>1, <1>4
  <2>2. /\ IsBatch(batch'[b]) /\ batch'[b].pc = pc /\ batch'[b].answer = batch[b].answer
        /\ batch'[b].at = batch[b].at /\ batch'[b].failed = batch[b].failed
        /\ batch'[b].request = r
    BY <1>1, <2>1 DEF IsBatch
  <2>3. /\ batch'[b].at = 1 /\ batch'[b].failed = 0 /\ batch'[b].answer = "none"
        /\ batch'[b].pc \in {"load", "renew"} /\ (batch'[b].pc = "load" => Keyed(r))
        /\ (batch'[b].pc = "renew" => ~Keyed(r))
    BY <1>1, <1>2, <1>4, <2>2 DEF CallOK
  <2>4. CallOK(b)'
    BY <2>2, <2>3 DEF CallOK, BatchPcs, Running, Did
  <2>5. Unanswered(b)'
    BY <2>2, <2>3 DEF Unanswered
  <2> QED
    BY <2>1, <2>2, <2>4, <2>5
<1>5. CASE ~Keyed(r) /\ batch' = [batch EXCEPT ![b].pc = "renew", ![b].request = r] /\ UNCHANGED lease
  <2>1. HeldBy(b)'
    BY <1>4, <1>5 DEF HeldBy
  <2> QED
    BY <1>2, <1>4, <1>5, <2>1, BatchFacts, BatchMoves DEF LeaseOK
<1>6. CASE /\ Keyed(r) /\ MayClaim(b, StateKey(r))
           /\ batch' = [batch EXCEPT ![b].pc = "load", ![b].request = r]
           /\ lease' = Claimed(b, StateKey(r))
  <2>1. StateKey(r) \in StateKeys
    BY <1>6, KeyTyped
  <2>2. /\ lease' = [j \in StateKeys |-> lease'[j]] /\ \A j \in StateKeys : LeaseOK(j)'
        /\ \A j \in StateKeys : lease'[j] = lease[j] \/ lease[j].owner = b \/ ~lease[j].live
        /\ lease'[StateKey(r)] = [owner |-> b, live |-> TRUE]
    BY <1>6, <2>1, ClaimOK
  <2>3. HeldBy(b)'
    BY <1>4, <1>6, <2>2 DEF HeldBy, KeyOf
  <2> QED
    BY <1>2, <1>4, <1>6, <2>2, <2>3, BatchFacts, BatchMoves
<1>7. \/ \E a \in {"invalid", "empty", "leased"} : BatchEnds(b, a) /\ lease' = lease
      \/ ~Keyed(r) /\ batch' = [batch EXCEPT ![b].pc = "renew", ![b].request = r] /\ UNCHANGED lease
      \/ /\ Keyed(r) /\ MayClaim(b, StateKey(r))
         /\ batch' = [batch EXCEPT ![b].pc = "load", ![b].request = r]
         /\ lease' = Claimed(b, StateKey(r))
  BY DEF BeginBatch
<1> QED
  BY <1>3, <1>5, <1>6, <1>7

\* The lookup: what is kept for the key is the answer, a refusal, or nothing to go by.
LEMMA LoadKeeps ==
  ASSUME BatchInv, NEW b \in Batches, LoadKey(b)
  PROVE  BatchInv' /\ RunsOnce /\ KeyStays
<1>1. batch = [d \in Batches |-> batch[d]] /\ IsBatch(batch[b]) /\ CallOK(b)
  BY BatchFacts
<1>2. batch[b].pc = "load" /\ UNCHANGED <<lease, saved, bfaults, overruns, did>>
  BY DEF LoadKey, At
<1>3. /\ batch[b].at = 1 /\ batch[b].failed = 0 /\ batch[b].answer = "none"
      /\ IsRequest(batch[b].request) /\ Keyed(batch[b].request) /\ Running(b)
  BY <1>1, <1>2 DEF CallOK, Running
<1>4. KeyOf(b) \in StateKeys
  BY <1>3, KeyTyped DEF KeyOf
<1>5. \E pc \in {"release", "renew"}, a \in {"none", "reused", "response"} :
        /\ batch' = [batch EXCEPT ![b].pc = pc, ![b].answer = a]
        /\ pc = "renew" => a = "none" /\ (saved[KeyOf(b)] = Unsaved \/ (SameRequest(b) /\ ~Kept(b)))
        /\ a = "response" => saved[KeyOf(b)] # Unsaved /\ SameRequest(b) /\ Kept(b)
  <2>1. CASE batch' = [batch EXCEPT ![b].pc = "release", ![b].answer = "reused"]
    BY <2>1
  <2>2. CASE /\ saved[KeyOf(b)] # Unsaved /\ SameRequest(b) /\ Kept(b)
             /\ batch' = [batch EXCEPT ![b].pc = "release", ![b].answer = "response"]
    BY <2>2
  <2>3. CASE /\ saved[KeyOf(b)] = Unsaved \/ (SameRequest(b) /\ ~Kept(b))
             /\ batch' = [batch EXCEPT ![b].pc = "renew"]
    <3>1. batch' = [batch EXCEPT ![b].pc = "renew", ![b].answer = "none"]
      BY <1>1, <1>3, <2>3 DEF IsBatch
    <3> QED
      BY <2>3, <3>1
  <2> QED
    BY <2>1, <2>2, <2>3 DEF LoadKey
<1>6. PICK pc \in {"release", "renew"} : \E a \in {"none", "reused", "response"} :
        /\ batch' = [batch EXCEPT ![b].pc = pc, ![b].answer = a]
        /\ pc = "renew" => a = "none" /\ (saved[KeyOf(b)] = Unsaved \/ (SameRequest(b) /\ ~Kept(b)))
        /\ a = "response" => saved[KeyOf(b)] # Unsaved /\ SameRequest(b) /\ Kept(b)
  BY <1>5
<1>7. PICK a \in {"none", "reused", "response"} :
        /\ batch' = [batch EXCEPT ![b].pc = pc, ![b].answer = a]
        /\ pc = "renew" => a = "none" /\ (saved[KeyOf(b)] = Unsaved \/ (SameRequest(b) /\ ~Kept(b)))
        /\ a = "response" => saved[KeyOf(b)] # Unsaved /\ SameRequest(b) /\ Kept(b)
  BY <1>6
<1>8. /\ batch' = [d \in Batches |-> batch'[d]]
      /\ \A d \in Batches : d # b => batch'[d] = batch[d]
      /\ batch'[b] = [batch[b] EXCEPT !.pc = pc, !.answer = a]
  BY <1>1, <1>7
<1>9. /\ IsBatch(batch'[b]) /\ batch'[b].pc = pc /\ batch'[b].answer = a
      /\ batch'[b].at = batch[b].at /\ batch'[b].failed = batch[b].failed
      /\ batch'[b].request = batch[b].request
  BY <1>1, <1>8 DEF IsBatch
<1>10. a = "response" => Did(batch[b].request, Len(batch[b].request.items))
  <2> SUFFICES ASSUME a = "response" PROVE Did(batch[b].request, Len(batch[b].request.items))
    OBVIOUS
  <2>1. saved[KeyOf(b)] # Unsaved /\ saved[KeyOf(b)].failed = 0 /\ SameRequest(b)
    BY <1>7 DEF Kept
  <2>2. Did(saved[KeyOf(b)].request, Len(saved[KeyOf(b)].request.items))
    BY <1>4, <2>1 DEF BatchInv, KeptOK
  <2>3. /\ saved[KeyOf(b)].request.tool = batch[b].request.tool
        /\ saved[KeyOf(b)].request.items = batch[b].request.items
    BY <2>1 DEF SameRequest
  <2> QED
    BY <2>2, <2>3 DEF Did
<1>11. CallOK(b)'
  <2>1. a = "response" => Did(batch[b].request, Len(batch[b].request.items))'
    BY <1>2, <1>9, <1>10 DEF Did
  <2>2. Did(batch[b].request, batch[b].at - 1)'
    BY <1>3, <1>9 DEF Did
  <2>3. /\ batch'[b].pc \in {"release", "renew"} /\ batch'[b].at = 1 /\ batch'[b].failed = 0
        /\ IsRequest(batch'[b].request) /\ Keyed(batch'[b].request)
        /\ batch'[b].pc # "release" => batch'[b].answer = "none"
    BY <1>3, <1>7, <1>9
  <2> QED
    BY <1>9, <2>1, <2>2, <2>3 DEF CallOK, BatchPcs, Running
<1>12. overruns = 0 => HeldBy(b)' /\ Unanswered(b)'
  <2> SUFFICES ASSUME overruns = 0 PROVE HeldBy(b)' /\ Unanswered(b)'
    OBVIOUS
  <2>1. lease[KeyOf(b)] = [owner |-> b, live |-> TRUE]
    BY <1>3 DEF BatchInv, HeldBy
  <2>2. KeyOf(b)' = KeyOf(b) /\ SameRequest(b)' = SameRequest(b) /\ Kept(b)' = Kept(b)
    BY <1>2, <1>9 DEF KeyOf, SameRequest, Kept
  <2> QED
    BY <1>2, <1>7, <1>9, <2>1, <2>2 DEF HeldBy, Unanswered
<1> QED
  BY <1>2, <1>8, <1>9, <1>11, <1>12, BatchFacts, BatchMoves DEF LeaseOK

LEMMA RenewKeeps ==
  ASSUME BatchInv, NEW b \in Batches, RenewBatch(b)
  PROVE  BatchInv' /\ RunsOnce /\ KeyStays
<1>1. batch = [d \in Batches |-> batch[d]] /\ IsBatch(batch[b]) /\ CallOK(b)
  BY BatchFacts
<1>2. batch[b].pc = "renew" /\ UNCHANGED <<saved, bfaults, overruns, did>>
  BY DEF RenewBatch, At
<1>3. IsRequest(batch[b].request) /\ Running(b)
  BY <1>1, <1>2 DEF CallOK, Running
<1>4. CASE BatchEnds(b, "lost") /\ UNCHANGED lease
  <2>1. /\ batch' = [d \in Batches |-> batch'[d]]
        /\ \A d \in Batches : d # b => batch'[d] = batch[d]
        /\ CallOK(b)' /\ batch'[b].at = batch[b].at /\ HeldBy(b)' /\ Unanswered(b)'
    BY <1>2, <1>4, EndOK
  <2> QED
    BY <1>2, <1>4, <2>1, BatchFacts, BatchMoves DEF LeaseOK
<1>5. CASE /\ batch' = [batch EXCEPT ![b].pc = "run"]
           /\ \/ ~Keyed(batch[b].request) /\ UNCHANGED lease
              \/ Keyed(batch[b].request) /\ MayClaim(b, KeyOf(b)) /\ lease' = Claimed(b, KeyOf(b))
  <2>1. /\ batch' = [d \in Batches |-> batch'[d]]
        /\ \A d \in Batches : d # b => batch'[d] = batch[d]
        /\ batch'[b] = [batch[b] EXCEPT !.pc = "run"]
    BY <1>1, <1>5
  <2>2. /\ IsBatch(batch'[b]) /\ batch'[b].pc = "run" /\ batch'[b].answer = batch[b].answer
        /\ batch'[b].at = batch[b].at /\ batch'[b].failed = batch[b].failed
        /\ batch'[b].request = batch[b].request
    BY <1>1, <2>1 DEF IsBatch
  <2>3. CallOK(b)'
    BY <1>1, <1>2, <1>3, <2>2 DEF CallOK, BatchPcs, Running, Did
  <2>4. KeyOf(b)' = KeyOf(b) /\ SameRequest(b)' = SameRequest(b) /\ Kept(b)' = Kept(b)
    BY <1>2, <2>2 DEF KeyOf, SameRequest, Kept
  <2>5. overruns = 0 => Unanswered(b)'
    BY <1>2, <2>2, <2>4 DEF BatchInv, Unanswered
  <2>6. CASE ~Keyed(batch[b].request) /\ UNCHANGED lease
    <3>1. HeldBy(b)'
      BY <2>2, <2>6 DEF HeldBy
    <3> QED
      BY <1>2, <2>1, <2>2, <2>3, <2>5, <2>6, <3>1, BatchFacts, BatchMoves DEF LeaseOK
  <2>7. CASE Keyed(batch[b].request) /\ MayClaim(b, KeyOf(b)) /\ lease' = Claimed(b, KeyOf(b))
    <3>1. KeyOf(b) \in StateKeys
      BY <1>3, <2>7, KeyTyped DEF KeyOf
    <3>2. /\ lease' = [j \in StateKeys |-> lease'[j]] /\ \A j \in StateKeys : LeaseOK(j)'
          /\ \A j \in StateKeys : lease'[j] = lease[j] \/ lease[j].owner = b \/ ~lease[j].live
          /\ lease'[KeyOf(b)] = [owner |-> b, live |-> TRUE]
      BY <2>7, <3>1, ClaimOK
    <3>3. HeldBy(b)'
      BY <2>4, <3>2 DEF HeldBy
    <3> QED
      BY <1>2, <2>1, <2>2, <2>3, <2>5, <3>2, <3>3, BatchFacts, BatchMoves
  <2> QED
    BY <1>5, <2>6, <2>7
<1> QED
  BY <1>4, <1>5 DEF RenewBatch

\* One item: it has succeeded, or the call counts a failure.
LEMMA RunKeeps ==
  ASSUME BatchInv, NEW b \in Batches, NEW ok \in BOOLEAN, RunItem(b, ok)
  PROVE  BatchInv' /\ RunsOnce /\ KeyStays
<1> DEFINE x == batch[b]
           n == AfterItem(b)
           ans == IF n = "done" THEN "response" ELSE x.answer
           f == IF ok THEN x.failed ELSE x.failed + 1
<1>1. batch = [d \in Batches |-> batch[d]] /\ IsBatch(batch[b]) /\ CallOK(b)
  BY BatchFacts
<1>2. x.pc = "run" /\ UNCHANGED <<lease, saved, bfaults, overruns>>
  BY DEF RunItem, At
<1>3. /\ IsRequest(x.request) /\ Running(b) /\ x.at \in Nat \ {0} /\ x.failed \in Nat
      /\ x.answer = "none" /\ Len(x.request.items) \in Nat
      /\ x.failed = 0 => Did(x.request, x.at - 1)
  BY <1>1, <1>2 DEF CallOK, Running, IsRequest
<1>4. /\ n \in {"renew", "save", "done"} /\ (n = "save" => Keyed(x.request))
      /\ (n = "done" => ~Keyed(x.request))
      /\ (n # "renew" => x.at >= Len(x.request.items))
  BY <1>3 DEF AfterItem
<1>5. /\ batch' = [d \in Batches |-> batch'[d]]
      /\ \A d \in Batches : d # b => batch'[d] = batch[d]
      /\ batch'[b] = [x EXCEPT !.pc = n, !.at = x.at + 1, !.failed = f, !.answer = ans]
  BY <1>1 DEF RunItem
<1> HIDE DEF n, f, ans
<1>6. /\ IsBatch(batch'[b]) /\ batch'[b].pc = n /\ batch'[b].answer = ans
      /\ batch'[b].at = x.at + 1 /\ batch'[b].failed = f /\ batch'[b].request = x.request
  BY <1>1, <1>5 DEF IsBatch
<1>7. did \subseteq did' /\ f \in Nat /\ (f = 0 => ok /\ x.failed = 0)
  BY <1>3 DEF RunItem, f
<1>8. f = 0 => \A j \in 1 .. x.at : <<x.request.tool, x.request.items[j]>> \in did'
  <2> SUFFICES ASSUME f = 0, NEW j \in 1 .. x.at
               PROVE  <<x.request.tool, x.request.items[j]>> \in did'
    OBVIOUS
  <2>1. CASE j = x.at
    BY <1>7, <2>1 DEF RunItem
  <2>2. CASE j # x.at
    <3>1. j \in 1 .. x.at - 1
      BY <1>3, <2>2
    <3> QED
      BY <1>3, <1>7, <3>1 DEF Did
  <2> QED
    BY <2>1, <2>2
<1>9. CallOK(b)'
  <2>1. f = 0 /\ n # "renew" =>
          \A j \in 1 .. Len(x.request.items) : <<x.request.tool, x.request.items[j]>> \in did'
    <3> SUFFICES ASSUME f = 0, n # "renew", NEW j \in 1 .. Len(x.request.items)
                 PROVE  <<x.request.tool, x.request.items[j]>> \in did'
      OBVIOUS
    <3>1. j \in 1 .. x.at
      BY <1>3, <1>4
    <3> QED
      BY <1>8, <3>1
  <2>2. x.at = batch'[b].at - 1 /\ batch'[b].at \in Nat \ {0}
    BY <1>3, <1>6
  <2>3. n # "done" => ans = "none"
    BY <1>3 DEF ans
  <2>4. /\ f = 0 => Did(batch[b].request, batch[b].at - 1)'
        /\ f = 0 /\ n # "renew" => Did(batch[b].request, Len(batch[b].request.items))'
    BY <1>6, <1>8, <2>1, <2>2 DEF Did
  <2> QED
    BY <1>3, <1>4, <1>6, <1>7, <2>2, <2>3, <2>4 DEF CallOK, BatchPcs, Running
<1>10. overruns = 0 => HeldBy(b)' /\ Unanswered(b)'
  <2>1. KeyOf(b)' = KeyOf(b) /\ SameRequest(b)' = SameRequest(b) /\ Kept(b)' = Kept(b)
    BY <1>2, <1>6 DEF KeyOf, SameRequest, Kept
  <2> QED
    BY <1>2, <1>3, <1>6, <2>1 DEF BatchInv, HeldBy, Unanswered
<1> QED
  BY <1>2, <1>5, <1>7, <1>9, <1>10, BatchFacts, BatchMoves DEF LeaseOK

LEMMA SaveKeeps ==
  ASSUME BatchInv, NEW b \in Batches, SaveResponse(b)
  PROVE  BatchInv' /\ RunsOnce /\ KeyStays
<1> DEFINE x == batch[b]
           kept == [request |-> [tool |-> x.request.tool, items |-> x.request.items],
                    failed |-> x.failed]
<1>1. batch = [d \in Batches |-> batch[d]] /\ IsBatch(batch[b]) /\ CallOK(b)
  BY BatchFacts
<1>2. x.pc = "save" /\ UNCHANGED <<lease, bfaults, overruns, did>>
  BY DEF SaveResponse, At
<1>3. /\ IsRequest(x.request) /\ Keyed(x.request) /\ Running(b) /\ x.failed \in Nat
      /\ x.at \in Nat \ {0} /\ (x.failed = 0 => Did(x.request, Len(x.request.items)))
  BY <1>1, <1>2 DEF CallOK, Running
<1>4. KeyOf(b) \in StateKeys
  BY <1>3, KeyTyped DEF KeyOf
<1>5. /\ batch' = [d \in Batches |-> batch'[d]]
      /\ \A d \in Batches : d # b => batch'[d] = batch[d]
      /\ batch'[b] = [x EXCEPT !.pc = "release", !.answer = "response"]
  BY <1>1 DEF SaveResponse
<1>6. /\ IsBatch(batch'[b]) /\ batch'[b].pc = "release" /\ batch'[b].answer = "response"
      /\ batch'[b].at = x.at /\ batch'[b].failed = x.failed /\ batch'[b].request = x.request
  BY <1>1, <1>5 DEF IsBatch
<1>7. CallOK(b)'
  <2>1. x.failed = 0 => Did(batch[b].request, Len(batch[b].request.items))'
    BY <1>2, <1>3, <1>6 DEF Did
  <2> QED
    BY <1>3, <1>6, <2>1 DEF CallOK, BatchPcs, Running
<1>8. /\ saved' = [k \in StateKeys |-> saved'[k]] /\ saved'[KeyOf(b)] = kept
      /\ \A k \in StateKeys : k # KeyOf(b) => saved'[k] = saved[k]
  BY <1>4, BatchFacts DEF SaveResponse
<1>9. KeptOK(KeyOf(b))'
  <2> SUFFICES ASSUME NEW k, k = KeyOf(b) PROVE KeptOK(k)'
    BY <1>6 DEF KeyOf
  <2>1. saved'[k] = kept
    BY <1>8
  <2>2. kept.failed = 0 => Did(kept.request, Len(kept.request.items))
    BY <1>3 DEF Did
  <2>3. kept.failed \in Nat
    BY <1>3
  <2> HIDE DEF kept
  <2> QED
    BY <1>2, <2>1, <2>2, <2>3 DEF KeptOK, Did
<1>10. \A k \in StateKeys :
         \/ saved'[k] = saved[k]
         \/ /\ batch[b].pc = "save" /\ k = KeyOf(b) /\ KeptOK(k)'
            /\ saved'[k].request = [tool |-> batch[b].request.tool, items |-> batch[b].request.items]
  <2>1. KeyOf(b)' = KeyOf(b)
    BY <1>6 DEF KeyOf
  <2> QED
    BY <1>2, <1>8, <1>9, <2>1
<1>11. overruns = 0 => HeldBy(b)' /\ Unanswered(b)'
  <2>1. KeyOf(b)' = KeyOf(b)
    BY <1>6 DEF KeyOf
  <2> QED
    BY <1>2, <1>3, <1>6, <2>1 DEF BatchInv, HeldBy, Unanswered
<1> QED
  BY <1>2, <1>5, <1>6, <1>7, <1>8, <1>10, <1>11, BatchFacts, BatchMoves DEF LeaseOK

\* release frees the lease only of the call that has it.
LEMMA ReleaseKeyKeeps ==
  ASSUME BatchInv, NEW b \in Batches, ReleaseKey(b)
  PROVE  BatchInv' /\ RunsOnce /\ KeyStays
<1>1. CallOK(b) /\ lease = [k \in StateKeys |-> lease[k]] /\ \A k \in StateKeys : LeaseOK(k)
  BY BatchFacts
<1>2. batch[b].pc = "release" /\ UNCHANGED <<saved, bfaults, overruns, did>>
  BY DEF ReleaseKey, At
<1>3. KeyOf(b) \in StateKeys
  BY <1>1, <1>2, KeyTyped DEF CallOK, KeyOf, Running
<1>4. BatchEnds(b, batch[b].answer)
  BY DEF ReleaseKey
<1>5. /\ batch' = [d \in Batches |-> batch'[d]]
      /\ \A d \in Batches : d # b => batch'[d] = batch[d]
      /\ CallOK(b)' /\ batch'[b].at = batch[b].at /\ HeldBy(b)' /\ Unanswered(b)'
  BY <1>2, <1>4, EndOK
<1>6. /\ lease' = [k \in StateKeys |-> lease'[k]]
      /\ \A k \in StateKeys : lease'[k] = lease[k] \/ (lease[k].owner = b /\ lease'[k] = Free)
  BY <1>1, <1>3 DEF ReleaseKey
<1>7. \A k \in StateKeys : LeaseOK(k)'
  <2>1. Free \in [owner: Batches \cup {Unset}, live: BOOLEAN]
    BY DEF Free
  <2> QED
    BY <1>1, <1>6, <2>1 DEF LeaseOK
<1> QED
  BY <1>2, <1>5, <1>6, <1>7, BatchFacts, BatchMoves

LEMMA BatchFailsKeeps ==
  ASSUME BatchInv, NEW b \in Batches, BatchFails(b)
  PROVE  BatchInv' /\ RunsOnce /\ KeyStays
<1>1. BatchEnds(b, "error") /\ UNCHANGED <<lease, saved, overruns, did>>
  BY DEF BatchFails
<1>2. /\ batch' = [d \in Batches |-> batch'[d]]
      /\ \A d \in Batches : d # b => batch'[d] = batch[d]
      /\ CallOK(b)' /\ batch'[b].at = batch[b].at /\ HeldBy(b)' /\ Unanswered(b)'
  BY <1>1, EndOK
<1>3. bfaults' \in 0 .. MaxBatchFaults
  BY BatchFacts, ToolsAssumption DEF BatchFails
<1> QED
  BY <1>1, <1>2, <1>3, BatchFacts, BatchMoves DEF LeaseOK

\* A lease that lapses under a running call is counted.
LEMMA LapseKeeps ==
  ASSUME BatchInv, NEW k \in StateKeys, LeaseLapses(k)
  PROVE  BatchInv' /\ RunsOnce /\ KeyStays
<1>1. /\ lease = [j \in StateKeys |-> lease[j]] /\ \A j \in StateKeys : LeaseOK(j)
      /\ overruns \in 0 .. MaxOverruns /\ MaxOverruns \in Nat
  BY ToolsAssumption DEF BatchInv
<1>2. UNCHANGED <<saved, batch, bfaults, did>> /\ lease[k].live
  BY DEF LeaseLapses
<1>3. /\ lease' = [j \in StateKeys |-> lease'[j]] /\ lease'[k] = [lease[k] EXCEPT !.live = FALSE]
      /\ \A j \in StateKeys : j # k => lease'[j] = lease[j]
  BY <1>1 DEF LeaseLapses
<1>4. \A j \in StateKeys : LeaseOK(j)'
  BY <1>1, <1>3 DEF LeaseOK
<1>5. /\ overruns' \in 0 .. MaxOverruns
      /\ overruns' = 0 => overruns = 0 /\ ~Running(lease[k].owner)
  BY <1>1 DEF LeaseLapses
<1>6. ASSUME overruns' = 0, NEW b \in Batches PROVE HeldBy(b)' /\ Unanswered(b)'
  <2>1. HeldBy(b) /\ Unanswered(b) /\ CallOK(b) /\ ~Running(lease[k].owner)
    BY <1>5, <1>6 DEF BatchInv
  <2>2. Unanswered(b)'
    BY <1>2, <2>1 DEF Unanswered, KeyOf, SameRequest, Kept
  <2>3. HeldBy(b)'
    <3> SUFFICES ASSUME Running(b), Keyed(batch[b].request)
                 PROVE  lease'[KeyOf(b)] = [owner |-> b, live |-> TRUE]
      BY <1>2 DEF HeldBy, Running, KeyOf
    <3>1. lease[KeyOf(b)] = [owner |-> b, live |-> TRUE]
      BY <2>1 DEF HeldBy
    <3>2. KeyOf(b) # k
      BY <2>1, <3>1
    <3>3. KeyOf(b) \in StateKeys
      BY <2>1, KeyTyped DEF CallOK, KeyOf
    <3> QED
      BY <1>3, <3>1, <3>2, <3>3
  <2> QED
    BY <2>2, <2>3
<1>7. BatchInv'
  <2>1. (\A b \in Batches : CallOK(b)') /\ (\A j \in StateKeys : KeptOK(j)')
    BY <1>2, CallStays, KeptStays DEF BatchInv
  <2> QED
    BY <1>2, <1>3, <1>4, <1>5, <1>6, <2>1 DEF BatchInv
<1>8. RunsOnce
  <2>1. \A b \in Batches : batch'[b].at = batch[b].at /\ batch[b].at \in Nat
    BY <1>2 DEF BatchInv, CallOK
  <2> QED
    BY <2>1 DEF RunsOnce
<1>9. KeyStays
  BY <1>2 DEF KeyStays
<1> QED
  BY <1>7, <1>8, <1>9

LEMMA BatchStepKeeps ==
  ASSUME BatchInv, NEW b \in Batches, BatchStep(b)
  PROVE  BatchInv' /\ RunsOnce /\ KeyStays
  BY LoadKeeps, RenewKeeps, SaveKeeps, ReleaseKeyKeeps, RunKeeps DEF BatchStep

\* A policy call keeps the batch part.
LEMMA BatchSame ==
  ASSUME BatchInv, UNCHANGED batches
  PROVE  BatchInv'
<1>1. (\A b \in Batches : CallOK(b)') /\ (\A j \in StateKeys : KeptOK(j)')
  BY CallStays, KeptStays DEF BatchInv, batches
<1> QED
  BY <1>1 DEF BatchInv, batches, LeaseOK, HeldBy, Unanswered, KeyOf, SameRequest, Kept, Running

\* The batch part of the invariant holds at the start.
LEMMA BatchInitial ==
  ASSUME BatchInit
  PROVE  BatchInv
<1>1. \A b \in Batches : batch[b] = [pc |-> "new", request |-> Unset, at |-> 1, failed |-> 0, answer |-> "none"]
  BY DEF BatchInit
<1>2. \A b \in Batches : CallOK(b) /\ HeldBy(b) /\ Unanswered(b)
  BY <1>1 DEF CallOK, IsBatch, BatchPcs, Running, HeldBy, Unanswered
<1>3. \A k \in StateKeys : lease[k] = Free /\ saved[k] = Unsaved
  BY DEF BatchInit
<1>4. Free \in [owner: Batches \cup {Unset}, live: BOOLEAN] /\ Unsaved.failed = 0
  BY DEF Free, Unsaved
<1>5. \A k \in StateKeys : LeaseOK(k) /\ KeptOK(k)
  BY <1>3, <1>4 DEF LeaseOK, KeptOK
<1>6. /\ batch = [b \in Batches |-> batch[b]] /\ lease = [k \in StateKeys |-> lease[k]]
      /\ saved = [k \in StateKeys |-> saved[k]]
  BY DEF BatchInit
<1>7. bfaults \in 0 .. MaxBatchFaults /\ overruns \in 0 .. MaxOverruns
  BY ToolsAssumption DEF BatchInit
<1> QED
  BY <1>2, <1>5, <1>6, <1>7 DEF BatchInv

-----------------------------------------------------------------------------
(* The theorems.                                                           *)

ToolsInv == PolicyInv /\ Outbox /\ BatchInv /\ toolLoad \in ToolWorkloads

\* The invariant holds before the first tool call.
LEMMA ToolsStart == ToolsInit => ToolsInv
<1> SUFFICES ASSUME ToolsInit PROVE ToolsInv
  OBVIOUS
<1>1. PolicyInv /\ BatchInv /\ toolLoad \in ToolWorkloads
  BY PolicyInitial, BatchInitial DEF ToolsInit
<1>2. Outbox
  <2>1. \A c \in Callers : pcall[c].pc = "new"
    BY DEF ToolsInit, PolicyInit, NewCall
  <2> QED
    BY <2>1 DEF Outbox, Claiming, ToolsInit, PolicyInit
<1> QED
  BY <1>1, <1>2 DEF ToolsInv

\* Every step keeps it, and none runs a finished batch again or rebinds its key.
LEMMA NextInv ==
  ASSUME ToolsInv, [ToolsNext]_toolVars
  PROVE  ToolsInv' /\ [RunsOnce /\ KeyStays]_batches
<1>1. PolicyInv /\ Outbox /\ BatchInv /\ toolLoad \in ToolWorkloads
  BY DEF ToolsInv
<1>2. ASSUME UNCHANGED <<batches, toolLoad>>, PolicyInv', Outbox'
      PROVE  ToolsInv' /\ [RunsOnce /\ KeyStays]_batches
  BY <1>1, <1>2, BatchSame DEF ToolsInv
<1>3. ASSUME UNCHANGED <<policy, toolLoad>>, BatchInv', RunsOnce, KeyStays
      PROVE  ToolsInv' /\ [RunsOnce /\ KeyStays]_batches
  <2>1. PolicyInv'
    BY <1>1, <1>3, EnvironmentKeeps DEF policy
  <2>2. Outbox'
    BY <1>1, <1>3 DEF policy, Outbox
  <2> QED
    BY <1>1, <1>3, <2>1, <2>2 DEF ToolsInv
<1>4. ASSUME NEW c \in Callers, DispatchPolicy(c)
      PROVE  ToolsInv' /\ [RunsOnce /\ KeyStays]_batches
  <2>1. PICK r \in toolLoad.policy[c] : DispatchRefused(c, r) \/ PolicyCall(c, r)
    BY <1>4 DEF DispatchPolicy
  <2>2. PolicyInv'
    BY <1>1, <2>1, RefusedKeeps, PolicyCallKeeps
  <2>3. Outbox'
    BY <1>1, <2>1, OutboxCall
  <2> QED
    BY <1>2, <1>4, <2>2, <2>3 DEF DispatchPolicy
<1>5. ASSUME NEW c \in Callers, ContinuePolicy(c)
      PROVE  ToolsInv' /\ [RunsOnce /\ KeyStays]_batches
  BY <1>1, <1>2, <1>5, PolicyStepKeeps, OutboxStep DEF ContinuePolicy
<1>6. ASSUME NEW c \in Callers, PolicyError(c)
      PROVE  ToolsInv' /\ [RunsOnce /\ KeyStays]_batches
  BY <1>1, <1>2, <1>6, PolicyFailsKeeps, OutboxCall, ToolsAssumption DEF PolicyError
<1>7. ASSUME NEW b \in Batches, DispatchBatch(b)
      PROVE  ToolsInv' /\ [RunsOnce /\ KeyStays]_batches
  <2>1. PICK r \in toolLoad.batch[b] : BeginBatch(b, r)
    BY <1>7 DEF DispatchBatch
  <2>2. IsRequest(r)
    BY <1>1, <1>7, <2>1, ToolsAssumption DEF DispatchBatch, IsRequest
  <2> QED
    BY <1>1, <1>3, <1>7, <2>1, <2>2, BeginKeeps DEF DispatchBatch
<1>8. ASSUME NEW b \in Batches, ContinueBatch(b)
      PROVE  ToolsInv' /\ [RunsOnce /\ KeyStays]_batches
  BY <1>1, <1>3, <1>8, BatchStepKeeps DEF ContinueBatch
<1>9. ASSUME NEW b \in Batches, BatchError(b)
      PROVE  ToolsInv' /\ [RunsOnce /\ KeyStays]_batches
  BY <1>1, <1>3, <1>9, BatchFailsKeeps DEF BatchError
<1>10. ASSUME NEW k \in StateKeys, Lapse(k)
       PROVE  ToolsInv' /\ [RunsOnce /\ KeyStays]_batches
  BY <1>1, <1>3, <1>10, LapseKeeps DEF Lapse
<1>11. CASE Environment
  <2>1. /\ rows' = rows /\ version' = version /\ pcall' = pcall /\ pfaults' = pfaults
        /\ cache' \in {cache, None} /\ events' = events /\ delayed' \subseteq delayed
    BY <1>11 DEF Environment, EventDue, CacheExpires
  <2>2. PolicyInv' /\ Outbox'
    BY <1>1, <2>1, EnvironmentKeeps, OutboxSame
  <2> QED
    BY <1>2, <1>11, <2>2 DEF Environment
<1>12. CASE UNCHANGED toolVars
  <2>1. UNCHANGED <<policy, toolLoad>> /\ UNCHANGED batches
    BY <1>12 DEF toolVars
  <2>2. PolicyInv'
    BY <1>1, <2>1, EnvironmentKeeps DEF policy
  <2>3. Outbox'
    BY <1>1, <2>1 DEF policy, Outbox
  <2> QED
    BY <1>2, <2>1, <2>2, <2>3
<1> QED
  BY <1>4, <1>5, <1>6, <1>7, <1>8, <1>9, <1>10, <1>11, <1>12 DEF ToolsNext

\* The inductive invariant of the policy and batch tools.
THEOREM ToolsInvariant == ToolsSpec => []ToolsInv
<1>1. ToolsInit => ToolsInv
  BY ToolsStart
<1>2. ToolsInv /\ [ToolsNext]_toolVars => ToolsInv'
  BY NextInv
<1> QED
  BY <1>1, <1>2, PTL DEF ToolsSpec

\* AnswersReal holds for any calls, requests and faults: a list of policies is that of a
\* moment of the call (policy_records reads the version before the rows and stores the
\* rows under that version), and a batch that reports success had its items run.
THEOREM AnswersAreReal == ToolsSpec => []AnswersReal
<1>1. ToolsInv => AnswersReal
  <2> SUFFICES ASSUME ToolsInv PROVE AnswersReal
    OBVIOUS
  <2>1. PolicyTypeOK
    BY DEF ToolsInv, PolicyInv, PolicyShape, Outbox, PolicyTypeOK, PolicyPcs
  <2>2. BatchTypeOK
    BY DEF ToolsInv, BatchInv, BatchTypeOK, LeaseOK, CallOK, BatchPcs
  <2>3. CacheFresh /\ ListedWithinCall
    BY DEF ToolsInv, PolicyInv, Current
  <2>4. SuccessIsReal
    BY DEF ToolsInv, BatchInv, CallOK, Did, SuccessIsReal
  <2> QED
    BY <2>1, <2>2, <2>3, <2>4 DEF AnswersReal, ToolsTypeOK, ToolsInv
<1> QED
  BY <1>1, ToolsInvariant, PTL

\* BatchesExact holds for any batches and keys, while no item outlasts its lease: what was
\* answered without a failure is not run again under its key, and a key stays with its
\* request (the batch tools' claim, lookup and save).
THEOREM BatchesAreExact == ToolsSpec => BatchesExact
<1>1. ToolsInv /\ [ToolsNext]_toolVars => [RunsOnce]_batches /\ [KeyStays]_batches
  BY NextInv
<1>2. ToolsSpec => [][RunsOnce]_batches /\ [][KeyStays]_batches
  BY <1>1, ToolsInvariant, PTL DEF ToolsSpec
<1> QED
  BY <1>2 DEF BatchesExact, CompletedNotRerun, KeyBoundToRequest, RunsOnce, KeyStays

=============================================================================
