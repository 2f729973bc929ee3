------------------------------ MODULE Telemetry ------------------------------
(***************************************************************************)
(* The process-wide telemetry service of src/runtime/observability.rs:     *)
(* leases counted under one mutex, the exporter thread, the bounded queue  *)
(* of ended spans and the counter of dropped ones.  The mutex is held      *)
(* while a service is started and while one is joined.  Of the metrics     *)
(* only the traces are modelled.                                           *)
(***************************************************************************)
EXTENDS Naturals, FiniteSets

CONSTANTS
  Holders,    \* owners of a lease: clients and hosts
  Settings,   \* ObservabilityConfig of each: [name, enabled, collector]
  Spans,      \* operations that are measured
  QueueCap,   \* 2048
  Nobody

ASSUME TelemetryAssumption ==
  /\ QueueCap \in Nat \ {0} /\ Nobody \notin Holders
  /\ IsFiniteSet(Holders) /\ IsFiniteSet(Spans)
  /\ \A h \in Holders : Settings[h] # Nobody /\ Settings[h].enabled \in BOOLEAN /\ Settings[h].collector \in BOOLEAN

VARIABLES
  service,  \* ACTIVE: the settings of the running service
  refs,     \* ref_count
  lock,     \* who holds the mutex across a join
  tracing,  \* TRACE_ENABLED
  stop,     \* stop of the running or stopping service
  exporter, \* the nextral-otlp thread: [pc, stopping, attempt, batch]
  queue,    \* TRACE_QUEUE, as a set: the exporter takes all of it
  dropped,  \* TRACES_DROPPED
  acked,    \* history: spans in an acknowledged export
  span,     \* the spans
  holder,   \* the leases
  cut,      \* history: spans that had ended when the last service was told to stop
  shut      \* calls of shutdown: the flags are off, and the rest

telemetry == <<service, refs, lock, tracing, stop, exporter, queue, dropped, acked, span, holder, cut, shut>>
tracers == <<exporter, queue, dropped, acked, span, cut>>

NoExporter == [pc |-> "off", stopping |-> FALSE, attempt |-> 0, batch |-> {}]

TelemetryInit ==
  /\ service = Nobody /\ refs = 0 /\ lock = Nobody
  /\ tracing = FALSE /\ stop = FALSE
  /\ exporter = NoExporter /\ queue = {} /\ dropped = 0 /\ acked = {} /\ cut = {}
  /\ span = [s \in Spans |-> "new"]
  /\ holder = [h \in Holders |-> "none"]
  /\ shut = [h \in Holders |-> "no"]

TelemetryTypeOK ==
  /\ refs \in 0 .. Cardinality(Holders) /\ lock \in Holders \cup {Nobody}
  /\ tracing \in BOOLEAN /\ stop \in BOOLEAN
  /\ exporter.pc \in {"off", "parked", "drain", "post"} /\ exporter.attempt \in 0 .. 2
  /\ Cardinality(queue) <= QueueCap /\ dropped \in Nat
  /\ span \in [Spans -> {"new", "open", "ended", "untraced"}]
  /\ holder \in [Holders -> {"none", "held", "joining", "over", "refused"}]
  /\ shut \in [Holders -> {"no", "flags", "joining", "done"}]

-----------------------------------------------------------------------------
\* An exporter thread needs a collector and settings that are enabled; nothing
\* ties the two, and nobody takes the spans of a service that has no thread.
Exports(settings) == settings.enabled /\ settings.collector

\* Mutant: traces are taken by every service.
StartTracing(h) ==
  /\ service' = Settings[h] /\ refs' = 1
  /\ tracing' = TRUE /\ stop' = FALSE
  /\ exporter' = IF Exports(Settings[h]) THEN [NoExporter EXCEPT !.pc = "parked"] ELSE NoExporter
  /\ holder' = [holder EXCEPT ![h] = "held"]

\* start_service, and acquire_lease after it: with a collector traces are taken,
\* whether or not there is a thread to export them.
StartService(h) ==
  /\ service' = Settings[h] /\ refs' = 1
  /\ tracing' = Settings[h].collector /\ stop' = FALSE
  /\ exporter' = IF Exports(Settings[h]) THEN [NoExporter EXCEPT !.pc = "parked"] ELSE NoExporter
  /\ holder' = [holder EXCEPT ![h] = "held"]

Refuse(h) ==
  /\ holder' = [holder EXCEPT ![h] = "refused"]
  /\ UNCHANGED <<service, refs, tracing, stop, exporter>>

\* acquire_lease: the first starts the service, which fails on an invalid or an
\* occupied endpoint; the others join it, but not with other settings.  Who is
\* refused may try again.
Acquire(h) ==
  /\ holder[h] \in {"none", "refused"} /\ lock = Nobody
  /\ \/ service = Nobody /\ StartService(h)
     \/ service = Nobody /\ Refuse(h)
     \/ /\ service = Settings[h]
        /\ refs' = refs + 1 /\ holder' = [holder EXCEPT ![h] = "held"]
        /\ UNCHANGED <<service, tracing, stop, exporter>>
     \/ service \notin {Nobody, Settings[h]} /\ Refuse(h)
  /\ UNCHANGED <<lock, queue, dropped, acked, span, cut, shut>>

\* The drop of a Service: stop, wake its threads, join them with the mutex held.
Stop(h) ==
  /\ service' = Nobody /\ tracing' = FALSE /\ stop' = TRUE /\ lock' = h
  /\ cut' = IF exporter.pc = "off" THEN {} ELSE {s \in Spans : span[s] = "ended"}

\* Mutant: the last but one stops the service.
ReleaseAtOne(h) ==
  /\ holder[h] = "held" /\ lock = Nobody
  /\ \/ /\ service = Nobody
        /\ holder' = [holder EXCEPT ![h] = "over"]
        /\ UNCHANGED <<service, refs, lock, tracing, stop, cut>>
     \/ /\ service # Nobody /\ refs > 2
        /\ refs' = refs - 1 /\ holder' = [holder EXCEPT ![h] = "over"]
        /\ UNCHANGED <<service, lock, tracing, stop, cut>>
     \/ /\ service # Nobody /\ refs <= 2
        /\ refs' = 0 /\ holder' = [holder EXCEPT ![h] = "joining"]
        /\ Stop(h)
  /\ UNCHANGED <<exporter, queue, dropped, acked, span, shut>>

\* release_lease: the last one stops the service.
Release(h) ==
  /\ holder[h] = "held" /\ lock = Nobody
  /\ \/ /\ service = Nobody
        /\ holder' = [holder EXCEPT ![h] = "over"]
        /\ UNCHANGED <<service, refs, lock, tracing, stop, cut>>
     \/ /\ service # Nobody /\ refs > 1
        /\ refs' = refs - 1 /\ holder' = [holder EXCEPT ![h] = "over"]
        /\ UNCHANGED <<service, lock, tracing, stop, cut>>
     \/ /\ service # Nobody /\ refs = 1
        /\ refs' = 0 /\ holder' = [holder EXCEPT ![h] = "joining"]
        /\ Stop(h)
  /\ UNCHANGED <<exporter, queue, dropped, acked, span, shut>>

ReleaseJoined(h) ==
  /\ holder[h] = "joining" /\ exporter.pc = "off"
  /\ lock' = Nobody /\ holder' = [holder EXCEPT ![h] = "over"]
  /\ UNCHANGED <<service, refs, tracing, stop, shut, tracers>>

\* shutdown: the flags first, then, with the mutex, the service whoever leases it.
ShutdownFlags(h) ==
  /\ shut[h] = "no"
  /\ tracing' = FALSE /\ shut' = [shut EXCEPT ![h] = "flags"]
  /\ UNCHANGED <<service, refs, lock, stop, holder, tracers>>

ShutdownTake(h) ==
  /\ shut[h] = "flags" /\ lock = Nobody
  /\ IF service = Nobody
     THEN shut' = [shut EXCEPT ![h] = "done"] /\ UNCHANGED <<service, lock, stop, cut>>
     ELSE /\ service' = Nobody /\ stop' = TRUE /\ lock' = h
          /\ cut' = IF exporter.pc = "off" THEN {} ELSE {s \in Spans : span[s] = "ended"}
          /\ shut' = [shut EXCEPT ![h] = "joining"]
  /\ refs' = 0
  /\ UNCHANGED <<tracing, exporter, queue, dropped, acked, span, holder>>

ShutdownJoined(h) ==
  /\ shut[h] = "joining" /\ exporter.pc = "off"
  /\ lock' = Nobody /\ shut' = [shut EXCEPT ![h] = "done"]
  /\ UNCHANGED <<service, refs, tracing, stop, holder, tracers>>

-----------------------------------------------------------------------------
\* start_span and the drop of its guard, which may outlive every lease.
StartSpan(s) ==
  /\ span[s] = "new"
  /\ span' = [span EXCEPT ![s] = IF tracing THEN "open" ELSE "untraced"]
  /\ UNCHANGED <<service, refs, lock, tracing, stop, exporter, queue, dropped, acked, holder, cut, shut>>

\* Mutant: one span over the limit is neither kept nor counted.
EndSpanUncounted(s) ==
  /\ span[s] = "open"
  /\ span' = [span EXCEPT ![s] = "ended"]
  /\ queue' = IF Cardinality(queue) < QueueCap THEN queue \cup {s} ELSE queue
  /\ UNCHANGED <<service, refs, lock, tracing, stop, exporter, dropped, acked, holder, cut, shut>>

\* Mutant: the queue has no limit.
EndSpanUnbounded(s) ==
  /\ span[s] = "open"
  /\ span' = [span EXCEPT ![s] = "ended"]
  /\ queue' = queue \cup {s}
  /\ UNCHANGED <<service, refs, lock, tracing, stop, exporter, dropped, acked, holder, cut, shut>>

EndSpan(s) ==
  /\ span[s] = "open"
  /\ span' = [span EXCEPT ![s] = "ended"]
  /\ IF Cardinality(queue) < QueueCap
     THEN queue' = queue \cup {s} /\ UNCHANGED dropped
     ELSE dropped' = dropped + 1 /\ UNCHANGED queue
  /\ UNCHANGED <<service, refs, lock, tracing, stop, exporter, acked, holder, cut, shut>>

-----------------------------------------------------------------------------
exporting == <<service, refs, lock, tracing, stop, span, holder, cut, shut>>

\* The exporter wakes after ten seconds or when it is unparked, and reads stop
\* before it takes the spans.
Wake ==
  /\ exporter.pc = "parked"
  /\ exporter' = [exporter EXCEPT !.pc = "drain", !.stopping = stop]
  /\ UNCHANGED <<queue, dropped, acked, exporting>>

\* Mutant: stop is read at the end of the round.
AfterRoundNow(stopping) == IF stop THEN "off" ELSE "parked"

AfterRound(stopping) == IF stopping THEN "off" ELSE "parked"

TakeSpans ==
  /\ exporter.pc = "drain"
  /\ queue' = {}
  /\ exporter' = [exporter EXCEPT !.pc = IF queue = {} THEN AfterRound(exporter.stopping) ELSE "post",
                                  !.batch = queue, !.attempt = 0]
  /\ UNCHANGED <<dropped, acked, exporting>>

\* Mutant: retried as long as the collector says so.
RetryForever ==
  /\ exporter.pc = "post"
  /\ exporter' = [exporter EXCEPT !.attempt = (@ + 1) % 3]
  /\ UNCHANGED <<queue, dropped, acked, exporting>>

\* export_otlp: up to three attempts while the answer is a transient one.
Retry ==
  /\ exporter.pc = "post" /\ exporter.attempt < 2
  /\ exporter' = [exporter EXCEPT !.attempt = @ + 1]
  /\ UNCHANGED <<queue, dropped, acked, exporting>>

\* Acknowledged, or given up: the spans of the batch are counted as dropped, even
\* if the collector has them.
Posted ==
  /\ exporter.pc = "post"
  /\ exporter' = [exporter EXCEPT !.pc = AfterRound(exporter.stopping), !.batch = {}]
  /\ \/ acked' = acked \cup exporter.batch /\ UNCHANGED dropped
     \/ dropped' = dropped + Cardinality(exporter.batch) /\ UNCHANGED acked
  /\ UNCHANGED <<queue, exporting>>

TelemetryStep == Wake \/ TakeSpans \/ Retry \/ Posted
HolderStep(h) == ReleaseJoined(h) \/ ShutdownTake(h) \/ ShutdownJoined(h)

-----------------------------------------------------------------------------
Held == {h \in Holders : holder[h] = "held"}

\* Every span that ended is accounted for exactly once: queued, in the hands of
\* the exporter, acknowledged, or counted in nextral_traces_dropped_total; across
\* a full queue, a collector that refuses, and services that stop and start.
SpansAccounted ==
  Cardinality({s \in Spans : span[s] = "ended"}) =
    Cardinality(queue) + Cardinality(exporter.batch) + Cardinality(acked) + dropped

\* The end of a service flushes: when its exporter is gone, no span that had
\* ended when it was told to stop is left in the queue.
FlushedAtStop == exporter.pc = "off" => cut \cap queue = {}

\* As long as no host calls shutdown, the service runs exactly while leases are
\* held, however they are taken and given back; traces are taken exactly while it
\* has a collector, and an exporter thread runs, no service being joined, exactly
\* while it is enabled as well.
ServiceLeased ==
  (\A h \in Holders : shut[h] = "no") =>
    /\ refs = Cardinality(Held)
    /\ (service # Nobody) <=> Held # {}
    /\ tracing <=> service # Nobody /\ service.collector
    /\ lock = Nobody => (exporter.pc # "off" <=> service # Nobody /\ Exports(service))

\* Giving a lease back comes to an end, and with it the wait of everyone who
\* needs the mutex: the exporter gives up on a collector after three attempts.
MutexFreed == lock # Nobody ~> lock = Nobody

=============================================================================
