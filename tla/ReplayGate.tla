----------------------------- MODULE ReplayGate -----------------------------
(***************************************************************************)
(* Replay evaluation: a golden suite is replayed against a host under the  *)
(* active and under a candidate policy, the observations are summarised    *)
(* into two reports, the caller sends them as evidence, and the promotion  *)
(* gate accepts or rejects them.  Models src/runtime/evaluation.rs; what a *)
(* promotion does with the verdict is in ExperimentRegistry.               *)
(*                                                                         *)
(* Scores are pairs <<numerator, denominator>> compared by cross           *)
(* multiplication: the f32 quotients of counters below 4096 are ordered    *)
(* alike.  A counter is a u64 whose largest value is MaxWord.              *)
(***************************************************************************)
EXTENDS Naturals, Sequences, FiniteSets, SetSums

CONSTANTS
  Suites,      \* golden suites offered, well formed or not
  Answers,     \* what the host may answer a case with
  Timings,     \* elapsed times of the successive cases of a replay
  Metadata,    \* [env, profile, run, stage, digest] a replay may carry
  Budget,      \* latency_budget_ns
  MaxWord,     \* u64::MAX
  TailShare,   \* the reciprocal of the tail left out of p95: 20
  Threshold,   \* the least score a candidate needs: <<7, 10>>
  Absent

CaseKinds == {"retrieval", "contradiction", "reminder"}

\* A relevant or forbidden id belongs to a retrieval, the only case that has any.
ASSUME GateAssumption ==
  /\ Budget \in Nat /\ MaxWord \in Nat /\ TailShare \in Nat \ {0, 1}
  /\ Threshold \in Nat \X (Nat \ {0}) /\ Threshold[1] <= Threshold[2]
  /\ \A s \in Suites :
       /\ s \in Seq({s[i] : i \in DOMAIN s})
       /\ \A i \in DOMAIN s :
            /\ s[i].kind \in CaseKinds
            /\ IsFiniteSet(s[i].relevant) /\ IsFiniteSet(s[i].forbidden)
            /\ s[i].kind # "retrieval" => s[i].relevant = {} /\ s[i].forbidden = {}
            /\ \A t \in Timings : t[i] \in Nat
  /\ \A a \in Answers : IsFiniteSet(a.ids) /\ a.destructive \in Nat

VARIABLES
  suite,     \* the suite both replays use
  side,      \* which replay is under way, then "gate" and "done"
  answers,   \* the host's answers so far, by side
  timing,    \* the elapsed times drawn, by side
  report,    \* the reports sent as evidence, Absent before or without one
  altered,   \* whether an aggregate was changed on the way
  verdict    \* of the gate

gateVars == <<suite, side, answers, timing, report, altered, verdict>>

Sides == {"baseline", "candidate"}

-----------------------------------------------------------------------------
(* Scores and counters.                                                    *)

AtLeast(p, q) == p[1] * q[2] >= q[1] * p[2]
Equal(p, q) == p[1] * q[2] = q[1] * p[2]
Of(obs, kind) == {i \in DOMAIN obs : obs[i].kind = kind}
Destroyed(obs) == SumOver([i \in DOMAIN obs |-> obs[i].destructive], DOMAIN obs)

\* A sum by checked_add: it fails when some partial sum exceeds the word.
Overflows(obs) == Destroyed(obs) > MaxWord

-----------------------------------------------------------------------------
(* GoldenSuite::validate and observe.                                      *)

\* Mutant: a relevant id may also be forbidden.
ValidSuiteOverlapping(s) ==
  /\ s # <<>> /\ Cardinality({s[i].id : i \in DOMAIN s}) = Len(s)
  /\ \A i \in DOMAIN s : s[i].kind = "retrieval" => s[i].relevant # {}
  /\ \A k \in CaseKinds : \E i \in DOMAIN s : s[i].kind = k

ValidSuite(s) ==
  /\ s # <<>> /\ Cardinality({s[i].id : i \in DOMAIN s}) = Len(s)
  /\ \A i \in DOMAIN s : s[i].kind = "retrieval" =>
       s[i].relevant # {} /\ s[i].relevant \cap s[i].forbidden = {}
  /\ \A k \in CaseKinds : \E i \in DOMAIN s : s[i].kind = k

\* What a report keeps of an answer: counters, never the ids.
Observe(c, a, ns) ==
  [id |-> c.id, kind |-> c.kind, ns |-> ns, destructive |-> a.destructive,
   expected |-> IF c.kind = "retrieval" THEN Cardinality(c.relevant) ELSE c.expected,
   matched |-> Cardinality(c.relevant \cap a.ids), returned |-> Cardinality(a.ids),
   forbidden |-> Cardinality(c.forbidden \cap a.ids), observed |-> a.value]

-----------------------------------------------------------------------------
(* measured_metrics, summarize and EvaluationReport::validate.             *)

Consistent(o) ==
  o.kind = "retrieval" =>
    /\ o.expected > 0 /\ o.matched <= o.expected /\ o.matched <= o.returned
    /\ o.forbidden <= o.returned - o.matched

Measurable(obs) ==
  /\ Cardinality({obs[i].id : i \in DOMAIN obs}) = Len(obs)
  /\ \A i \in DOMAIN obs : Consistent(obs[i])
  /\ ~Overflows(obs)
  /\ \A k \in CaseKinds : Of(obs, k) # {}
  /\ Budget > 0

\* Mutant: the tail is cut one sample short.
TailIndexShort(n) == n - n \div TailShare - 2

\* The index of p95 among n sorted samples, from 0.
TailIndex(n) == n - n \div TailShare - 1

\* Where a sample comes when all are sorted; equal ones keep their order.
Position(samples, i) ==
  Cardinality({j \in DOMAIN samples :
                 samples[j] < samples[i] \/ (samples[j] = samples[i] /\ j <= i)})

Sorted(samples) ==
  [k \in DOMAIN samples |->
     samples[CHOOSE i \in DOMAIN samples : Position(samples, i) = k]]

TailLatency(samples) == Sorted(samples)[TailIndex(Len(samples)) + 1]

\* The share of the cases of a kind that were decided as expected.
Accuracy(obs, kind) ==
  <<Cardinality({i \in Of(obs, kind) : obs[i].expected = obs[i].observed}),
    Cardinality(Of(obs, kind))>>

\* Mutant: recall is measured per case and not per relevant memory.
RecallPerCase(obs) ==
  <<SumOver([i \in DOMAIN obs |-> obs[i].matched], Of(obs, "retrieval")),
    Cardinality(Of(obs, "retrieval"))>>

RecallOf(obs) ==
  <<SumOver([i \in DOMAIN obs |-> obs[i].matched], Of(obs, "retrieval")),
    SumOver([i \in DOMAIN obs |-> obs[i].expected], Of(obs, "retrieval"))>>

Metrics(obs) ==
  LET samples == [i \in DOMAIN obs |-> obs[i].ns]
  IN [recall |-> RecallOf(obs),
      contradiction |-> Accuracy(obs, "contradiction"),
      reminder |-> Accuracy(obs, "reminder"),
      p95 |-> TailLatency(samples), max |-> Max({samples[i] : i \in DOMAIN samples}),
      destructive |-> Destroyed(obs)]

Scores == {"recall", "contradiction", "reminder"}

\* Mutant: the aggregates of a report are believed.
ValidReportTrusting(r) == Measurable(r.obs)

ValidReport(r) ==
  /\ Measurable(r.obs)
  /\ LET measured == Metrics(r.obs)
     IN  /\ \A k \in Scores : Equal(r.metrics[k], measured[k])
         /\ \A k \in {"p95", "max", "destructive"} : r.metrics[k] = measured[k]

-----------------------------------------------------------------------------
(* The gates.                                                              *)

MeetsThresholds(r) ==
  /\ r.metrics.destructive = 0
  /\ \A i \in DOMAIN r.obs : r.obs[i].kind = "retrieval" => r.obs[i].forbidden = 0
  /\ \A k \in Scores : AtLeast(r.metrics[k], Threshold)
  /\ r.metrics.max <= Budget

Comparable(b, c) ==
  /\ b.suite = c.suite /\ b.meta.env = c.meta.env
  /\ b.meta.profile = "release" /\ c.meta.profile = "release"
  /\ b.meta.run # c.meta.run /\ Len(b.obs) = Len(c.obs)

\* Stages and configuration digests are looked at only where both reports
\* carry one.
Qualified(b, c) ==
  /\ b.meta.stage # Absent /\ c.meta.stage # Absent =>
       b.meta.stage # "calibration" /\ c.meta.stage # "calibration"
  /\ b.meta.digest # Absent /\ c.meta.digest # Absent => b.meta.digest = c.meta.digest

\* Mutant: a candidate has to be better than the baseline.
NotWorseStrictly(b, c) == \A k \in Scores : ~AtLeast(b[k], c[k])

NotWorse(b, c) ==
  /\ \A k \in Scores : AtLeast(c[k], b[k])
  /\ c.destructive <= b.destructive /\ c.p95 <= b.p95 /\ c.max <= b.max

\* Mutant: cases are not compared one by one.
CaseNotWorseAggregate(b, c) == b.id = c.id

CaseNotWorse(b, c) ==
  /\ b.id = c.id /\ b.kind = c.kind /\ b.expected = c.expected
  /\ IF b.kind = "retrieval" THEN c.matched >= b.matched
     ELSE b.expected # b.observed \/ c.expected = c.observed
  /\ c.destructive <= b.destructive

Gate(b, c) ==
  /\ ValidReport(b) /\ ValidReport(c) /\ Comparable(b, c) /\ Qualified(b, c)
  /\ MeetsThresholds(c) /\ NotWorse(b.metrics, c.metrics)
  /\ \A i \in DOMAIN b.obs : CaseNotWorse(b.obs[i], c.obs[i])

-----------------------------------------------------------------------------
(* Behaviour.                                                              *)

GateInit ==
  /\ suite \in Suites /\ side = "baseline"
  /\ answers = [s \in Sides |-> <<>>]
  /\ timing \in [Sides -> Timings]
  /\ report = [s \in Sides |-> Absent] /\ altered = FALSE /\ verdict = "none"

\* One case of run_golden_replay.  A host that fails, or that answers another
\* kind of case, ends the replay without a report.
ReplayCase ==
  /\ side \in Sides /\ ValidSuite(suite) /\ Len(answers[side]) < Len(suite)
  /\ \E a \in Answers :
       /\ a.kind = suite[Len(answers[side]) + 1].kind
       /\ answers' = [answers EXCEPT ![side] = Append(@, a)]
  /\ UNCHANGED <<suite, side, timing, report, altered, verdict>>

AbortReplay ==
  /\ side \in Sides
  /\ ~ValidSuite(suite) \/ Len(answers[side]) < Len(suite)
  /\ side' = "done"
  /\ UNCHANGED <<suite, answers, timing, report, altered, verdict>>

Observations(s) ==
  [i \in DOMAIN suite |-> Observe(suite[i], answers[s][i], timing[s][i])]

\* summarize: the report of a replay, or none where it cannot be measured.
Summarize ==
  /\ side \in Sides /\ ValidSuite(suite) /\ Len(answers[side]) = Len(suite)
  /\ IF Measurable(Observations(side))
     THEN /\ \E m \in Metadata :
               report' = [report EXCEPT ![side] =
                 [suite |-> suite, meta |-> m, obs |-> Observations(side),
                  metrics |-> Metrics(Observations(side))]]
          /\ side' = IF side = "baseline" THEN "candidate" ELSE "gate"
     ELSE UNCHANGED report /\ side' = "done"
  /\ UNCHANGED <<suite, answers, timing, altered, verdict>>

\* The caller changes an aggregate of the candidate's report.
AlterAggregate ==
  /\ side = "gate" /\ ~altered
  /\ \E k \in Scores :
       /\ ~Equal(report["candidate"].metrics[k], <<1, 1>>)
       /\ report' = [report EXCEPT !["candidate"].metrics[k] = <<1, 1>>]
  /\ altered' = TRUE
  /\ UNCHANGED <<suite, side, answers, timing, verdict>>

PromotionReplayGate ==
  /\ side = "gate" /\ side' = "done"
  /\ verdict' = IF Gate(report["baseline"], report["candidate"]) THEN "accepted" ELSE "rejected"
  /\ UNCHANGED <<suite, answers, timing, report, altered>>

GateNext == ReplayCase \/ AbortReplay \/ Summarize \/ AlterAggregate \/ PromotionReplayGate

GateSpec == GateInit /\ [][GateNext]_gateVars

-----------------------------------------------------------------------------
GateTypeOK ==
  /\ suite \in Suites /\ side \in Sides \cup {"gate", "done"}
  /\ \A s \in Sides : /\ \A i \in DOMAIN answers[s] : answers[s][i] \in Answers
                      /\ Len(answers[s]) <= Len(suite)
  /\ timing \in [Sides -> Timings] /\ altered \in BOOLEAN
  /\ \A s \in Sides : report[s] = Absent \/ \A k \in Scores :
       report[s].metrics[k][1] <= report[s].metrics[k][2]
  /\ verdict \in {"none", "accepted", "rejected"}

\* A report made by a replay is one the gate takes for genuine: the counters
\* observe keeps of a well-formed suite never look inconsistent to validate.
MeasuredReportsValid ==
  \A s \in Sides :
    /\ report[s] # Absent /\ (s = "candidate" => ~altered) => ValidReport(report[s])
    /\ Len(answers[s]) = Len(suite) /\ ValidSuite(suite) =>
         \A i \in DOMAIN suite : Consistent(Observations(s)[i])

\* The answers themselves, against the goldens.
Hit(i, s) == suite[i].relevant \cap answers[s][i].ids
Correct(i, s) == answers[s][i].value = suite[i].expected

\* An accepted candidate is no worse than the baseline on any case, judged by
\* the host's answers and not by the counters, returned nothing forbidden and
\* destroyed nothing (promotion_replay_gate).
AcceptedNoWorse ==
  verdict = "accepted" =>
    \A i \in DOMAIN suite :
      /\ Cardinality(Hit(i, "candidate")) >= Cardinality(Hit(i, "baseline"))
      /\ suite[i].forbidden \cap answers["candidate"][i].ids = {}
      /\ suite[i].kind # "retrieval" =>
           (Correct(i, "baseline") => Correct(i, "candidate"))
      /\ answers["candidate"][i].destructive = 0

\* Evidence whose aggregates are not the ones measured is never accepted
\* (EvaluationReport::validate).
FabricatedRejected == altered => verdict # "accepted"

\* Replaying the same right answers in the same time under the other policy is
\* accepted: the gate can be passed.
EqualEvidencePasses ==
  /\ verdict # "none" /\ ~altered
  /\ answers["baseline"] = answers["candidate"] /\ timing["baseline"] = timing["candidate"]
  /\ Comparable(report["baseline"], report["candidate"])
  /\ Qualified(report["baseline"], report["candidate"])
  /\ \A i \in DOMAIN suite :
       /\ answers["candidate"][i].destructive = 0 /\ timing["candidate"][i] <= Budget
       /\ IF suite[i].kind = "retrieval"
          THEN answers["candidate"][i].ids = suite[i].relevant ELSE Correct(i, "candidate")
  => verdict = "accepted"

\* The tail latency of a report is the nearest-rank percentile: the least
\* sample that all but one in TailShare of the samples do not exceed.
TailIsNearestRank ==
  \A s \in Sides : report[s] # Absent =>
    LET samples == [i \in DOMAIN suite |-> timing[s][i]]
        AtMost(x) == Cardinality({i \in DOMAIN suite : samples[i] <= x})
        Covers(x) == TailShare * AtMost(x) >= (TailShare - 1) * Len(suite)
    IN report[s].metrics.p95 =
         Min({x \in {samples[i] : i \in DOMAIN suite} : Covers(x)})

\* A report measured by a replay is what the definitions say and always passes
\* validation (summarize, validate).
ReportsExact == GateTypeOK /\ MeasuredReportsValid /\ TailIsNearestRank

\* The gate accepts what is no worse, and only that, of genuine reports
\* (promotion_replay_gate).
GateSound == AcceptedNoWorse /\ FabricatedRejected /\ EqualEvidencePasses

=============================================================================
