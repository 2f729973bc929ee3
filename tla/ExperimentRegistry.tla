------------------------- MODULE ExperimentRegistry -------------------------
(***************************************************************************)
(* What the control plane promises: one registry of experiments and one    *)
(* safety policy, each operation of which is applied at once to the        *)
(* current value.  Models ExperimentRegistry and SafetyPolicy of           *)
(* src/runtime/intelligence.rs.                                            *)
(*                                                                         *)
(* The operations are given as operators on a control-plane value, so that *)
(* ControlPlane can apply them to a copy it has read.                      *)
(***************************************************************************)
EXTENDS Naturals, FiniteSets

CONSTANTS
  Ids,             \* experiment ids
  PolicyVersions,  \* labels chosen by the caller; two experiments may share one
  Weights,         \* scoring weights, token budgets and top_k an experiment
  Budgets,         \* can ask for
  TopKs,
  None,            \* an absent optional value
  Severities, Decisions,
  InitialVersion,  \* "policy-v1"
  InitialSafety,   \* SafetyPolicy::default
  InitialExperiments  \* experiments created before the model starts

Lanes == {"stable", "canary", "sandbox"}
Option(S) == S \cup {None}
Settings == [weights: Option(Weights), budget: Option(Budgets), topk: Option(TopKs)]
NoSettings == [weights |-> None, budget |-> None, topk |-> None]

\* RuntimeSnapshot, and the part of the registry that retrievals are run under.
Snapshot == [lane: Lanes, version: PolicyVersions, experiment: Option(Ids), settings: Settings]
InitialSnapshot == [lane |-> "stable", version |-> InitialVersion,
                    experiment |-> None, settings |-> NoSettings]

Candidate == [status: {"absent", "created", "promoted", "rolled_back"}, lane: Lanes,
              version: PolicyVersions, settings: Settings, target: Snapshot \cup {None}]
Absent == [status |-> "absent", lane |-> "stable", version |-> InitialVersion,
           settings |-> NoSettings, target |-> None]

SafetyPolicy == [Severities -> Decisions]
Control == [serving: Snapshot, experiments: [Ids -> Candidate], safety: SafetyPolicy]
InitialControl == [serving |-> InitialSnapshot, experiments |-> InitialExperiments,
                   safety |-> InitialSafety]

ASSUME RegistryAssumption ==
  /\ IsFiniteSet(Ids) /\ None \notin Ids /\ None \notin Snapshot
  /\ None \notin Weights /\ None \notin Budgets /\ None \notin TopKs
  /\ InitialVersion \in PolicyVersions /\ InitialSafety \in SafetyPolicy
  /\ InitialExperiments \in [Ids -> Candidate]
  /\ \A i \in Ids : \/ InitialExperiments[i] = Absent
                   \/ /\ InitialExperiments[i].status = "created"
                      /\ InitialExperiments[i].target = None

\* A pair of measured reports, by the policies they were measured under and
\* the verdict of promotion_replay_gate (module ReplayGate).
Evidence == [baseline: PolicyVersions, candidate: PolicyVersions, accepted: BOOLEAN]

\* The snapshot that serves experiment id of control c.
Serves(c, id) ==
  [lane |-> c.experiments[id].lane, version |-> c.experiments[id].version,
   experiment |-> id, settings |-> c.experiments[id].settings]

-----------------------------------------------------------------------------
(* Each operation: when it succeeds, and the value it leaves.  One that    *)
(* fails leaves the value alone.                                           *)

\* The id is a digest of the labels, the second and a counter of the
\* process; digests are taken to be distinct.
CanCreate(c, id) == c.experiments[id].status = "absent"

Create(c, id, lane, version, settings) ==
  [c EXCEPT !.experiments[id] =
     [status |-> "created", lane |-> lane, version |-> version, settings |-> settings,
      target |-> None]]

CanPromote(c, id, e) ==
  /\ c.experiments[id].status = "created"
  /\ e.candidate = c.experiments[id].version /\ e.baseline = c.serving.version
  /\ e.accepted

Promote(c, id) ==
  [c EXCEPT !.experiments[id] = [@ EXCEPT !.status = "promoted", !.target = c.serving],
            !.serving = Serves(c, id)]

\* Mutant: any promoted experiment can be rolled back, active or not.
CanRollbackSuperseded(c, id) == c.experiments[id].status = "promoted"

\* Mutant: an experiment that was never promoted can be rolled back.
CanRollbackCreated(c, id) ==
  c.experiments[id].status \in {"created", "promoted"}

CanRollback(c, id) ==
  c.experiments[id].status = "promoted" /\ c.serving.experiment = id

Rollback(c, id) ==
  [c EXCEPT !.experiments[id].status = "rolled_back", !.serving = c.experiments[id].target]

SetSafety(c, severity, decision) == [c EXCEPT !.safety[severity] = decision]

-----------------------------------------------------------------------------
VARIABLE control

RegistryInit == control = InitialControl

RegistryNext ==
  \/ \E id \in Ids, lane \in Lanes, version \in PolicyVersions, settings \in Settings :
       CanCreate(control, id) /\ control' = Create(control, id, lane, version, settings)
  \/ \E id \in Ids, e \in Evidence :
       CanPromote(control, id, e) /\ control' = Promote(control, id)
  \/ \E id \in Ids : CanRollback(control, id) /\ control' = Rollback(control, id)
  \/ \E s \in Severities, d \in Decisions : control' = SetSafety(control, s, d)

RegistrySpec == RegistryInit /\ [][RegistryNext]_control

ControlOK == control \in Control

Promoted == {id \in Ids : control.experiments[id].status = "promoted"}

\* The snapshots rolling back again and again comes to, newest first.
Unwound[n \in 0 .. Cardinality(Ids)] ==
  IF n = 0 THEN control.serving
  ELSE IF Unwound[n - 1].experiment = None THEN Unwound[n - 1]
  ELSE control.experiments[Unwound[n - 1].experiment].target

\* Rolling back the active experiment as often as there is one ends at the
\* initial snapshot, passes every promoted experiment, and shows each with
\* its own lane, version and settings: promotions form one stack
\* (intelligence.rs promote and rollback).
PromotionsFormAStack ==
  LET path == {Unwound[n] : n \in 0 .. Cardinality(Ids)} IN
    /\ Unwound[Cardinality(Ids)] = InitialSnapshot
    /\ {s.experiment : s \in path} = Promoted \cup {None}
    /\ \A s \in path \ {InitialSnapshot} : s = Serves(control, s.experiment)

=============================================================================
