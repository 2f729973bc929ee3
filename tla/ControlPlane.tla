---------------------------- MODULE ControlPlane ----------------------------
(***************************************************************************)
(* The control plane as the package dispatcher keeps it: one JSON document *)
(* of nextral_runtime_state, read, changed and written back under a fenced *)
(* lease (with_control), and read without one by memory.retrieve.  Models  *)
(* the experiments.*, safety.policy.* and memory.retrieve tools of         *)
(* src/package/mod.rs and the fenced claim of src/adapters/postgres.rs.    *)
(*                                                                         *)
(* The owner id of a call is its process id, the second and a counter: two *)
(* hosts can produce the same one, so owners are chosen from a set that    *)
(* calls share.  The fence alone keeps such callers apart.                 *)
(***************************************************************************)
EXTENDS ExperimentRegistry

CONSTANTS
  Callers,        \* hosts, each with one call at a time
  Owners,         \* owner ids
  DefaultBudget,  \* 1800 and 12: what a request that names no budget or
  DefaultTopK,    \* top_k is taken to ask for
  ConfigWeights,  \* retrieval_policy of the deployment's configuration
  ConfigBudget,
  ConfigTopK,
  Experiments,    \* [lane, version, settings] that are created
  Requests,       \* [weights, budget, topk] that retrievals ask for
  MaxCalls,       \* bound on calls
  MaxFaults       \* bound on crashes, failed statements and lapsed leases

ASSUME ControlAssumption ==
  /\ None \notin Owners /\ MaxCalls \in Nat /\ MaxFaults \in Nat
  /\ Budgets \cup {DefaultBudget, ConfigBudget} \subseteq Nat
  /\ TopKs \cup {DefaultTopK, ConfigTopK} \subseteq Nat
  /\ ConfigWeights # None
  /\ Experiments \subseteq [lane: Lanes, version: PolicyVersions, settings: Settings]
  /\ Requests \subseteq [weights: Option(Weights), budget: Budgets \cup {DefaultBudget},
                         topk: TopKs \cup {DefaultTopK}]

VARIABLES
  lease,   \* the control-lease row
  pc, my,  \* control point and locals of each caller
  count    \* calls and faults so far

vars == <<control, lease, pc, my, count>>

\* The labels and the effective settings of a retrieval's response.
Response == [lane: Lanes, version: PolicyVersions, weights: Weights \cup {ConfigWeights},
             budget: Nat, topk: Nat]

NoClaim == [owner |-> None, fence |-> 0]
Idle == [request |-> None, claim |-> NoClaim, copy |-> None, answer |-> None]

Init ==
  /\ RegistryInit
  /\ lease = [owner |-> None, fence |-> 0, live |-> FALSE]
  /\ pc = [c \in Callers |-> "idle"] /\ my = [c \in Callers |-> Idle]
  /\ count = [calls |-> 0, faults |-> 0]

Fault == count.faults < MaxFaults /\ count' = [count EXCEPT !.faults = @ + 1]
Goto(c, label) == pc' = [pc EXCEPT ![c] = label]
Called == count.calls < MaxCalls /\ count' = [count EXCEPT !.calls = @ + 1]

-----------------------------------------------------------------------------
(* The fenced lease.                                                       *)

\* Mutant: an expired lease is not taken over.
ClaimableReleased(o) == lease.owner = None \/ lease.owner = o

Claimable(o) == ~lease.live \/ lease.owner = o

\* Mutant: the write asks only who owns the lease.
HoldsByOwner(claim) == lease.owner = claim.owner

\* save_guarded: owner, fence and expiry are checked in the writing transaction.
Holds(claim) == lease.owner = claim.owner /\ lease.fence = claim.fence /\ lease.live

ExpireLease ==
  /\ lease.live
  /\ IF \E c \in Callers : Holds(my[c].claim) THEN Fault ELSE UNCHANGED count
  /\ lease' = [lease EXCEPT !.live = FALSE]
  /\ UNCHANGED <<control, pc, my>>

-----------------------------------------------------------------------------
(* with_control.                                                           *)

\* claim_fenced.  A call whose claim is refused ends in a conflict and
\* changes nothing.
ClaimControl(c) ==
  /\ pc[c] = "idle" /\ Called
  /\ \E o \in Owners :
       /\ Claimable(o)
       /\ lease' = [owner |-> o, fence |-> lease.fence + 1, live |-> TRUE]
       /\ my' = [my EXCEPT ![c].claim = [owner |-> o, fence |-> lease.fence + 1]]
  /\ Goto(c, "load")
  /\ UNCHANGED control

\* What the operations make of control; one that fails has no result.
Created == {Create(control, id, x.lane, x.version, x.settings) :
             id \in {i \in Ids : CanCreate(control, i)}, x \in Experiments}
PromotedWith(id, e) == IF CanPromote(control, id, e) THEN {Promote(control, id)} ELSE {}
RolledBack(id) == IF CanRollback(control, id) THEN {Rollback(control, id)} ELSE {}
SafetySet(s, d) == {SetSafety(control, s, d)}

\* load_control and the operation on the copy; an error of it skips the write.
Apply(c, results) ==
  /\ pc[c] = "load"
  /\ \/ \E copy \in results : my' = [my EXCEPT ![c].copy = copy] /\ Goto(c, "save")
     \/ results = {} /\ UNCHANGED my /\ Goto(c, "release")
  /\ UNCHANGED <<control, lease, count>>

ApplyAny(c) ==
  \/ Apply(c, Created)
  \/ \E id \in Ids, e \in Evidence : Apply(c, PromotedWith(id, e))
  \/ \E id \in Ids : Apply(c, RolledBack(id))
  \/ \E s \in Severities, d \in Decisions : Apply(c, SafetySet(s, d))

\* save_guarded: the document is replaced, or the call fails with LeaseLost.
SaveGuarded(c) ==
  /\ pc[c] = "save"
  /\ control' = IF Holds(my[c].claim) THEN my[c].copy ELSE control
  /\ my' = [my EXCEPT ![c].copy = None]
  /\ Goto(c, "release")
  /\ UNCHANGED <<lease, count>>

\* release_fenced, whose error is ignored.
ReleaseControl(c) ==
  /\ pc[c] = "release"
  /\ \/ /\ lease' = IF lease.owner = my[c].claim.owner /\ lease.fence = my[c].claim.fence
                    THEN [lease EXCEPT !.owner = None, !.live = FALSE] ELSE lease
        /\ UNCHANGED count
     \/ Fault /\ UNCHANGED lease
  /\ my' = [my EXCEPT ![c] = Idle] /\ Goto(c, "idle")
  /\ UNCHANGED control

\* A statement fails: nothing is written and the lease is released.
FailStatement(c) ==
  /\ pc[c] \in {"load", "save"} /\ Fault
  /\ my' = [my EXCEPT ![c].copy = None] /\ Goto(c, "release")
  /\ UNCHANGED <<control, lease>>

Crash(c) ==
  /\ pc[c] # "idle" /\ Fault
  /\ my' = [my EXCEPT ![c] = Idle] /\ Goto(c, "idle")
  /\ UNCHANGED <<control, lease>>

-----------------------------------------------------------------------------
(* memory.retrieve: the control plane is read once, before the stores are  *)
(* searched, and labels the response that comes back from them.            *)

RetrieveLoad(c) ==
  /\ pc[c] = "idle" /\ Called
  /\ \E r \in Requests :
       my' = [my EXCEPT ![c].request = r, ![c].copy = control]
  /\ Goto(c, "retrieve")
  /\ UNCHANGED <<control, lease>>

\* An explicit weight wins; a budget or a top_k that is the default is taken
\* for one the request does not name.
Effective(request, settings) ==
  [weights |-> IF request.weights = None THEN settings.weights ELSE request.weights,
   budget  |-> IF request.budget = DefaultBudget /\ settings.budget # None
               THEN settings.budget ELSE request.budget,
   topk    |-> IF request.topk = DefaultTopK /\ settings.topk # None
               THEN settings.topk ELSE request.topk]

\* prepare_retrieval of the production store: its limits bound the request's,
\* its weights replace the request's.
Prepared(e) ==
  [weights |-> ConfigWeights,
   budget  |-> IF e.budget < ConfigBudget THEN e.budget ELSE ConfigBudget,
   topk    |-> IF e.topk < ConfigTopK THEN e.topk ELSE ConfigTopK]

\* The response for a request searched under used and labelled from labels.
Respond(request, used, labels) ==
  LET e == Prepared(Effective(request, used.serving.settings)) IN
    [lane |-> labels.serving.lane, version |-> labels.serving.version,
     weights |-> e.weights, budget |-> e.budget, topk |-> e.topk]

\* Mutant: the control plane is read again to label the response.
RetrieveRelabelled(c) ==
  /\ pc[c] = "retrieve"
  /\ my' = [my EXCEPT ![c].answer = Respond(my[c].request, my[c].copy, control),
                      ![c].copy = None]
  /\ Goto(c, "respond")
  /\ UNCHANGED <<control, lease, count>>

RetrieveAnswer(c) ==
  /\ pc[c] = "retrieve"
  /\ my' = [my EXCEPT ![c].answer = Respond(my[c].request, my[c].copy, my[c].copy),
                      ![c].copy = None]
  /\ Goto(c, "respond")
  /\ UNCHANGED <<control, lease, count>>

\* The caller has its response.
Deliver(c) ==
  /\ pc[c] = "respond"
  /\ my' = [my EXCEPT ![c] = Idle] /\ Goto(c, "idle")
  /\ UNCHANGED <<control, lease, count>>

-----------------------------------------------------------------------------
Advance(c) ==
  ApplyAny(c) \/ SaveGuarded(c) \/ ReleaseControl(c) \/ RetrieveAnswer(c) \/ Deliver(c)

Next ==
  \/ ExpireLease
  \/ \E c \in Callers :
       ClaimControl(c) \/ RetrieveLoad(c) \/ Advance(c) \/ FailStatement(c) \/ Crash(c)

Spec == Init /\ [][Next]_vars

\* A call goes on unless its host dies, and clocks advance.
FairSpec ==
  Spec /\ WF_vars(ExpireLease) /\ \A c \in Callers : WF_vars(Advance(c))

-----------------------------------------------------------------------------
TypeOK ==
  /\ ControlOK
  /\ lease \in [owner: Option(Owners), fence: Nat, live: BOOLEAN]
  /\ pc \in [Callers -> {"idle", "load", "save", "release", "retrieve", "respond"}]
  /\ my \in [Callers -> [request: Option(Requests), claim: [owner: Option(Owners), fence: Nat],
                         copy: Option(Control), answer: Option(Response)]]
  /\ count \in [calls: 0 .. MaxCalls, faults: 0 .. MaxFaults]

\* Whatever calls overlap, lapse, crash or share an owner id, the document
\* changes only as the registry does: one operation at a time, each applied
\* to the value it replaces (with_control in package/mod.rs).
ImplementsRegistry == RegistrySpec

\* The snapshots that are or were served: the initial one, and those of the
\* experiments that have been promoted.
Served == {InitialSnapshot} \cup
          {Serves(control, id) : id \in {i \in Ids : control.experiments[i].target # None}}

\* A response was searched within the budget and the top_k of the experiment
\* whose lane and policy version it is labelled with, however many promotions
\* and rollbacks happened meanwhile (memory.retrieve in package/mod.rs).
LabelsMatchSettings ==
  \A c \in Callers : pc[c] = "respond" =>
    \E s \in Served :
      LET e == Prepared(Effective(my[c].request, s.settings)) IN
        /\ my[c].answer.lane = s.lane /\ my[c].answer.version = s.version
        /\ my[c].answer.budget = e.budget /\ my[c].answer.topk = e.topk

\* A control plane that is leased becomes claimable by everyone, even when
\* its holder died or released in vain (claim_fenced expiry).
LeaseFrees == \A o \in Owners : ~Claimable(o) ~> Claimable(o)

\* The policy in force is that of the last promotion not rolled back, and an answer
\* carries label and settings of one policy (promote, rollback, memory.retrieve).
PolicyConsistent == TypeOK /\ PromotionsFormAStack /\ LabelsMatchSettings

=============================================================================
