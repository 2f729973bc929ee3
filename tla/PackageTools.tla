---------------------------- MODULE PackageTools ----------------------------
(***************************************************************************)
(* dispatch_tool of src/package/mod.rs for the policy and batch tools, of  *)
(* any number of calls at a time: the check of tenant and user that the    *)
(* policy tools pass and the batch tools make per item, then the tool.     *)
(***************************************************************************)
EXTENDS PolicyCache, BatchKeys

CONSTANTS
  ToolWorkloads   \* the calls that are made together, each with the requests it may carry;
              \* calls are numbered in the order they arrive

ASSUME ToolsAssumption ==
  /\ Callers \subseteq Nat /\ Batches \subseteq Nat
  /\ \A w \in ToolWorkloads : DOMAIN w.policy \subseteq Callers /\ DOMAIN w.batch \subseteq Batches
  /\ MaxPolicyFaults \in Nat /\ MaxBatchFaults \in Nat /\ MaxOverruns \in Nat
  /\ MaxBatch \in Nat \ {0} /\ NoKey \notin IdempotencyKeys
  /\ \A w \in ToolWorkloads : \A b \in DOMAIN w.batch : \A r \in w.batch[b] :
       r.tool \in BatchTools /\ r.key \in IdempotencyKeys \cup {NoKey} /\ Len(r.items) \in Nat

VARIABLES toolLoad   \* the calls of this behaviour

toolVars == <<policy, batches, toolLoad>>

ToolsTypeOK == PolicyTypeOK /\ BatchTypeOK /\ toolLoad \in ToolWorkloads

ToolsInit == PolicyInit /\ BatchInit /\ toolLoad \in ToolWorkloads

\* validate_tenant_user, before any tool but the batches and the operator's.
Unscoped(r) == r.op # "drain" /\ ~r.scoped

DispatchRefused(c, r) ==
  /\ In(c, "new") /\ Unscoped(r)
  /\ Answer(c, "invalid")
  /\ UNCHANGED <<rows, version, cache, events, delayed, pfaults>>

DispatchPolicy(c) ==
  /\ c \in DOMAIN toolLoad.policy /\ \A d \in DOMAIN toolLoad.policy : d < c => ~In(d, "new")
  /\ \E r \in toolLoad.policy[c] : DispatchRefused(c, r) \/ (~Unscoped(r) /\ PolicyCall(c, r))
  /\ UNCHANGED <<batches, toolLoad>>

DispatchBatch(b) ==
  /\ b \in DOMAIN toolLoad.batch /\ \A d \in DOMAIN toolLoad.batch : d < b => ~At(d, "new")
  /\ \E r \in toolLoad.batch[b] : BeginBatch(b, r)
  /\ UNCHANGED <<policy, toolLoad>>

ContinuePolicy(c) == PolicyStep(c) /\ UNCHANGED <<batches, toolLoad>>
ContinueBatch(b) == BatchStep(b) /\ UNCHANGED <<policy, toolLoad>>
PolicyError(c) == c \in DOMAIN toolLoad.policy /\ PolicyFails(c) /\ UNCHANGED <<batches, toolLoad>>
BatchError(b) == b \in DOMAIN toolLoad.batch /\ BatchFails(b) /\ UNCHANGED <<policy, toolLoad>>
Lapse(k) == LeaseLapses(k) /\ UNCHANGED <<policy, toolLoad>>
Environment == (EventDue \/ CacheExpires) /\ UNCHANGED <<batches, toolLoad>>

ToolsNext ==
  \/ \E c \in Callers : DispatchPolicy(c) \/ ContinuePolicy(c) \/ PolicyError(c)
  \/ \E b \in Batches : DispatchBatch(b) \/ ContinueBatch(b) \/ BatchError(b)
  \/ \E k \in StateKeys : Lapse(k)
  \/ Environment

\* Some running batch goes on, and time passes for every lease.
ToolsFairness ==
  /\ WF_toolVars(\E b \in Batches : ContinueBatch(b))
  /\ \A k \in StateKeys : WF_toolVars(Lapse(k))

ToolsSpec == ToolsInit /\ [][ToolsNext]_toolVars
ToolsFairSpec == ToolsSpec /\ ToolsFairness

\* The tools answer with what is the case: a list of policies is one the user had
\* during the call, whichever copy it came from, and a batch that reports success
\* had its items run (policy_records, batch tools).
AnswersReal == ToolsTypeOK /\ CacheFresh /\ ListedWithinCall /\ SuccessIsReal

\* A key stands for one request, done once: a retry gets its response without
\* running it again, and another request does not (batch tools).
BatchesExact == CompletedNotRerun /\ KeyBoundToRequest

\* Batches are answered and their keys become free again, errors and crashes
\* included (claim, release).
BatchesEnd == KeysFreed /\ BatchesAnswered

=============================================================================
