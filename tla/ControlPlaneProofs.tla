------------------------ MODULE ControlPlaneProofs ------------------------
(***************************************************************************)
(* Proofs about ControlPlane, for any hosts, owner ids and experiments:    *)
(* calls that overlap, lapse, crash or share an owner id implement the     *)
(* registry, and the policy in force and the labels of the answers are     *)
(* consistent.  What holds of the registry's values is proved of its       *)
(* operations and carried over by the refinement.                          *)
(***************************************************************************)
EXTENDS ControlPlane, FiniteSetTheorems, TLAPS

-----------------------------------------------------------------------------
(* Induction over the naturals, from the library's well-founded order, with *)
(* the induction predicate given as a set so that no operator has to be     *)
(* instantiated.                                                            *)

\* A set of naturals has a least member.
LEMMA NatMin ==
  ASSUME NEW B, B \subseteq Nat, B # {}
  PROVE  \E m \in B : \A k \in B : ~(<<k, m>> \in OpToRel(<, Nat))
  BY NatLessThanWellFounded, WFMin, Zenon

\* Induction over the naturals, in the same form.
LEMMA NatSetInduction ==
  ASSUME NEW G, 0 \in G, \A n \in Nat : n \in G => n + 1 \in G
  PROVE  Nat \subseteq G
<1> DEFINE B == {n \in Nat : n \notin G}
<1> SUFFICES ASSUME B # {} PROVE FALSE
  OBVIOUS
<1>1. B \subseteq Nat
  OBVIOUS
<1>2. PICK m \in B : \A k \in B : ~(<<k, m>> \in OpToRel(<, Nat))
  <2> HIDE DEF B
  <2> QED
    BY <1>1, NatMin
<1>3. m # 0 /\ m - 1 \in Nat /\ m - 1 < m /\ m - 1 \in B
  OBVIOUS
<1>4. <<m - 1, m>> \in OpToRel(<, Nat)
  BY <1>3 DEF OpToRel
<1> QED
  BY <1>2, <1>3, <1>4

-----------------------------------------------------------------------------
(* What the operations of the registry leave.                              *)

\* The document a tenant starts with is well-formed.
LEMMA InitialTyped == InitialSnapshot \in Snapshot /\ InitialControl \in Control
<1>1. NoSettings \in Settings
  BY DEF NoSettings, Settings, Option
<1>2. InitialSnapshot \in Snapshot
  BY <1>1, RegistryAssumption DEF InitialSnapshot, Snapshot, Lanes, Option
<1> QED
  BY <1>2, RegistryAssumption DEF InitialControl, Control

\* What serves after the promotion of an experiment is a snapshot labelled with it.
LEMMA ServesTyped ==
  ASSUME NEW c \in Control, NEW id \in Ids
  PROVE  Serves(c, id) \in Snapshot /\ Serves(c, id).experiment = id
<1>1. c.experiments[id] \in Candidate
  BY DEF Control
<1> QED
  BY <1>1 DEF Serves, Snapshot, Candidate, Option

\* What create_experiment changes in the document.
LEMMA CreateFacts ==
  ASSUME NEW c \in Control, NEW id \in Ids, NEW lane \in Lanes,
         NEW version \in PolicyVersions, NEW settings \in Settings
  PROVE  LET d == Create(c, id, lane, version, settings)
         IN  /\ d \in Control /\ d.serving = c.serving /\ d.safety = c.safety
             /\ d.experiments[id].status = "created" /\ d.experiments[id].target = None
             /\ \A i \in Ids : i # id => d.experiments[i] = c.experiments[i]
<1> DEFINE d == Create(c, id, lane, version, settings)
           x == [status |-> "created", lane |-> lane, version |-> version,
                 settings |-> settings, target |-> None]
<1>1. x \in Candidate /\ x.status = "created" /\ x.target = None
  BY DEF Candidate
<1>2. c.experiments \in [Ids -> Candidate]
  BY DEF Control
<1>3. d = [c EXCEPT !.experiments[id] = x]
  BY DEF Create
<1> HIDE DEF x, d
<1>4. /\ d.experiments = [c.experiments EXCEPT ![id] = x]
      /\ d.serving = c.serving /\ d.safety = c.safety
  BY <1>3 DEF Control
<1>5. d.experiments \in [Ids -> Candidate]
  BY <1>1, <1>2, <1>4
<1>6. d \in Control
  BY <1>3, <1>5 DEF Control
<1>7. d.experiments[id] = x /\ \A i \in Ids : i # id => d.experiments[i] = c.experiments[i]
  BY <1>2, <1>4
<1>8. QED
  BY <1>1, <1>4, <1>6, <1>7 DEF d

\* What promote changes in the document.
LEMMA PromoteFacts ==
  ASSUME NEW c \in Control, NEW id \in Ids
  PROVE  LET d == Promote(c, id)
         IN  /\ d \in Control /\ d.serving = Serves(c, id) /\ d.safety = c.safety
             /\ d.experiments[id].status = "promoted" /\ d.experiments[id].target = c.serving
             /\ Serves(d, id) = Serves(c, id)
             /\ \A i \in Ids : i # id => d.experiments[i] = c.experiments[i]
<1> DEFINE d == Promote(c, id)
           x == [c.experiments[id] EXCEPT !.status = "promoted", !.target = c.serving]
<1>1. c.experiments \in [Ids -> Candidate] /\ c.experiments[id] \in Candidate
      /\ c.serving \in Snapshot
  BY DEF Control
<1>2. /\ x \in Candidate /\ x.status = "promoted" /\ x.target = c.serving
      /\ x.lane = c.experiments[id].lane /\ x.version = c.experiments[id].version
      /\ x.settings = c.experiments[id].settings
  BY <1>1 DEF Candidate
<1>3. d = [c EXCEPT !.experiments[id] = x, !.serving = Serves(c, id)]
  BY DEF Promote
<1> HIDE DEF x, d
<1>4. /\ d.experiments = [c.experiments EXCEPT ![id] = x]
      /\ d.serving = Serves(c, id) /\ d.safety = c.safety
  BY <1>3 DEF Control
<1>5. d.experiments \in [Ids -> Candidate]
  BY <1>1, <1>2, <1>4
<1>6. d \in Control
  BY <1>3, <1>5, ServesTyped DEF Control
<1>7. d.experiments[id] = x /\ \A i \in Ids : i # id => d.experiments[i] = c.experiments[i]
  BY <1>1, <1>4
<1>8. Serves(d, id) = Serves(c, id)
  BY <1>2, <1>7 DEF Serves
<1>9. QED
  BY <1>2, <1>4, <1>6, <1>7, <1>8 DEF d

\* What rollback changes in the document.
LEMMA RollbackFacts ==
  ASSUME NEW c \in Control, NEW id \in Ids, c.experiments[id].target \in Snapshot
  PROVE  LET d == Rollback(c, id)
         IN  /\ d \in Control /\ d.serving = c.experiments[id].target /\ d.safety = c.safety
             /\ d.experiments[id].status = "rolled_back"
             /\ d.experiments[id].target = c.experiments[id].target
             /\ Serves(d, id) = Serves(c, id)
             /\ \A i \in Ids : i # id => d.experiments[i] = c.experiments[i]
<1> DEFINE d == Rollback(c, id)
           x == [c.experiments[id] EXCEPT !.status = "rolled_back"]
<1>1. c.experiments \in [Ids -> Candidate] /\ c.experiments[id] \in Candidate
  BY DEF Control
<1>2. /\ x \in Candidate /\ x.status = "rolled_back" /\ x.target = c.experiments[id].target
      /\ x.lane = c.experiments[id].lane /\ x.version = c.experiments[id].version
      /\ x.settings = c.experiments[id].settings
  BY <1>1 DEF Candidate
<1>3. d = [c EXCEPT !.experiments[id].status = "rolled_back",
                    !.serving = c.experiments[id].target]
  BY DEF Rollback
<1> HIDE DEF d
<1>4. /\ d.experiments = [c.experiments EXCEPT ![id] = x]
      /\ d.serving = c.experiments[id].target /\ d.safety = c.safety
  BY <1>3 DEF Control
<1> HIDE DEF x
<1>5. d.experiments \in [Ids -> Candidate]
  BY <1>1, <1>2, <1>4
<1>6. d \in Control
  BY <1>3, <1>5 DEF Control
<1>7. d.experiments[id] = x /\ \A i \in Ids : i # id => d.experiments[i] = c.experiments[i]
  BY <1>1, <1>4
<1>8. Serves(d, id) = Serves(c, id)
  BY <1>2, <1>7 DEF Serves
<1>9. QED
  BY <1>2, <1>4, <1>6, <1>7, <1>8 DEF d

\* Changing the safety policy leaves experiments and policy alone.
LEMMA SetSafetyFacts ==
  ASSUME NEW c \in Control, NEW s \in Severities, NEW d \in Decisions
  PROVE  LET e == SetSafety(c, s, d)
         IN  e \in Control /\ e.serving = c.serving /\ e.experiments = c.experiments
  BY DEF SetSafety, Control, SafetyPolicy

-----------------------------------------------------------------------------
(* The invariant of a control-plane value.                                 *)

\* The snapshot j promotions above the initial one, for the promotions p.
At(c, p, j) == IF j = 0 THEN InitialSnapshot ELSE Serves(c, p[j])

\* The promotions that are not rolled back, oldest first: each remembers the one below,
\* and the last one is served.
IsStack(c, n, p) ==
  /\ \A j, k \in 1 .. n : p[j] = p[k] => j = k
  /\ \A id \in Ids : c.experiments[id].status = "promoted" <=> \E k \in 1 .. n : p[k] = id
  /\ \A k \in 1 .. n : c.experiments[p[k]].target = At(c, p, k - 1)
  /\ c.serving = At(c, p, n)

Stacked(c) == \E n \in Nat : \E p \in [1 .. n -> Ids] : IsStack(c, n, p)

\* An experiment has a rollback target from its promotion on.
Targets(c) ==
  \A id \in Ids : c.experiments[id].target = None <=> c.experiments[id].status \in {"absent", "created"}

RegistryInv(c) == c \in Control /\ Targets(c) /\ Stacked(c)

\* One step of the registry, as a relation on its values.
RegistryStep(c, d) ==
  \/ \E id \in Ids, lane \in Lanes, version \in PolicyVersions, settings \in Settings :
       CanCreate(c, id) /\ d = Create(c, id, lane, version, settings)
  \/ \E id \in Ids, e \in Evidence : CanPromote(c, id, e) /\ d = Promote(c, id)
  \/ \E id \in Ids : CanRollback(c, id) /\ d = Rollback(c, id)
  \/ \E s \in Severities, v \in Decisions : d = SetSafety(c, s, v)

\* The snapshots that are or were served under c.
ServedBy(c) == {InitialSnapshot} \cup
               {Serves(c, id) : id \in {i \in Ids : c.experiments[i].target # None}}

\* The first document is a stack with one snapshot in it.
LEMMA InitialRegistry == RegistryInv(InitialControl)
<1> DEFINE c == InitialControl
           p == [k \in 1 .. 0 |-> CHOOSE id \in Ids : TRUE]
<1>1. c.experiments = InitialExperiments /\ c.serving = InitialSnapshot /\ c \in Control
  BY InitialTyped DEF InitialControl
<1>2. \A id \in Ids : /\ InitialExperiments[id].status \in {"absent", "created"}
                      /\ InitialExperiments[id].target = None
  BY RegistryAssumption DEF Absent
<1>3. Targets(c)
  BY <1>1, <1>2 DEF Targets
<1>4. p \in [1 .. 0 -> Ids]
  OBVIOUS
<1>5. IsStack(c, 0, p)
  BY <1>1, <1>2 DEF IsStack, At
<1> HIDE DEF p, c
<1>6. Stacked(c)
  BY <1>4, <1>5 DEF Stacked
<1> QED
  BY <1>1, <1>3, <1>6 DEF RegistryInv, c

\* A promoted experiment rolls back to a snapshot.
LEMMA StackTyped ==
  ASSUME NEW c \in Control, NEW n \in Nat, NEW p \in [1 .. n -> Ids], NEW j \in 0 .. n
  PROVE  /\ At(c, p, j) \in Snapshot
         /\ At(c, p, j).experiment = IF j = 0 THEN None ELSE p[j]
<1>1. CASE j = 0
  BY <1>1, InitialTyped DEF At, InitialSnapshot
<1>2. CASE j # 0
  <2>1. j \in 1 .. n /\ p[j] \in Ids
    BY <1>2
  <2> QED
    BY <1>2, <2>1, ServesTyped DEF At
<1> QED
  BY <1>1, <1>2

\* Steps that change neither what is served nor a promoted experiment.
LEMMA StackSame ==
  ASSUME NEW c \in Control, NEW d \in Control, Stacked(c), d.serving = c.serving,
         NEW quiet, \A i \in Ids : i \notin quiet => d.experiments[i] = c.experiments[i],
         \A i \in Ids : i \in quiet => /\ c.experiments[i].status # "promoted"
                                       /\ d.experiments[i].status # "promoted"
  PROVE  Stacked(d)
<1>0. PICK n \in Nat : \E p \in [1 .. n -> Ids] : IsStack(c, n, p)
  BY DEF Stacked
<1>1. PICK p \in [1 .. n -> Ids] : IsStack(c, n, p)
  BY <1>0
<1>2. \A k \in 1 .. n : p[k] \in Ids /\ p[k] \notin quiet
  BY <1>1 DEF IsStack
<1>3. \A k \in 0 .. n : At(d, p, k) = At(c, p, k)
  BY <1>2 DEF At, Serves
<1>4. \A id \in Ids : d.experiments[id].status = "promoted" <=> \E k \in 1 .. n : p[k] = id
  BY <1>1 DEF IsStack
<1>5. \A k \in 1 .. n : d.experiments[p[k]].target = At(d, p, k - 1)
  BY <1>1, <1>2, <1>3 DEF IsStack
<1>6. IsStack(d, n, p)
  BY <1>1, <1>3, <1>4, <1>5 DEF IsStack
<1> QED
  BY <1>6 DEF Stacked

\* Promotion pushes on the stack.
LEMMA PromoteStack ==
  ASSUME NEW c \in Control, Stacked(c), NEW id \in Ids, c.experiments[id].status = "created"
  PROVE  Stacked(Promote(c, id))
<1> DEFINE d == Promote(c, id)
<1>0. PICK n \in Nat : \E p \in [1 .. n -> Ids] : IsStack(c, n, p)
  BY DEF Stacked
<1>1. PICK p \in [1 .. n -> Ids] : IsStack(c, n, p)
  BY <1>0
<1> DEFINE q == [k \in 1 .. (n + 1) |-> IF k = n + 1 THEN id ELSE p[k]]
<1>2. q \in [1 .. (n + 1) -> Ids] /\ q[n + 1] = id /\ \A k \in 1 .. n : q[k] = p[k]
  OBVIOUS
<1>3. /\ d.serving = Serves(c, id) /\ d.experiments[id].status = "promoted"
      /\ d.experiments[id].target = c.serving /\ Serves(d, id) = Serves(c, id)
      /\ \A i \in Ids : i # id => d.experiments[i] = c.experiments[i]
  BY PromoteFacts
<1> HIDE DEF q, d
<1>4. \A k \in 1 .. n : p[k] \in Ids /\ p[k] # id
  BY <1>1 DEF IsStack
<1>5. \A k \in 0 .. n : At(d, q, k) = At(c, p, k)
  BY <1>2, <1>3, <1>4 DEF At, Serves
<1>6. At(d, q, n + 1) = d.serving
  BY <1>2, <1>3 DEF At
<1>7. \A j, k \in 1 .. (n + 1) : q[j] = q[k] => j = k
  <2> SUFFICES ASSUME NEW j \in 1 .. (n + 1), NEW k \in 1 .. (n + 1), q[j] = q[k] PROVE j = k
    OBVIOUS
  <2>1. (j = n + 1 \/ j \in 1 .. n) /\ (k = n + 1 \/ k \in 1 .. n)
    OBVIOUS
  <2> QED
    BY <1>1, <1>2, <1>4, <2>1 DEF IsStack
<1>8. \A i \in Ids : d.experiments[i].status = "promoted" <=> \E k \in 1 .. (n + 1) : q[k] = i
  <2> SUFFICES ASSUME NEW i \in Ids
               PROVE  d.experiments[i].status = "promoted" <=> \E k \in 1 .. (n + 1) : q[k] = i
    OBVIOUS
  <2>1. CASE i = id
    BY <1>2, <1>3, <2>1
  <2>2. CASE i # id
    <3>1. (\E k \in 1 .. (n + 1) : q[k] = i) <=> \E k \in 1 .. n : p[k] = i
      BY <1>2, <2>2
    <3> QED
      BY <1>1, <1>3, <2>2, <3>1 DEF IsStack
  <2> QED
    BY <2>1, <2>2
<1>9. \A k \in 1 .. (n + 1) : d.experiments[q[k]].target = At(d, q, k - 1)
  <2> SUFFICES ASSUME NEW k \in 1 .. (n + 1)
               PROVE  d.experiments[q[k]].target = At(d, q, k - 1)
    OBVIOUS
  <2>1. CASE k = n + 1
    BY <1>1, <1>2, <1>3, <1>5, <2>1 DEF IsStack
  <2>2. CASE k \in 1 .. n
    BY <1>1, <1>2, <1>3, <1>4, <1>5, <2>2 DEF IsStack
  <2> QED
    BY <2>1, <2>2
<1>10. IsStack(d, n + 1, q)
  BY <1>6, <1>7, <1>8, <1>9 DEF IsStack
<1>11. Stacked(d)
  BY <1>2, <1>10 DEF Stacked
<1> QED
  BY <1>11 DEF d

\* The experiment that is served and promoted is the last one of the stack.
LEMMA ServedIsLast ==
  ASSUME NEW c \in Control, NEW n \in Nat, NEW p \in [1 .. n -> Ids], IsStack(c, n, p),
         NEW id \in Ids, CanRollback(c, id)
  PROVE  n # 0 /\ n \in 1 .. n /\ p[n] = id /\ c.experiments[id].target = At(c, p, n - 1)
<1>1. c.serving = At(c, p, n) /\ n \in 0 .. n /\ c.serving.experiment = id
  BY DEF IsStack, CanRollback
<1>2. n # 0 /\ p[n] = id
  BY <1>1, StackTyped, RegistryAssumption
<1>3. n \in 1 .. n
  BY <1>2
<1> QED
  BY <1>2, <1>3 DEF IsStack

\* Rollback of what serves pops the stack.
LEMMA RollbackStack ==
  ASSUME NEW c \in Control, Stacked(c), NEW id \in Ids, CanRollback(c, id)
  PROVE  c.experiments[id].target \in Snapshot /\ Stacked(Rollback(c, id))
<1> DEFINE d == Rollback(c, id)
<1>0. PICK n \in Nat : \E p \in [1 .. n -> Ids] : IsStack(c, n, p)
  BY DEF Stacked
<1>1. PICK p \in [1 .. n -> Ids] : IsStack(c, n, p)
  BY <1>0
<1>2. n # 0 /\ n \in 1 .. n /\ p[n] = id /\ c.experiments[id].target = At(c, p, n - 1)
  BY <1>1, ServedIsLast
<1>3. n - 1 \in Nat /\ n - 1 \in 0 .. n
  BY <1>2
<1>4. c.experiments[id].target \in Snapshot
  BY <1>2, <1>3, StackTyped
<1>5. /\ d.serving = c.experiments[id].target /\ d.experiments[id].status = "rolled_back"
      /\ \A i \in Ids : i # id => d.experiments[i] = c.experiments[i]
  BY <1>4, RollbackFacts
<1> DEFINE m == n - 1
           q == [k \in 1 .. m |-> p[k]]
<1>6. q \in [1 .. m -> Ids] /\ \A k \in 1 .. m : q[k] = p[k] /\ k \in 1 .. n /\ k # n
  BY <1>3
<1> HIDE DEF q, d
<1>7. \A k \in 1 .. m : p[k] \in Ids /\ p[k] # id
  BY <1>1, <1>2, <1>6 DEF IsStack
<1>8. \A k \in 0 .. m : At(d, q, k) = At(c, p, k)
  BY <1>5, <1>6, <1>7 DEF At, Serves
<1>9. \A j, k \in 1 .. m : q[j] = q[k] => j = k
  BY <1>1, <1>6 DEF IsStack
<1>10. \A i \in Ids : d.experiments[i].status = "promoted" <=> \E k \in 1 .. m : q[k] = i
  <2> SUFFICES ASSUME NEW i \in Ids
               PROVE  d.experiments[i].status = "promoted" <=> \E k \in 1 .. m : q[k] = i
    OBVIOUS
  <2>1. CASE i = id
    BY <1>5, <1>6, <1>7, <2>1
  <2>2. CASE i # id
    <3>1. \A k \in 1 .. n : k = n \/ k \in 1 .. m
      BY <1>3
    <3>2. (\E k \in 1 .. m : q[k] = i) <=> \E k \in 1 .. n : p[k] = i
      BY <1>2, <1>6, <2>2, <3>1
    <3> QED
      BY <1>1, <1>5, <2>2, <3>2 DEF IsStack
  <2> QED
    BY <2>1, <2>2
<1>11. \A k \in 1 .. m : d.experiments[q[k]].target = At(d, q, k - 1)
  <2> SUFFICES ASSUME NEW k \in 1 .. m PROVE d.experiments[q[k]].target = At(d, q, k - 1)
    OBVIOUS
  <2>1. k - 1 \in 0 .. m
    BY <1>3
  <2> QED
    BY <1>1, <1>5, <1>6, <1>7, <1>8, <2>1 DEF IsStack
<1>12. d.serving = At(d, q, m)
  BY <1>2, <1>3, <1>5, <1>8
<1>13. IsStack(d, m, q)
  BY <1>9, <1>10, <1>11, <1>12 DEF IsStack
<1>14. Stacked(d)
  BY <1>3, <1>6, <1>13 DEF Stacked
<1> QED
  BY <1>4, <1>14 DEF d

\* A snapshot is not an absent value.
LEMMA SnapshotIsSome == ASSUME NEW s \in Snapshot PROVE s # None
  BY RegistryAssumption

\* Every operation keeps the invariant, and what was once served stays recorded.
LEMMA RegistryStepKeeps ==
  ASSUME NEW c, NEW d, RegistryInv(c), RegistryStep(c, d)
  PROVE  RegistryInv(d) /\ ServedBy(c) \subseteq ServedBy(d)
<1>1. c \in Control /\ Targets(c) /\ Stacked(c)
  BY DEF RegistryInv
<1>2. ASSUME NEW id \in Ids, NEW lane \in Lanes, NEW version \in PolicyVersions,
             NEW settings \in Settings, CanCreate(c, id),
             d = Create(c, id, lane, version, settings)
      PROVE  RegistryInv(d) /\ ServedBy(c) \subseteq ServedBy(d)
  <2>1. /\ d \in Control /\ d.serving = c.serving
        /\ d.experiments[id].status = "created" /\ d.experiments[id].target = None
        /\ \A i \in Ids : i # id => d.experiments[i] = c.experiments[i]
    BY <1>1, <1>2, CreateFacts
  <2>2. c.experiments[id].status = "absent" /\ c.experiments[id].target = None
    BY <1>1, <1>2 DEF CanCreate, Targets
  <2>3. Stacked(d)
    <3> DEFINE quiet == {id}
    <3>1. /\ \A i \in Ids : i \notin quiet => d.experiments[i] = c.experiments[i]
          /\ \A i \in Ids : i \in quiet => /\ c.experiments[i].status # "promoted"
                                           /\ d.experiments[i].status # "promoted"
      BY <2>1, <2>2
    <3> HIDE DEF quiet
    <3> QED
      BY <1>1, <2>1, <3>1, StackSame
  <2>4. Targets(d)
    BY <1>1, <2>1 DEF Targets
  <2>5. ServedBy(c) \subseteq ServedBy(d)
    BY <2>1, <2>2 DEF ServedBy, Serves
  <2> QED
    BY <2>1, <2>3, <2>4, <2>5 DEF RegistryInv
<1>3. ASSUME NEW id \in Ids, NEW e \in Evidence, CanPromote(c, id, e), d = Promote(c, id)
      PROVE  RegistryInv(d) /\ ServedBy(c) \subseteq ServedBy(d)
  <2>1. /\ d \in Control /\ d.experiments[id].status = "promoted"
        /\ d.experiments[id].target = c.serving /\ Serves(d, id) = Serves(c, id)
        /\ \A i \in Ids : i # id => d.experiments[i] = c.experiments[i]
    BY <1>1, <1>3, PromoteFacts
  <2>2. c.experiments[id].status = "created"
    BY <1>3 DEF CanPromote
  <2>3. Stacked(d)
    BY <1>1, <1>3, <2>2, PromoteStack
  <2>4. d.experiments[id].target # None
    <3>1. c.serving \in Snapshot
      BY <1>1 DEF Control
    <3> QED
      BY <2>1, <3>1, SnapshotIsSome
  <2>5. Targets(d)
    BY <1>1, <2>1, <2>4 DEF Targets
  <2>6. ServedBy(c) \subseteq ServedBy(d)
    <3>1. \A i \in Ids : Serves(d, i) = Serves(c, i)
      BY <2>1 DEF Serves
    <3> QED
      BY <2>1, <2>4, <3>1 DEF ServedBy
  <2> QED
    BY <2>1, <2>3, <2>5, <2>6 DEF RegistryInv
<1>4. ASSUME NEW id \in Ids, CanRollback(c, id), d = Rollback(c, id)
      PROVE  RegistryInv(d) /\ ServedBy(c) \subseteq ServedBy(d)
  <2>1. c.experiments[id].target \in Snapshot /\ Stacked(d)
    BY <1>1, <1>4, RollbackStack
  <2>2. /\ d \in Control /\ d.experiments[id].status = "rolled_back"
        /\ d.experiments[id].target = c.experiments[id].target
        /\ Serves(d, id) = Serves(c, id)
        /\ \A i \in Ids : i # id => d.experiments[i] = c.experiments[i]
    BY <1>1, <1>4, <2>1, RollbackFacts
  <2>3. Targets(d)
    BY <1>1, <2>1, <2>2, SnapshotIsSome DEF Targets
  <2>4. ServedBy(c) \subseteq ServedBy(d)
    <3>1. \A i \in Ids : /\ Serves(d, i) = Serves(c, i)
                         /\ d.experiments[i].target = c.experiments[i].target
      BY <2>2 DEF Serves
    <3> QED
      BY <3>1 DEF ServedBy
  <2> QED
    BY <2>1, <2>2, <2>3, <2>4 DEF RegistryInv
<1>5. ASSUME NEW s \in Severities, NEW v \in Decisions, d = SetSafety(c, s, v)
      PROVE  RegistryInv(d) /\ ServedBy(c) \subseteq ServedBy(d)
  <2>1. d \in Control /\ d.serving = c.serving /\ d.experiments = c.experiments
    BY <1>1, <1>5, SetSafetyFacts
  <2>2. Stacked(d)
    <3> DEFINE quiet == {}
    <3>1. /\ \A i \in Ids : i \notin quiet => d.experiments[i] = c.experiments[i]
          /\ \A i \in Ids : i \in quiet => /\ c.experiments[i].status # "promoted"
                                           /\ d.experiments[i].status # "promoted"
      BY <2>1
    <3> HIDE DEF quiet
    <3> QED
      BY <1>1, <2>1, <3>1, StackSame
  <2>3. Targets(d) /\ ServedBy(c) \subseteq ServedBy(d)
    BY <1>1, <2>1 DEF Targets, ServedBy, Serves
  <2> QED
    BY <2>1, <2>2, <2>3 DEF RegistryInv
<1> QED
  BY <1>2, <1>3, <1>4, <1>5 DEF RegistryStep

\* What is served is the initial snapshot or that of a promoted experiment.
LEMMA ServingIsServed ==
  ASSUME NEW c, RegistryInv(c)
  PROVE  c.serving \in ServedBy(c)
<1>1. c \in Control /\ Targets(c) /\ Stacked(c)
  BY DEF RegistryInv
<1>2. PICK n \in Nat : \E p \in [1 .. n -> Ids] : IsStack(c, n, p)
  BY <1>1 DEF Stacked
<1>3. PICK p \in [1 .. n -> Ids] : IsStack(c, n, p)
  BY <1>2
<1>4. CASE n = 0
  BY <1>3, <1>4 DEF IsStack, At, ServedBy
<1>5. CASE n # 0
  <2>1. n \in 1 .. n /\ p[n] \in Ids
    BY <1>5
  <2>2. c.serving = Serves(c, p[n]) /\ c.experiments[p[n]].status = "promoted"
    BY <1>3, <1>5, <2>1 DEF IsStack, At
  <2>3. c.experiments[p[n]].target # None
    BY <1>1, <2>1, <2>2 DEF Targets
  <2> QED
    BY <2>1, <2>2, <2>3 DEF ServedBy
<1> QED
  BY <1>4, <1>5

-----------------------------------------------------------------------------
(* Rolling back again and again.                                           *)

\* The recursion of Unwound, read from the value n steps up a stack.
Descends(f, top) ==
  f = [m \in 0 .. top |->
         IF m = 0 THEN control.serving
         ELSE IF f[m - 1].experiment = None THEN f[m - 1]
         ELSE control.experiments[f[m - 1].experiment].target]

\* Unwound is one of the functions that satisfy its recursion.
LEMMA UnwoundIs == Unwound = CHOOSE f : Descends(f, Cardinality(Ids))
  BY DEF Unwound, Descends

\* The walk down the stack is the solution of that recursion,
LEMMA WalkDescends ==
  ASSUME control \in Control, NEW n \in Nat, NEW p \in [1 .. n -> Ids],
         IsStack(control, n, p), NEW top \in Nat
  PROVE  Descends([m \in 0 .. top |-> At(control, p, IF m <= n THEN n - m ELSE 0)], top)
<1> DEFINE f == [m \in 0 .. top |-> At(control, p, IF m <= n THEN n - m ELSE 0)]
           g == [m \in 0 .. top |->
                   IF m = 0 THEN control.serving
                   ELSE IF f[m - 1].experiment = None THEN f[m - 1]
                   ELSE control.experiments[f[m - 1].experiment].target]
<1>1. ASSUME NEW m \in 0 .. top PROVE f[m] = g[m]
  <2>1. CASE m = 0
    BY <2>1 DEF IsStack
  <2>2. CASE m # 0 /\ m <= n
    <3> DEFINE j == n - m
    <3>1. /\ j + 1 \in 1 .. n /\ j + 1 \in 0 .. n /\ m - 1 \in 0 .. top /\ m - 1 <= n
          /\ n - (m - 1) = j + 1 /\ (j + 1) - 1 = j
      BY <2>2
    <3>2. f[m] = At(control, p, j) /\ f[m - 1] = At(control, p, j + 1)
      BY <2>2, <3>1
    <3>3. f[m - 1].experiment = p[j + 1] /\ p[j + 1] \in Ids
      BY <3>1, <3>2, StackTyped
    <3>4. control.experiments[p[j + 1]].target = At(control, p, j)
      BY <3>1 DEF IsStack
    <3>5. p[j + 1] # None
      BY <3>3, RegistryAssumption
    <3> QED
      BY <2>2, <3>2, <3>3, <3>4, <3>5
  <2>3. CASE m # 0 /\ ~(m <= n)
    <3>1. m - 1 \in 0 .. top /\ (m - 1 <= n => n - (m - 1) = 0)
      BY <2>3
    <3>2. f[m] = At(control, p, 0) /\ f[m - 1] = At(control, p, 0)
      BY <2>3, <3>1
    <3>3. At(control, p, 0).experiment = None
      BY DEF At, InitialSnapshot
    <3> QED
      BY <2>3, <3>2, <3>3
  <2> QED
    BY <2>1, <2>2, <2>3
<1>2. f = g
  BY <1>1
<1> QED
  BY <1>2 DEF Descends

\* and there is no other.
LEMMA DescendsUnique ==
  ASSUME NEW top \in Nat, NEW f, NEW g, Descends(f, top), Descends(g, top)
  PROVE  f = g
<1> DEFINE G == {m \in Nat : m \in 0 .. top => f[m] = g[m]}
<1>1. 0 \in G
  BY DEF Descends
<1>2. ASSUME NEW m \in Nat, m \in G PROVE m + 1 \in G
  <2> SUFFICES ASSUME m + 1 \in 0 .. top PROVE f[m + 1] = g[m + 1]
    OBVIOUS
  <2>1. m \in 0 .. top /\ (m + 1) - 1 = m /\ m + 1 # 0
    OBVIOUS
  <2>2. f[m] = g[m]
    BY <1>2, <2>1
  <2>3. f[m + 1] = IF f[m].experiment = None THEN f[m]
                   ELSE control.experiments[f[m].experiment].target
    BY <2>1 DEF Descends
  <2>4. g[m + 1] = IF g[m].experiment = None THEN g[m]
                   ELSE control.experiments[g[m].experiment].target
    BY <2>1 DEF Descends
  <2> QED
    BY <2>2, <2>3, <2>4
<1>3. Nat \subseteq G
  <2> HIDE DEF G
  <2> QED
    BY <1>1, <1>2, NatSetInduction
<1>4. \A m \in 0 .. top : f[m] = g[m]
  BY <1>3
<1> QED
  BY SMTT(15), ZenonT(30), <1>4 DEF Descends

\* A stack has no more promotions than there are experiments.
LEMMA StackHeight ==
  ASSUME NEW c, NEW n \in Nat, NEW p \in [1 .. n -> Ids], IsStack(c, n, p)
  PROVE  Cardinality(Ids) \in Nat /\ n <= Cardinality(Ids)
<1>1. IsFiniteSet(Ids) /\ Cardinality(Ids) \in Nat
  BY RegistryAssumption, FS_CardinalityType
<1>2. p \in Injection(1 .. n, Ids)
  BY DEF IsStack, Injection, IsInjective
<1>3. Cardinality(1 .. n) <= Cardinality(Ids)
  BY <1>1, <1>2, FS_Injection
<1>4. Cardinality(1 .. n) = n
  <2>1. Cardinality(1 .. n) = IF 1 > n THEN 0 ELSE n - 1 + 1
    BY FS_Interval
  <2> QED
    BY <2>1
<1> QED
  BY <1>1, <1>3, <1>4

\* The stack of promotions is what rolling back shows.
LEMMA StackShows ==
  ASSUME RegistryInv(control)
  PROVE  PromotionsFormAStack
<1>1. control \in Control /\ Stacked(control)
  BY DEF RegistryInv
<1>2. PICK n \in Nat : \E p \in [1 .. n -> Ids] : IsStack(control, n, p)
  BY <1>1 DEF Stacked
<1>3. PICK p \in [1 .. n -> Ids] : IsStack(control, n, p)
  BY <1>2
<1> DEFINE top == Cardinality(Ids)
           f == [m \in 0 .. top |-> At(control, p, IF m <= n THEN n - m ELSE 0)]
           path == {Unwound[m] : m \in 0 .. top}
<1>4. top \in Nat /\ n <= top
  BY <1>3, StackHeight
<1>5. Unwound = f
  <2> HIDE DEF top
  <2>1. Descends(f, top)
    BY <1>1, <1>3, <1>4, WalkDescends
  <2> HIDE DEF f
  <2>2. Descends(CHOOSE g : Descends(g, top), top)
    BY <2>1
  <2>3. f = CHOOSE g : Descends(g, top)
    BY <1>4, <2>1, <2>2, DescendsUnique
  <2> QED
    BY <2>3, UnwoundIs DEF top
<1>6. Unwound[top] = InitialSnapshot
  <2>1. f[top] = At(control, p, 0)
    BY <1>4
  <2> QED
    BY <1>5, <2>1 DEF At
<1>7. path = {At(control, p, j) : j \in 0 .. n}
  <2> HIDE DEF top
  <2>1. \A m \in 0 .. top : \E j \in 0 .. n : f[m] = At(control, p, j)
    <3> SUFFICES ASSUME NEW m \in 0 .. top PROVE \E j \in 0 .. n : f[m] = At(control, p, j)
      OBVIOUS
    <3>1. CASE m <= n
      <4>1. n - m \in 0 .. n /\ f[m] = At(control, p, n - m)
        BY <1>4, <3>1
      <4> QED
        BY <4>1
    <3>2. CASE ~(m <= n)
      <4>1. 0 \in 0 .. n /\ f[m] = At(control, p, 0)
        BY <1>4, <3>2
      <4> QED
        BY <4>1
    <3> QED
      BY <3>1, <3>2
  <2>2. \A j \in 0 .. n : \E m \in 0 .. top : f[m] = At(control, p, j)
    <3> SUFFICES ASSUME NEW j \in 0 .. n PROVE \E m \in 0 .. top : f[m] = At(control, p, j)
      OBVIOUS
    <3>1. n - j \in 0 .. top /\ n - j <= n /\ n - (n - j) = j
      BY <1>4
    <3>2. f[n - j] = At(control, p, j)
      BY <3>1
    <3> QED
      BY <3>1, <3>2
  <2> HIDE DEF f
  <2> QED
    BY <1>5, <2>1, <2>2
<1>8. {s.experiment : s \in path} = Promoted \cup {None}
  <2>1. \A j \in 0 .. n : At(control, p, j).experiment = IF j = 0 THEN None ELSE p[j]
    BY <1>1, StackTyped
  <2>2. \A id : id \in Promoted <=> \E k \in 1 .. n : p[k] = id
    BY <1>3 DEF IsStack, Promoted
  <2>3. \A x : (\E j \in 0 .. n : x = At(control, p, j).experiment) <=> x = None \/ x \in Promoted
    <3>1. ASSUME NEW j \in 0 .. n
          PROVE  At(control, p, j).experiment = None \/ At(control, p, j).experiment \in Promoted
      BY <2>1, <2>2
    <3>2. 0 \in 0 .. n /\ At(control, p, 0).experiment = None
      BY <2>1
    <3>3. ASSUME NEW k \in 1 .. n PROVE k \in 0 .. n /\ At(control, p, k).experiment = p[k]
      BY <2>1
    <3> QED
      BY <2>2, <3>1, <3>2, <3>3
  <2> HIDE DEF path
  <2> QED
    BY <1>7, <2>3
<1>9. \A s \in path \ {InitialSnapshot} : s = Serves(control, s.experiment)
  <2> SUFFICES ASSUME NEW j \in 0 .. n, At(control, p, j) # InitialSnapshot
               PROVE  At(control, p, j) = Serves(control, At(control, p, j).experiment)
    BY <1>7
  <2>1. j # 0 /\ At(control, p, j).experiment = p[j]
    BY <1>1, StackTyped DEF At
  <2> QED
    BY <2>1 DEF At
<1> QED
  BY <1>6, <1>8, <1>9 DEF PromotionsFormAStack

-----------------------------------------------------------------------------
(* The callers.                                                            *)

Labels == {"idle", "load", "save", "release", "retrieve", "respond"}
Claimed == {"load", "save", "release"}
Local == [request: Option(Requests), claim: [owner: Option(Owners), fence: Nat],
          copy: Option(Control), answer: Option(Response)]

\* No two calls ever have the same fence, whatever their owner ids.
Fences ==
  /\ \A c \in Callers : pc[c] \in Claimed => my[c].claim.fence <= lease.fence
  /\ \A c, d \in Callers : pc[c] \in Claimed /\ pc[d] \in Claimed /\ c # d
                             => my[c].claim.fence # my[d].claim.fence

\* The copy of a call that still holds the lease was made from the current document.
Fresh ==
  \A c \in Callers : pc[c] = "save" /\ Holds(my[c].claim) => RegistryStep(control, my[c].copy)

\* A retrieval works with a control plane that was in force.
Retrieving ==
  \A c \in Callers : pc[c] = "retrieve" =>
    /\ my[c].request \in Requests /\ my[c].copy \in Control
    /\ my[c].copy.serving \in ServedBy(control)

\* What LabelsMatchSettings says of one answer.
Labelled(request, answer, served) ==
  \E s \in served :
    LET e == Prepared(Effective(request, s.settings)) IN
      /\ answer.lane = s.lane /\ answer.version = s.version
      /\ answer.budget = e.budget /\ answer.topk = e.topk

Answered ==
  \A c \in Callers : pc[c] = "respond" => Labelled(my[c].request, my[c].answer, ServedBy(control))

IInv == TypeOK /\ RegistryInv(control) /\ Fences /\ Fresh /\ Retrieving /\ Answered

\* The parts of the type invariant that the action lemmas use.
LEMMA TypeFacts ==
  ASSUME TypeOK
  PROVE  /\ pc \in [Callers -> Labels] /\ my \in [Callers -> Local]
         /\ lease \in [owner: Option(Owners), fence: Nat, live: BOOLEAN]
         /\ lease.fence \in Nat
         /\ \A c \in Callers : my[c].claim.fence \in Nat
<1>1. /\ pc \in [Callers -> Labels] /\ my \in [Callers -> Local]
      /\ lease \in [owner: Option(Owners), fence: Nat, live: BOOLEAN]
  BY DEF TypeOK, Labels, Local
<1>2. ASSUME NEW c \in Callers PROVE my[c].claim.fence \in Nat
  <2>1. my[c] \in Local
    BY <1>1
  <2>2. my[c].claim \in [owner: Option(Owners), fence: Nat]
    BY <2>1 DEF Local
  <2> QED
    BY <2>2
<1> QED
  BY <1>1, <1>2

\* The type invariant after a step, from the variables it is about.
LEMMA TypeNext ==
  ASSUME control' \in Control, pc' \in [Callers -> Labels], my' \in [Callers -> Local],
         lease' \in [owner: Option(Owners), fence: Nat, live: BOOLEAN],
         count' \in [calls: 0 .. MaxCalls, faults: 0 .. MaxFaults]
  PROVE  TypeOK'
  BY DEF TypeOK, ControlOK, Labels, Local

\* Both counters stay within their bounds.
LEMMA CountTyped ==
  ASSUME TypeOK, Fault \/ Called \/ UNCHANGED count
  PROVE  count' \in [calls: 0 .. MaxCalls, faults: 0 .. MaxFaults]
<1>1. count \in [calls: 0 .. MaxCalls, faults: 0 .. MaxFaults]
  BY DEF TypeOK
<1>2. CASE Fault
  BY <1>1, <1>2, ControlAssumption DEF Fault
<1>3. CASE Called
  BY <1>1, <1>3, ControlAssumption DEF Called
<1> QED
  BY <1>1, <1>2, <1>3

\* The locals of a caller at rest are well-formed.
LEMMA IdleTyped == Idle \in Local
  BY DEF Idle, NoClaim, Local, Option

\* A step of one caller after which it has no claim, or its claim and no copy to write,
\* and which gives it neither a retrieval nor an answer.
Quiets(c) ==
  /\ pc' \in [Callers -> Labels] /\ my' \in [Callers -> Local]
  /\ \A d \in Callers : d # c => pc'[d] = pc[d] /\ my'[d] = my[d]
  /\ pc'[c] \in {"idle", "release"}
  /\ pc'[c] = "release" => pc[c] \in Claimed /\ my'[c].claim = my[c].claim

LEMMA QuietKeeps ==
  ASSUME IInv, NEW c \in Callers, Quiets(c), UNCHANGED control,
         lease' \in [owner: Option(Owners), fence: Nat, live: BOOLEAN],
         lease'.fence = lease.fence,
         lease' = lease \/ lease'.live = FALSE,
         Fault \/ UNCHANGED count
  PROVE  IInv'
<1>1. TypeOK /\ RegistryInv(control)
  BY DEF IInv
<1>2. TypeOK' /\ RegistryInv(control')
  BY <1>1, TypeNext, CountTyped DEF Quiets, RegistryInv
<1>3. Fences'
  BY DEF IInv, Fences, Quiets, Claimed
<1>4. Fresh'
  BY DEF IInv, Fresh, Quiets, Holds
<1>5. Retrieving' /\ Answered'
  BY DEF IInv, Retrieving, Answered, Quiets
<1> QED
  BY <1>2, <1>3, <1>4, <1>5 DEF IInv

LEMMA ExpireKeeps ==
  ASSUME IInv, ExpireLease
  PROVE  IInv'
<1>1. TypeOK /\ RegistryInv(control) /\ pc' = pc /\ my' = my /\ control' = control
  BY DEF IInv, ExpireLease
<1>2. /\ lease' \in [owner: Option(Owners), fence: Nat, live: BOOLEAN]
      /\ lease'.live = FALSE /\ lease'.fence = lease.fence
  BY <1>1, TypeFacts DEF ExpireLease
<1>3. TypeOK' /\ RegistryInv(control')
  BY <1>1, <1>2, TypeFacts, TypeNext, CountTyped DEF RegistryInv, ExpireLease
<1>4. Fences' /\ Fresh' /\ Retrieving' /\ Answered'
  BY <1>1, <1>2 DEF IInv, Fences, Fresh, Holds, Retrieving, Answered
<1> QED
  BY <1>3, <1>4 DEF IInv

LEMMA ClaimKeeps ==
  ASSUME IInv, NEW c \in Callers, ClaimControl(c)
  PROVE  IInv'
<1>1. TypeOK /\ RegistryInv(control)
  BY DEF IInv
<1> USE TypeFacts
<1>2. PICK o \in Owners :
        /\ lease' = [owner |-> o, fence |-> lease.fence + 1, live |-> TRUE]
        /\ my' = [my EXCEPT ![c].claim = [owner |-> o, fence |-> lease.fence + 1]]
  BY DEF ClaimControl
<1>3. /\ lease' \in [owner: Option(Owners), fence: Nat, live: BOOLEAN]
      /\ lease'.fence = lease.fence + 1
  BY <1>1, <1>2 DEF Option
<1>4. /\ my' \in [Callers -> Local] /\ my'[c].claim.fence = lease.fence + 1
      /\ \A d \in Callers : d # c => my'[d] = my[d]
  <2>1. [owner |-> o, fence |-> lease.fence + 1] \in [owner: Option(Owners), fence: Nat]
    BY <1>1 DEF Option
  <2>2. [my[c] EXCEPT !.claim = [owner |-> o, fence |-> lease.fence + 1]] \in Local
    BY <1>1, <2>1 DEF Local
  <2> QED
    BY <1>1, <1>2, <2>2 DEF Local
<1>5. /\ pc' \in [Callers -> Labels] /\ pc'[c] = "load"
      /\ \A d \in Callers : d # c => pc'[d] = pc[d]
  BY <1>1 DEF ClaimControl, Goto, Labels
<1>6. control' = control /\ Called
  BY DEF ClaimControl
<1>7. TypeOK' /\ RegistryInv(control')
  BY <1>1, <1>3, <1>4, <1>5, <1>6, TypeNext, CountTyped DEF RegistryInv
<1>8. \A d \in Callers : pc[d] \in Claimed => my[d].claim.fence \in Nat /\ my[d].claim.fence <= lease.fence
  BY <1>1 DEF IInv, Fences
<1>9. Fences'
  BY <1>1, <1>3, <1>4, <1>5, <1>8 DEF IInv, Fences, Claimed
<1>10. Fresh'
  <2> SUFFICES ASSUME NEW d \in Callers, pc'[d] = "save", Holds(my[d].claim)' PROVE FALSE
    BY DEF Fresh
  <2>1. d # c /\ pc[d] \in Claimed /\ my'[d] = my[d]
    BY <1>4, <1>5 DEF Claimed
  <2>2. my[d].claim.fence \in Nat /\ my[d].claim.fence <= lease.fence
    BY <1>8, <2>1
  <2>3. lease'.fence = my[d].claim.fence
    BY <2>1 DEF Holds
  <2>4. lease.fence \in Nat
    BY <1>1
  <2> QED
    BY <1>3, <2>2, <2>3, <2>4
<1>11. Retrieving' /\ Answered'
  BY <1>4, <1>5, <1>6 DEF IInv, Retrieving, Answered
<1> QED
  BY <1>7, <1>9, <1>10, <1>11 DEF IInv

\* Whatever is created, promoted, rolled back or set is a step of the registry.
LEMMA ApplyIsStep ==
  ASSUME NEW c \in Callers, ApplyAny(c)
  PROVE  /\ pc[c] = "load" /\ UNCHANGED <<control, lease, count>>
         /\ \/ \E copy : /\ RegistryStep(control, copy) /\ Goto(c, "save")
                         /\ my' = [my EXCEPT ![c].copy = copy]
            \/ UNCHANGED my /\ Goto(c, "release")
<1> DEFINE Steps(S) == \A copy \in S : RegistryStep(control, copy)
<1>1. Steps(Created)
  <2> SUFFICES ASSUME NEW id \in Ids, CanCreate(control, id), NEW x \in Experiments
               PROVE  RegistryStep(control, Create(control, id, x.lane, x.version, x.settings))
    BY DEF Created
  <2>1. x.lane \in Lanes /\ x.version \in PolicyVersions /\ x.settings \in Settings
    BY ControlAssumption
  <2> QED
    BY <2>1 DEF RegistryStep
<1>2. \A id \in Ids, e \in Evidence : Steps(PromotedWith(id, e))
  BY DEF PromotedWith, RegistryStep
<1>3. \A id \in Ids : Steps(RolledBack(id))
  BY DEF RolledBack, RegistryStep
<1>4. \A s \in Severities, d \in Decisions : Steps(SafetySet(s, d))
  BY DEF SafetySet, RegistryStep
<1>5. ASSUME NEW S, Steps(S), Apply(c, S)
      PROVE  /\ pc[c] = "load" /\ UNCHANGED <<control, lease, count>>
             /\ \/ \E copy : /\ RegistryStep(control, copy) /\ Goto(c, "save")
                             /\ my' = [my EXCEPT ![c].copy = copy]
                \/ UNCHANGED my /\ Goto(c, "release")
  BY <1>5 DEF Apply
<1> HIDE DEF Steps
<1> QED
  BY <1>1, <1>2, <1>3, <1>4, <1>5 DEF ApplyAny

LEMMA ApplyKeeps ==
  ASSUME IInv, NEW c \in Callers, ApplyAny(c)
  PROVE  IInv'
<1>1. TypeOK /\ RegistryInv(control)
  BY DEF IInv
<1> USE TypeFacts
<1>2. pc[c] = "load" /\ UNCHANGED <<control, lease, count>>
  BY ApplyIsStep
<1>3. CASE UNCHANGED my /\ Goto(c, "release")
  <2>1. Quiets(c)
    BY <1>1, <1>2, <1>3 DEF Quiets, Goto, Labels, Claimed
  <2> QED
    BY <1>1, <1>2, <2>1, QuietKeeps
<1>4. ASSUME NEW copy, RegistryStep(control, copy), Goto(c, "save"),
             my' = [my EXCEPT ![c].copy = copy]
      PROVE  IInv'
  <2>1. copy \in Control
    BY <1>1, <1>4, RegistryStepKeeps DEF RegistryInv
  <2>2. /\ my' \in [Callers -> Local] /\ my'[c].copy = copy /\ my'[c].claim = my[c].claim
        /\ \A d \in Callers : d # c => my'[d] = my[d]
    BY <1>1, <1>4, <2>1 DEF Local, Option
  <2>3. /\ pc' \in [Callers -> Labels] /\ pc'[c] = "save"
        /\ \A d \in Callers : d # c => pc'[d] = pc[d]
    BY <1>1, <1>4 DEF Goto, Labels
  <2>4. TypeOK' /\ RegistryInv(control')
    BY <1>1, <1>2, <2>2, <2>3, TypeNext, CountTyped DEF RegistryInv
  <2>5. Fences'
    <3>1. \A d \in Callers : /\ my'[d].claim = my[d].claim
                             /\ pc'[d] \in Claimed <=> pc[d] \in Claimed
      BY <1>2, <2>2, <2>3 DEF Claimed
    <3> QED
      BY <1>2, <3>1 DEF IInv, Fences
  <2>6. Fresh'
    <3> SUFFICES ASSUME NEW d \in Callers, pc'[d] = "save", Holds(my[d].claim)'
                 PROVE  RegistryStep(control, my'[d].copy)
      BY <1>2 DEF Fresh, RegistryStep
    <3>1. CASE d = c
      BY <1>4, <2>2, <3>1
    <3>2. CASE d # c
      BY <1>2, <2>2, <2>3, <3>2 DEF IInv, Fresh, Holds
    <3> QED
      BY <3>1, <3>2
  <2>7. Retrieving' /\ Answered'
    BY <1>2, <2>2, <2>3 DEF IInv, Retrieving, Answered
  <2> QED
    BY <2>4, <2>5, <2>6, <2>7 DEF IInv
<1> QED
  BY <1>3, <1>4, ApplyIsStep

\* Of the calls that are about to write, only one can hold the lease.
LEMMA SaveKeeps ==
  ASSUME IInv, NEW c \in Callers, SaveGuarded(c)
  PROVE  IInv' /\ (control' = control \/ RegistryStep(control, control'))
<1>1. TypeOK /\ RegistryInv(control)
  BY DEF IInv
<1> USE TypeFacts
<1>2. /\ pc[c] = "save" /\ lease' = lease /\ count' = count /\ Goto(c, "release")
      /\ my' = [my EXCEPT ![c].copy = None]
  BY DEF SaveGuarded
<1>3. /\ my' \in [Callers -> Local] /\ my'[c].claim = my[c].claim
      /\ \A d \in Callers : d # c => my'[d] = my[d]
  BY <1>1, <1>2 DEF Local, Option
<1>4. /\ pc' \in [Callers -> Labels] /\ pc'[c] = "release"
      /\ \A d \in Callers : d # c => pc'[d] = pc[d]
  BY <1>1, <1>2 DEF Goto, Labels
<1>5. CASE ~Holds(my[c].claim)
  <2>1. control' = control
    BY <1>5 DEF SaveGuarded
  <2>2. Quiets(c)
    BY <1>2, <1>3, <1>4 DEF Quiets, Claimed
  <2> QED
    BY <1>1, <1>2, <2>1, <2>2, QuietKeeps
<1>6. CASE Holds(my[c].claim)
  <2>1. control' = my[c].copy /\ RegistryStep(control, control')
    BY <1>2, <1>6 DEF SaveGuarded, IInv, Fresh
  <2>2. RegistryInv(control') /\ ServedBy(control) \subseteq ServedBy(control')
    BY <1>1, <2>1, RegistryStepKeeps
  <2>3. TypeOK'
    BY <1>1, <1>2, <1>3, <1>4, <2>2, TypeNext, CountTyped DEF RegistryInv
  <2>4. Fences'
    <3>1. \A d \in Callers : /\ my'[d].claim = my[d].claim
                             /\ pc'[d] \in Claimed <=> pc[d] \in Claimed
      BY <1>2, <1>3, <1>4 DEF Claimed
    <3> QED
      BY <1>2, <3>1 DEF IInv, Fences
  <2>5. Fresh'
    <3> SUFFICES ASSUME NEW d \in Callers, pc'[d] = "save", Holds(my[d].claim)' PROVE FALSE
      BY DEF Fresh
    <3>1. d # c /\ pc[d] = "save" /\ my'[d] = my[d]
      BY <1>3, <1>4
    <3>2. my[d].claim.fence # my[c].claim.fence
      BY <1>2, <3>1 DEF IInv, Fences, Claimed
    <3>3. my[d].claim.fence = lease.fence /\ my[c].claim.fence = lease.fence
      BY <1>2, <1>6, <3>1 DEF Holds
    <3> QED
      BY <3>2, <3>3
  <2>6. Retrieving'
    BY <1>3, <1>4, <2>2 DEF IInv, Retrieving
  <2>7. Answered'
    <3> SUFFICES ASSUME NEW d \in Callers, pc'[d] = "respond"
                 PROVE  Labelled(my'[d].request, my'[d].answer, ServedBy(control'))
      BY DEF Answered
    <3>1. pc[d] = "respond" /\ my'[d] = my[d]
      BY <1>3, <1>4
    <3>2. Labelled(my[d].request, my[d].answer, ServedBy(control))
      BY <3>1 DEF IInv, Answered
    <3> QED
      BY <2>2, <3>1, <3>2 DEF Labelled
  <2> QED
    BY <2>1, <2>2, <2>3, <2>4, <2>5, <2>6, <2>7 DEF IInv
<1> QED
  BY <1>5, <1>6

LEMMA ReleaseKeeps ==
  ASSUME IInv, NEW c \in Callers, ReleaseControl(c)
  PROVE  IInv'
<1>1. TypeOK
  BY DEF IInv
<1>2. /\ lease' \in [owner: Option(Owners), fence: Nat, live: BOOLEAN]
      /\ lease'.fence = lease.fence /\ (lease' = lease \/ lease'.live = FALSE)
  BY <1>1, TypeFacts DEF ReleaseControl, Option
<1>3. Quiets(c)
  BY <1>1, TypeFacts, IdleTyped DEF ReleaseControl, Quiets, Goto, Labels
<1>4. control' = control /\ (Fault \/ UNCHANGED count)
  BY DEF ReleaseControl
<1> QED
  BY <1>2, <1>3, <1>4, QuietKeeps

LEMMA FailKeeps ==
  ASSUME IInv, NEW c \in Callers, FailStatement(c)
  PROVE  IInv'
<1>1. TypeOK
  BY DEF IInv
<1>2. /\ my' \in [Callers -> Local] /\ my'[c].claim = my[c].claim
      /\ \A d \in Callers : d # c => my'[d] = my[d]
  BY <1>1, TypeFacts DEF FailStatement, Local, Option
<1>3. Quiets(c)
  BY <1>1, <1>2, TypeFacts DEF FailStatement, Quiets, Goto, Labels, Claimed
<1>4. control' = control /\ lease' = lease /\ Fault
  BY DEF FailStatement
<1> QED
  BY <1>1, <1>3, <1>4, TypeFacts, QuietKeeps

LEMMA EndKeeps ==
  ASSUME IInv, NEW c \in Callers, Crash(c) \/ Deliver(c)
  PROVE  IInv'
<1>1. TypeOK
  BY DEF IInv
<1>2. Quiets(c)
  BY <1>1, TypeFacts, IdleTyped DEF Crash, Deliver, Quiets, Goto, Labels
<1>3. control' = control /\ lease' = lease /\ (Fault \/ UNCHANGED count)
  BY DEF Crash, Deliver
<1> QED
  BY <1>1, <1>2, <1>3, TypeFacts, QuietKeeps

\* A retrieval starts from the policy in force.
LEMMA LoadKeeps ==
  ASSUME IInv, NEW c \in Callers, RetrieveLoad(c)
  PROVE  IInv'
<1>1. TypeOK /\ RegistryInv(control) /\ control \in Control
  BY DEF IInv, RegistryInv
<1> USE TypeFacts
<1>2. PICK r \in Requests : my' = [my EXCEPT ![c].request = r, ![c].copy = control]
  BY DEF RetrieveLoad
<1>3. /\ my' \in [Callers -> Local] /\ my'[c].request = r /\ my'[c].copy = control
      /\ \A d \in Callers : d # c => my'[d] = my[d]
  BY <1>1, <1>2 DEF Local, Option
<1>4. /\ pc' \in [Callers -> Labels] /\ pc'[c] = "retrieve"
      /\ \A d \in Callers : d # c => pc'[d] = pc[d]
  BY <1>1 DEF RetrieveLoad, Goto, Labels
<1>5. control' = control /\ lease' = lease /\ Called
  BY DEF RetrieveLoad
<1>6. TypeOK' /\ RegistryInv(control')
  BY <1>1, <1>3, <1>4, <1>5, TypeNext, CountTyped DEF RegistryInv
<1>7. Fences' /\ Fresh' /\ Answered'
  BY <1>3, <1>4, <1>5 DEF IInv, Fences, Fresh, Answered, Claimed, Holds
<1>8. Retrieving'
  BY <1>1, <1>3, <1>4, <1>5, ServingIsServed DEF IInv, Retrieving
<1> QED
  BY <1>6, <1>7, <1>8 DEF IInv

\* What is searched with is a budget and a top_k, whatever the request and the policy.
LEMMA RespondTyped ==
  ASSUME NEW r \in Requests, NEW copy \in Control
  PROVE  Respond(r, copy, copy) \in Response
<1>1. copy.serving \in Snapshot
  BY DEF Control
<1>2. /\ copy.serving.lane \in Lanes /\ copy.serving.version \in PolicyVersions
      /\ copy.serving.settings \in Settings
  BY <1>1 DEF Snapshot
<1> DEFINE e == Effective(r, copy.serving.settings)
<1>3. e.budget \in Nat /\ e.topk \in Nat
  <2>1. r.budget \in Nat /\ r.topk \in Nat
    BY ControlAssumption
  <2>2. copy.serving.settings.budget \in Option(Budgets) /\ copy.serving.settings.topk \in Option(TopKs)
    BY <1>2 DEF Settings
  <2> QED
    BY <2>1, <2>2, ControlAssumption DEF Effective, Option
<1> HIDE DEF e
<1>4. Prepared(e).weights = ConfigWeights /\ Prepared(e).budget \in Nat /\ Prepared(e).topk \in Nat
  BY <1>3, ControlAssumption DEF Prepared
<1> QED
  BY <1>2, <1>4 DEF Respond, Response, e

LEMMA AnswerKeeps ==
  ASSUME IInv, NEW c \in Callers, RetrieveAnswer(c)
  PROVE  IInv'
<1>1. TypeOK /\ RegistryInv(control)
  BY DEF IInv
<1> USE TypeFacts
<1> DEFINE r == my[c].request
           copy == my[c].copy
           a == Respond(r, copy, copy)
<1>2. /\ pc[c] = "retrieve" /\ control' = control /\ lease' = lease /\ count' = count
      /\ my' = [my EXCEPT ![c].answer = a, ![c].copy = None]
  BY DEF RetrieveAnswer
<1>3. r \in Requests /\ copy \in Control /\ copy.serving \in ServedBy(control)
  BY <1>2 DEF IInv, Retrieving
<1>4. a \in Response
  BY <1>3, RespondTyped
<1>5. Labelled(r, a, ServedBy(control))
  BY <1>3 DEF Labelled, Respond
<1>6. /\ my' \in [Callers -> Local] /\ my'[c].request = r /\ my'[c].answer = a
      /\ \A d \in Callers : d # c => my'[d] = my[d]
  <2> HIDE DEF a
  <2> QED
    BY <1>1, <1>2, <1>4 DEF Local, Option
<1>7. /\ pc' \in [Callers -> Labels] /\ pc'[c] = "respond"
      /\ \A d \in Callers : d # c => pc'[d] = pc[d]
  BY <1>1 DEF RetrieveAnswer, Goto, Labels
<1>8. TypeOK' /\ RegistryInv(control')
  BY <1>1, <1>2, <1>6, <1>7, TypeNext, CountTyped DEF RegistryInv
<1> HIDE DEF a, r, copy
<1>9. Fences' /\ Fresh' /\ Retrieving'
  BY <1>2, <1>6, <1>7 DEF IInv, Fences, Fresh, Retrieving, Claimed, Holds
<1>10. Answered'
  <2> SUFFICES ASSUME NEW d \in Callers, pc'[d] = "respond"
               PROVE  Labelled(my'[d].request, my'[d].answer, ServedBy(control'))
    BY DEF Answered
  <2>1. CASE d = c
    BY <1>2, <1>5, <1>6, <2>1
  <2>2. CASE d # c
    BY <1>2, <1>6, <1>7, <2>2 DEF IInv, Answered
  <2> QED
    BY <2>1, <2>2
<1> QED
  BY <1>8, <1>9, <1>10 DEF IInv

-----------------------------------------------------------------------------
(* The theorems.                                                           *)

\* The invariant holds before the first call.
LEMMA InitInv == Init => IInv
<1> SUFFICES ASSUME Init PROVE IInv
  OBVIOUS
<1>1. RegistryInv(control)
  BY InitialRegistry DEF Init, RegistryInit
<1>2. pc \in [Callers -> Labels] /\ my \in [Callers -> Local] /\ \A c \in Callers : pc[c] = "idle"
  BY IdleTyped DEF Init, Labels
<1>3. TypeOK
  <2>1. /\ lease \in [owner: Option(Owners), fence: Nat, live: BOOLEAN]
        /\ count \in [calls: 0 .. MaxCalls, faults: 0 .. MaxFaults]
    BY ControlAssumption DEF Init, Option
  <2> QED
    BY <1>1, <1>2, <2>1 DEF TypeOK, ControlOK, RegistryInv, Labels, Local
<1>4. Fences /\ Fresh /\ Retrieving /\ Answered
  BY <1>2 DEF Fences, Fresh, Retrieving, Answered, Claimed
<1> QED
  BY <1>1, <1>3, <1>4 DEF IInv

\* Every step keeps it, and a step that writes the document is one of the registry.
LEMMA NextInv ==
  ASSUME IInv, [Next]_vars
  PROVE  IInv' /\ (control' = control \/ RegistryStep(control, control'))
<1>1. CASE UNCHANGED vars
  BY <1>1 DEF vars, IInv, TypeOK, ControlOK, Fences, Fresh, Retrieving, Answered, Holds
<1>2. CASE ExpireLease
  BY <1>2, ExpireKeeps DEF ExpireLease
<1>3. ASSUME NEW c \in Callers,
             \/ ClaimControl(c) \/ RetrieveLoad(c) \/ ApplyAny(c) \/ ReleaseControl(c)
             \/ RetrieveAnswer(c) \/ Deliver(c) \/ FailStatement(c) \/ Crash(c)
      PROVE  IInv' /\ control' = control
  <2>1. IInv'
    BY <1>3, ClaimKeeps, LoadKeeps, ApplyKeeps, ReleaseKeeps, AnswerKeeps, EndKeeps, FailKeeps
  <2>2. control' = control
    BY <1>3, ApplyIsStep
       DEF ClaimControl, RetrieveLoad, ReleaseControl, RetrieveAnswer, Deliver, FailStatement, Crash
  <2> QED
    BY <2>1, <2>2
<1>4. ASSUME NEW c \in Callers, SaveGuarded(c)
      PROVE  IInv' /\ (control' = control \/ RegistryStep(control, control'))
  BY <1>4, SaveKeeps
<1> QED
  BY <1>1, <1>2, <1>3, <1>4 DEF Next, Advance

\* The inductive invariant: calls have fences of their own, the call that holds the lease
\* works on the document as it is, and the document is a stack of promotions.
THEOREM InductiveInvariant == Spec => []IInv
<1>1. Init => IInv
  BY InitInv
<1>2. IInv /\ [Next]_vars => IInv'
  BY NextInv
<1> QED
  BY <1>1, <1>2, PTL DEF Spec

\* PolicyConsistent holds for any number of hosts, owner ids, experiments and requests:
\* with_control and memory.retrieve of package/mod.rs keep the policy in force that of
\* the last promotion not rolled back, and every answer under the labels of its settings.
THEOREM PolicyIsConsistent == Spec => []PolicyConsistent
<1>1. IInv => PolicyConsistent
  <2> SUFFICES ASSUME IInv PROVE PolicyConsistent
    OBVIOUS
  <2>1. TypeOK /\ PromotionsFormAStack
    BY StackShows DEF IInv
  <2>2. LabelsMatchSettings
    BY DEF IInv, Answered, Labelled, LabelsMatchSettings, ServedBy, Served
  <2> QED
    BY <2>1, <2>2 DEF PolicyConsistent
<1> QED
  BY <1>1, InductiveInvariant, PTL

\* The fenced read, change and write of with_control implement the registry: the document
\* changes only by one operation applied to the value it replaces.
THEOREM Refinement == Spec => ImplementsRegistry
<1>1. Init => RegistryInit
  BY DEF Init
<1>2. IInv /\ [Next]_vars => [RegistryNext]_control
  BY NextInv DEF RegistryStep, RegistryNext
<1> QED
  BY <1>1, <1>2, InductiveInvariant, PTL DEF Spec, ImplementsRegistry, RegistrySpec
=============================================================================
