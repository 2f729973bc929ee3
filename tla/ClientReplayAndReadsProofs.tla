--------------------- MODULE ClientReplayAndReadsProofs ---------------------
(***************************************************************************)
(* Proofs about ClientRuntime and the pool it uses, for any calls, hosts,  *)
(* limits and payload sizes: the capacity of a client is counted exactly,  *)
(* close reports drained only when nothing runs, and call_json implements  *)
(* CallContract.  Then, with the same lemmas about sums, proofs about      *)
(* ReplayGate, for any suites, answers, timings and thresholds: a measured *)
(* report is exact and the promotion gate is sound; and about MemoryReads, *)
(* for any memories, messages, policies, scores, budgets and requests:     *)
(* answers are true, one budget is shared, walks of pages are consistent   *)
(* and the graph shows what was contributed to it.                         *)
(***************************************************************************)
EXTENDS ClientRuntime, ReplayGate, MemoryReads, FiniteSetTheorems, FunctionTheorems, TLAPS

-----------------------------------------------------------------------------
(* Sums over finite sets: induction over the subsets of a finite set, from *)
(* the library's well-founded order, with the induction predicate given as *)
(* a set so that no operator has to be instantiated, and what a sum is,    *)
(* from the recursion that defines it.                                     *)

\* A family of subsets of a finite set has a minimal member.
LEMMA MinimalSubset ==
  ASSUME NEW S, IsFiniteSet(S), NEW B, B \subseteq SUBSET S, B # {}
  PROVE  \E T \in B : \A U \in B : ~(<<U, T>> \in StrictSubsetOrdering(S))
<1>1. FiniteSubsetsOf(S) = SUBSET S
  BY FS_FiniteSubsetsOfFinite, Zenon
<1>2. IsWellFoundedOn(StrictSubsetOrdering(S), FiniteSubsetsOf(S))
  BY FS_StrictSubsetOrderingWellFounded, Zenon
<1>3. IsWellFoundedOn(StrictSubsetOrdering(S), SUBSET S)
  BY <1>1, <1>2
<1> QED
  BY <1>3, WFMin, Zenon

\* Induction over the subsets of a finite set, with the induction predicate given
\* as the set of the subsets that satisfy it.
LEMMA SubsetInduction ==
  ASSUME NEW S, IsFiniteSet(S), NEW good,
         \A T \in SUBSET S : (\A U \in SUBSET T : U # T => U \in good) => T \in good
  PROVE  SUBSET S \subseteq good
<1> DEFINE bad == {T \in SUBSET S : T \notin good}
<1> SUFFICES ASSUME bad # {} PROVE FALSE
  OBVIOUS
<1>1. bad \subseteq SUBSET S
  OBVIOUS
<1>2. PICK T \in bad : \A U \in bad : ~(<<U, T>> \in StrictSubsetOrdering(S))
  <2> HIDE DEF bad
  <2> QED BY <1>1, MinimalSubset
<1>3. \A U \in SUBSET T : U # T => U \in good
  BY <1>2 DEF StrictSubsetOrdering
<1> QED
  BY <1>2, <1>3

Pick(s) == CHOOSE x \in s : TRUE

\* it satisfies the recursion of the sum on the subsets of S.
Sums(f, S, it) ==
  it = [s \in SUBSET S |-> IF s = {} THEN 0 ELSE f[Pick(s)] + it[s \ {Pick(s)}]]

\* The element the recursion takes is one of the set.
LEMMA PickIn == ASSUME NEW s, s # {} PROVE Pick(s) \in s
  BY DEF Pick

\* SumOver is a solution of the recursion, applied to its set.
LEMMA SumsUnfold ==
  ASSUME NEW f, NEW S
  PROVE  SumOver(f, S) = (CHOOSE it : Sums(f, S, it))[S]
  BY DEF SumOver, MapThenSumSet, MapThenFoldSet, Sums, Pick

\* What the recursion says of one subset.
LEMMA SumsAt ==
  ASSUME NEW f, NEW S, NEW it, Sums(f, S, it), NEW s \in SUBSET S
  PROVE  /\ s = {} => it[s] = 0
         /\ s # {} => it[s] = f[Pick(s)] + it[s \ {Pick(s)}]
  BY DEF Sums

\* Two solutions agree where both are defined.
LEMMA SumsUnique ==
  ASSUME NEW f, NEW A, NEW B, IsFiniteSet(A), NEW g, NEW h, Sums(f, A, g), Sums(f, B, h)
  PROVE  \A s \in SUBSET (A \cap B) : g[s] = h[s]
<1> DEFINE both == A \cap B
           good == {s \in SUBSET both : g[s] = h[s]}
<1>1. IsFiniteSet(both)
  BY FS_Intersection
<1>2. ASSUME NEW T \in SUBSET both, \A U \in SUBSET T : U # T => U \in good
      PROVE  T \in good
  <2>1. CASE T = {}
    BY <2>1, SumsAt
  <2>2. CASE T # {}
    <3>1. Pick(T) \in T
      BY <2>2, PickIn
    <3>2. T \ {Pick(T)} \in good
      BY <1>2, <3>1
    <3>3. g[T] = f[Pick(T)] + g[T \ {Pick(T)}] /\ h[T] = f[Pick(T)] + h[T \ {Pick(T)}]
      BY <2>2, SumsAt
    <3> QED
      BY <3>2, <3>3
  <2> QED
    BY <2>1, <2>2
<1>3. SUBSET both \subseteq good
  <2> HIDE DEF good, both
  <2> QED BY <1>1, <1>2, SubsetInduction
<1> QED
  BY <1>3

\* The recursion has a solution on every finite set.
LEMMA SumsExists ==
  ASSUME NEW f, NEW S, IsFiniteSet(S)
  PROVE  \E it : Sums(f, S, it)
<1> DEFINE good == {T \in SUBSET S : \E it : Sums(f, T, it)}
           It(T) == CHOOSE it : Sums(f, T, it)
<1>1. ASSUME NEW T \in SUBSET S, \A U \in SUBSET T : U # T => U \in good
      PROVE  T \in good
  <2> DEFINE rest == T \ {Pick(T)}
             at == [s \in SUBSET T |->
                      IF s = T THEN IF T = {} THEN 0 ELSE f[Pick(T)] + It(rest)[rest]
                      ELSE It(s)[s]]
  <2>1. \A U \in SUBSET T : U # T => Sums(f, U, It(U))
    BY <1>1
  <2> HIDE DEF It
  <2>2. ASSUME NEW s \in SUBSET T
        PROVE  at[s] = IF s = {} THEN 0 ELSE f[Pick(s)] + at[s \ {Pick(s)}]
    <3>1. CASE s = T
      <4>1. CASE T # {}
        <5>1. rest \in SUBSET T /\ rest # T
          BY <4>1, PickIn
        <5>2. at[T] = f[Pick(T)] + It(rest)[rest] /\ at[rest] = It(rest)[rest]
          BY <4>1, <5>1
        <5> QED
          BY <3>1, <4>1, <5>2
      <4> QED
        BY <3>1, <4>1
    <3>2. CASE s # T
      <4>1. at[s] = It(s)[s] /\ Sums(f, s, It(s))
        BY <2>1, <3>2
      <4>2. CASE s = {}
        BY <4>1, <4>2, SumsAt
      <4>3. CASE s # {}
        <5> DEFINE less == s \ {Pick(s)}
        <5>1. less \in SUBSET T /\ less # T /\ less \in SUBSET s
          BY <3>2, <4>3, PickIn
        <5>2. at[less] = It(less)[less] /\ Sums(f, less, It(less))
          BY <2>1, <5>1
        <5>3. at[s] = f[Pick(s)] + It(s)[less]
          BY <4>1, <4>3, SumsAt
        <5>4. IsFiniteSet(less)
          BY <5>1, FS_Subset
        <5>5. \A u \in SUBSET (less \cap s) : It(less)[u] = It(s)[u]
          <6>1. Sums(f, s, It(s)) /\ Sums(f, less, It(less))
            BY <4>1, <5>2
          <6> HIDE DEF less, at, rest, good
          <6>2. \A g, h : Sums(f, less, g) /\ Sums(f, s, h)
                  => \A u \in SUBSET (less \cap s) : g[u] = h[u]
            BY <5>4, SumsUnique
          <6> QED BY <6>1, <6>2
        <5> QED
          BY <4>3, <5>1, <5>2, <5>3, <5>5
      <4> QED
        BY <4>2, <4>3
    <3> QED
      BY <3>1, <3>2
  <2>3. at = [s \in SUBSET T |-> IF s = {} THEN 0 ELSE f[Pick(s)] + at[s \ {Pick(s)}]]
    BY <2>2
  <2>4. Sums(f, T, at)
    BY <2>3 DEF Sums
  <2> HIDE DEF at
  <2> QED
    BY <2>4
<1>2. SUBSET S \subseteq good
  <2> HIDE DEF good
  <2> QED BY <1>1, SubsetInduction
<1> QED
  BY <1>2

\* So the sum is the value of any solution.
LEMMA SumIs ==
  ASSUME NEW f, NEW S, IsFiniteSet(S), NEW T \in SUBSET S, NEW it, Sums(f, S, it)
  PROVE  SumOver(f, T) = it[T]
<1>1. IsFiniteSet(T)
  BY FS_Subset
<1>2. Sums(f, T, CHOOSE i : Sums(f, T, i))
  BY <1>1, SumsExists
<1>3. (CHOOSE i : Sums(f, T, i))[T] = it[T]
  BY <1>1, <1>2, SumsUnique
<1> QED
  BY <1>3, SumsUnfold

\* The empty sum.
LEMMA SumEmpty == ASSUME NEW f PROVE SumOver(f, {}) = 0
<1>1. IsFiniteSet({})
  BY FS_EmptySet
<1>2. PICK it : Sums(f, {}, it)
  BY <1>1, SumsExists
<1>3. it[{}] = 0
  BY <1>2, SumsAt
<1> QED
  BY <1>1, <1>2, <1>3, SumIs

\* A sum of naturals is a natural.
LEMMA SumNat ==
  ASSUME NEW f, NEW S, IsFiniteSet(S), \A x \in S : f[x] \in Nat
  PROVE  SumOver(f, S) \in Nat
<1>1. PICK it : Sums(f, S, it)
  BY SumsExists
<1> DEFINE good == {T \in SUBSET S : it[T] \in Nat}
<1>2. ASSUME NEW T \in SUBSET S, \A U \in SUBSET T : U # T => U \in good
      PROVE  T \in good
  <2>1. CASE T = {}
    <3>1. it[T] = 0
      BY <1>1, <2>1, SumsAt
    <3> QED
      BY <3>1
  <2>2. CASE T # {}
    <3>1. Pick(T) \in T
      BY <2>2, PickIn
    <3>2. it[T \ {Pick(T)}] \in Nat
      BY <1>2, <3>1
    <3>3. it[T] = f[Pick(T)] + it[T \ {Pick(T)}]
      BY <1>1, <2>2, SumsAt
    <3> QED
      BY <3>1, <3>2, <3>3
  <2> QED
    BY <2>1, <2>2
<1>3. SUBSET S \subseteq good
  <2> HIDE DEF good
  <2> QED BY <1>2, SubsetInduction
<1>4. SumOver(f, S) = it[S]
  BY <1>1, SumIs
<1> QED
  BY <1>3, <1>4

\* Any term can be taken out of a sum first.
LEMMA SumAdd ==
  ASSUME NEW f, NEW S, IsFiniteSet(S), \A y \in S : f[y] \in Nat, NEW x \in S
  PROVE  SumOver(f, S) = f[x] + SumOver(f, S \ {x})
<1>1. PICK it : Sums(f, S, it)
  BY SumsExists
<1>2. \A T \in SUBSET S : it[T] = SumOver(f, T) /\ it[T] \in Nat
  <2> SUFFICES ASSUME NEW T \in SUBSET S PROVE it[T] = SumOver(f, T) /\ it[T] \in Nat
    OBVIOUS
  <2>1. IsFiniteSet(T)
    BY FS_Subset
  <2> QED
    BY <1>1, <2>1, SumIs, SumNat
<1> DEFINE good == {T \in SUBSET S : \A y \in T : it[T] = f[y] + it[T \ {y}]}
<1>3. ASSUME NEW T \in SUBSET S, \A U \in SUBSET T : U # T => U \in good
      PROVE  T \in good
  <2> SUFFICES ASSUME NEW y \in T PROVE it[T] = f[y] + it[T \ {y}]
    OBVIOUS
  <2> DEFINE p == Pick(T)
             n == it[(T \ {p}) \ {y}]
  <2>1. p \in T
    BY PickIn
  <2>2. it[T] = f[p] + it[T \ {p}]
    BY <1>1, SumsAt
  <2> HIDE DEF p
  <2>3. CASE p = y
    BY <2>2, <2>3
  <2>4. CASE p # y
    <3>1. it[T \ {p}] = f[y] + n
      BY <1>3, <2>1, <2>4
    <3>2. (T \ {p}) \ {y} = (T \ {y}) \ {p}
      OBVIOUS
    <3>3. it[T \ {y}] = f[p] + n
      BY SMTT(15), ZenonT(30), <1>3, <2>1, <2>4, <3>2
    <3>4. n \in Nat /\ f[p] \in Nat /\ f[y] \in Nat
      BY <1>2, <2>1
    <3> HIDE DEF n
    <3> QED
      BY <2>2, <3>1, <3>3, <3>4
  <2> QED
    BY <2>3, <2>4
<1>4. SUBSET S \subseteq good
  <2> HIDE DEF good
  <2> QED BY <1>3, SubsetInduction
<1> QED
  BY <1>2, <1>4

\* The sum depends on the terms only.
LEMMA SumSame ==
  ASSUME NEW f, NEW g, NEW S, IsFiniteSet(S), \A x \in S : f[x] = g[x]
  PROVE  SumOver(f, S) = SumOver(g, S)
<1>1. PICK it : Sums(f, S, it)
  BY SumsExists
<1>2. \A s \in SUBSET S : s # {} => f[Pick(s)] = g[Pick(s)]
  BY PickIn
<1>3. Sums(g, S, it)
  BY <1>1, <1>2 DEF Sums
<1> QED
  BY <1>1, <1>3, SumIs

-----------------------------------------------------------------------------
(* The inductive invariant.                                                *)

\* What the guard, the task and the answer of a call may be at each control point.
Shape(state, t) ==
  /\ state.pc # "done" => state.told = "nothing"
  /\ state.pc \in {"new", "count", "bytes", "queued", "leaving", "vanishing"} => t = "none"
  /\ state.pc = "executing" => t # "none"
  /\ state.pc \in {"new", "count"} => state.guard = "none"
  /\ state.pc = "bytes" => state.guard = "count"
  /\ state.pc = "queued" => state.guard = "both"
  /\ state.pc \in {"leaving", "vanishing"} => state.guard \in {"both", "bytes"}
  /\ state.pc = "done" /\ t = "none" => state.guard = "none"
  /\ t \in {"running", "stuck"} => state.guard = "both"
  /\ t \in {"answered", "panicked"} => state.guard # "count"
  /\ t \in {"over", "failed"} => state.guard = "none"

Control == \A c \in Calls : Shape(call[c], task[c])

\* Only a thread with work left uses the pool.
PoolInUse == \A t \in Threads : conn[t] # "none" => Busy(t) /\ left[t] > 0

PoolInv == PoolTypeOK /\ ConnectionsBounded /\ NoLostWakeup

IInv == TypeOK /\ Control /\ PoolInUse /\ PoolInv /\ AdmissionExact

-----------------------------------------------------------------------------
(* The pool.                                                               *)

\* One element more, one element less.
LEMMA CardAdd ==
  ASSUME NEW S, NEW T, NEW x, IsFiniteSet(S), x \notin S, T = S \cup {x}
  PROVE  Cardinality(T) = Cardinality(S) + 1 /\ Cardinality(S) \in Nat
  BY FS_AddElement, FS_CardinalityType

\* Taking one member away leaves one fewer.
LEMMA CardRemove ==
  ASSUME NEW S, NEW T, NEW x, IsFiniteSet(S), x \in S, T = S \ {x}
  PROVE  Cardinality(T) = Cardinality(S) - 1 /\ Cardinality(S) \in Nat /\ Cardinality(T) \in Nat
<1>1. IsFiniteSet(T) /\ Cardinality(T) = Cardinality(S) - 1
  BY FS_RemoveElement
<1> QED
  BY <1>1, FS_CardinalityType

Used == {t \in Threads : conn[t] \in {"connecting", "held"}}
Notified == {t \in Threads : conn[t] = "notified"}
Waiting == {t \in Threads : conn[t] = "waiting"}

\* The threads of the pool are finitely many, counted by where they stand.
LEMMA PoolSets ==
  /\ IsFiniteSet(Used) /\ IsFiniteSet(Notified)
  /\ Cardinality(Used) \in Nat /\ Cardinality(Notified) \in Nat
  /\ In("connecting") \cup In("held") = Used /\ In("notified") = Notified
  /\ In("waiting") = Waiting
<1>1. Used \in SUBSET Threads /\ Notified \in SUBSET Threads
  BY DEF Used, Notified
<1>2. IsFiniteSet(Used) /\ IsFiniteSet(Notified)
  BY <1>1, FS_Subset, PoolAssumption
<1>3. Cardinality(Used) \in Nat /\ Cardinality(Notified) \in Nat
  BY <1>2, FS_CardinalityType
<1> QED
  BY <1>2, <1>3 DEF Used, Notified, Waiting, In

\* The invariant of the pool in terms of these sets.
LEMMA PoolInvIs ==
  PoolInv <=> /\ PoolTypeOK
              /\ active = Cardinality(Used) /\ active + Len(idle) <= MaxForeground
              /\ Waiting # {} => active + Cardinality(Notified) >= MaxForeground
  BY PoolSets DEF PoolInv, ConnectionsBounded, NoLostWakeup

\* The same after a step.
LEMMA PoolSetsNext ==
  /\ IsFiniteSet(Used') /\ IsFiniteSet(Notified')
  /\ Cardinality(Used') \in Nat /\ Cardinality(Notified') \in Nat
<1>1. Used' \in SUBSET Threads /\ Notified' \in SUBSET Threads
  BY DEF Used, Notified
<1>2. IsFiniteSet(Used') /\ IsFiniteSet(Notified')
  BY <1>1, FS_Subset, PoolAssumption
<1> QED
  BY <1>2, FS_CardinalityType

\* What a step has to show of the pool, in counts.
LEMMA PoolInvNext ==
  ASSUME PoolTypeOK', active' = Cardinality(Used'), active' + Len(idle') <= MaxForeground,
         Waiting' # {} => active' + Cardinality(Notified') >= MaxForeground
  PROVE  PoolInv'
<1>1. /\ In("connecting")' \cup In("held")' = Used' /\ In("notified")' = Notified'
      /\ In("waiting")' = Waiting'
  BY DEF In, Used, Notified, Waiting
<1> QED
  BY <1>1 DEF PoolInv, ConnectionsBounded, NoLostWakeup

\* A thread below the limit takes a slot.
LEMMA AdmitKeeps ==
  ASSUME PoolInv, NEW t \in Threads, Admit(t)
  PROVE  PoolInv'
<1>1. /\ conn \in [Threads -> ConnStates] /\ conn' \in [Threads -> ConnStates]
      /\ conn'[t] \in {"connecting", "held"} /\ conn[t] \in {"none", "notified"}
      /\ \A u \in Threads : u # t => conn'[u] = conn[u]
      /\ active \in Nat /\ active' = active + 1 /\ active < MaxForeground
      /\ idle \in Seq(BOOLEAN)
  BY PoolAssumption DEF PoolInv, PoolTypeOK, Admit, Looking, ConnStates
<1>2. /\ idle' \in Seq(BOOLEAN)
      /\ idle = <<>> => Len(idle') = 0
      /\ idle # <<>> => Len(idle') = Len(idle) - 1
  BY <1>1 DEF Admit
<1>3. Used' = Used \cup {t} /\ t \notin Used /\ Waiting' = Waiting
  BY <1>1 DEF Used, Waiting
<1>4. Cardinality(Used') = active + 1
  BY <1>3, CardAdd, PoolSets, PoolInvIs
<1>5. Cardinality(Notified') >= Cardinality(Notified) - 1
  <2>1. CASE t \in Notified
    <3>1. Notified' = Notified \ {t}
      BY <1>1, <2>1 DEF Notified
    <3> QED
      BY <2>1, <3>1, CardRemove, PoolSets
  <2>2. CASE t \notin Notified
    <3>1. Notified' = Notified
      BY <1>1, <2>2 DEF Notified
    <3> QED
      BY <3>1, PoolSets
  <2> QED
    BY <2>1, <2>2
<1>6. active' + Len(idle') <= MaxForeground
  BY <1>1, <1>2, PoolInvIs, PoolAssumption
<1>7. Waiting' # {} => active' + Cardinality(Notified') >= MaxForeground
  BY <1>1, <1>3, <1>5, PoolInvIs, PoolSets, PoolSetsNext, PoolAssumption
<1>8. PoolTypeOK'
  BY <1>1, <1>2, PoolAssumption DEF PoolTypeOK
<1> QED
  BY <1>1, <1>4, <1>6, <1>7, <1>8, PoolInvNext

\* A thread at the limit waits; no slot is free.
LEMMA WaitKeeps ==
  ASSUME PoolInv, NEW t \in Threads, Wait(t)
  PROVE  PoolInv'
<1>1. /\ conn \in [Threads -> ConnStates] /\ conn' \in [Threads -> ConnStates]
      /\ conn'[t] = "waiting" /\ conn[t] \in {"none", "notified"}
      /\ \A u \in Threads : u # t => conn'[u] = conn[u]
      /\ active \in Nat /\ active' = active /\ active >= MaxForeground /\ idle' = idle
      /\ PoolTypeOK
  BY PoolAssumption DEF PoolInv, PoolTypeOK, Wait, Looking, ConnStates
<1>2. Used' = Used
  BY <1>1 DEF Used
<1>3. PoolTypeOK'
  BY <1>1 DEF PoolTypeOK
<1> QED
  BY <1>1, <1>2, <1>3, PoolInvIs, PoolInvNext, PoolSetsNext, PoolAssumption

LEMMA ConnectedKeeps ==
  ASSUME PoolInv, NEW t \in Threads, Connected(t)
  PROVE  PoolInv'
<1>1. /\ conn \in [Threads -> ConnStates] /\ conn' \in [Threads -> ConnStates]
      /\ conn'[t] = "held" /\ conn[t] = "connecting"
      /\ \A u \in Threads : u # t => conn'[u] = conn[u]
      /\ active' = active /\ idle' = idle /\ PoolTypeOK
  BY DEF PoolInv, PoolTypeOK, Connected, ConnStates
<1>2. Used' = Used /\ Notified' = Notified /\ Waiting' = Waiting
  BY <1>1 DEF Used, Notified, Waiting
<1>3. PoolTypeOK'
  BY <1>1 DEF PoolTypeOK
<1> QED
  BY <1>1, <1>2, <1>3, PoolInvIs, PoolInvNext

\* What GiveUp does: the thread leaves and, when threads wait, one of them is notified.
LEMMA GiveUpFacts ==
  ASSUME PoolTypeOK, NEW t \in Threads, conn[t] \in {"connecting", "held"}, GiveUp(t)
  PROVE  /\ conn' \in [Threads -> ConnStates] /\ conn'[t] = "none"
         /\ \A u \in Threads : u # t =>
              conn'[u] = conn[u] \/ (conn[u] = "waiting" /\ conn'[u] = "notified")
         /\ Used' = Used \ {t} /\ t \in Used
         /\ \/ Waiting' = {} /\ Notified' = Notified
            \/ \E w \in Waiting : Notified' = Notified \cup {w} /\ w \notin Notified
<1>1. conn \in [Threads -> ConnStates]
  BY DEF PoolTypeOK
<1>2. CASE Waiting = {}
  <2>1. conn' = [conn EXCEPT ![t] = "none"]
    BY <1>2, PoolSets DEF GiveUp
  <2> QED
    BY <1>1, <1>2, <2>1 DEF Used, Notified, Waiting, ConnStates
<1>3. CASE Waiting # {}
  <2>1. PICK w \in Waiting : conn' = [conn EXCEPT ![t] = "none", ![w] = "notified"]
    BY <1>3, PoolSets DEF GiveUp
  <2>2. w \in Threads /\ w # t /\ conn[w] = "waiting"
    BY <2>1 DEF Waiting
  <2>3. /\ conn' \in [Threads -> ConnStates] /\ conn'[t] = "none" /\ conn'[w] = "notified"
        /\ \A u \in Threads : u # t /\ u # w => conn'[u] = conn[u]
    BY <1>1, <2>1, <2>2 DEF ConnStates
  <2>4. Used' = Used \ {t} /\ t \in Used /\ Notified' = Notified \cup {w} /\ w \notin Notified
    BY <2>2, <2>3 DEF Used, Notified
  <2> QED
    BY <2>1, <2>2, <2>3, <2>4
<1> QED
  BY <1>2, <1>3

\* A slot is given back; the idle stack may have grown by the connection.
LEMMA GiveUpKeeps ==
  ASSUME PoolInv, NEW t \in Threads, conn[t] \in {"connecting", "held"}, GiveUp(t),
         active' = active - 1, idle' \in Seq(BOOLEAN), Len(idle') <= Len(idle) + 1
  PROVE  PoolInv'
<1>1. PoolTypeOK /\ active \in Nat /\ idle \in Seq(BOOLEAN) /\ active <= MaxForeground
  BY PoolAssumption DEF PoolInv, PoolTypeOK
<1>2. Cardinality(Used') = active - 1 /\ active - 1 \in Nat
  <2>1. Used' = Used \ {t} /\ t \in Used
    BY <1>1, GiveUpFacts
  <2>2. IsFiniteSet(Used) /\ active = Cardinality(Used)
    BY PoolSets, PoolInvIs
  <2> QED
    BY <2>1, <2>2, CardRemove
<1>3. Waiting' # {} => active' + Cardinality(Notified') >= MaxForeground
  <2> SUFFICES ASSUME Waiting' # {} PROVE active' + Cardinality(Notified') >= MaxForeground
    OBVIOUS
  <2>1. PICK w \in Waiting : Notified' = Notified \cup {w} /\ w \notin Notified
    BY <1>1, GiveUpFacts
  <2>2. Cardinality(Notified') = Cardinality(Notified) + 1
    BY <2>1, CardAdd, PoolSets
  <2>3. active + Cardinality(Notified) >= MaxForeground
    BY <2>1, PoolInvIs
  <2> QED
    BY <1>1, <2>2, <2>3, PoolSets, PoolAssumption
<1>4. active' + Len(idle') <= MaxForeground
  BY <1>1, <1>2, PoolInvIs, PoolAssumption
<1>5. PoolTypeOK'
  BY <1>1, <1>2, GiveUpFacts, PoolAssumption DEF PoolTypeOK
<1> QED
  BY <1>2, <1>3, <1>4, <1>5, PoolInvNext

LEMMA ConnectFailsKeeps ==
  ASSUME PoolInv, NEW t \in Threads, ConnectFails(t)
  PROVE  PoolInv'
<1>1. idle' \in Seq(BOOLEAN) /\ Len(idle') <= Len(idle) + 1
  BY DEF ConnectFails, PoolInv, PoolTypeOK
<1> QED
  BY <1>1, GiveUpKeeps DEF ConnectFails

LEMMA ReturnKeeps ==
  ASSUME PoolInv, NEW t \in Threads, NEW open \in BOOLEAN, Return(t, open)
  PROVE  PoolInv'
<1>1. idle \in Seq(BOOLEAN) /\ idle' = Returned(open)
  BY DEF Return, PoolInv, PoolTypeOK
<1>2. /\ Append(idle, TRUE) \in Seq(BOOLEAN) /\ Len(Append(idle, TRUE)) <= Len(idle) + 1
      /\ Len(idle) \in Nat
  BY <1>1
<1>3. idle' = Append(idle, TRUE) \/ idle' = idle
  BY <1>1 DEF Returned
<1>4. idle' \in Seq(BOOLEAN) /\ Len(idle') <= Len(idle) + 1
  <2>1. CASE idle' = idle
    BY <1>1, <1>2, <2>1
  <2>2. CASE idle' = Append(idle, TRUE)
    BY <1>2, <2>2, Zenon
  <2> QED
    BY <1>3, <2>1, <2>2
<1> QED
  BY <1>4, GiveUpKeeps DEF Return

LEMMA WhimKeeps ==
  ASSUME PoolInv, ServerCloses \/ \E t \in Threads : SpuriousWake(t)
  PROVE  PoolInv'
<1>1. CASE ServerCloses
  <2>1. /\ idle \in Seq(BOOLEAN) /\ idle' \in Seq(BOOLEAN) /\ Len(idle') = Len(idle)
        /\ active' = active /\ conn' = conn /\ PoolTypeOK
    BY <1>1 DEF ServerCloses, PoolInv, PoolTypeOK
  <2>2. PoolTypeOK' /\ Used' = Used /\ Notified' = Notified /\ Waiting' = Waiting
    BY <2>1 DEF PoolTypeOK, Used, Notified, Waiting
  <2> QED
    BY <2>1, <2>2, PoolInvIs, PoolInvNext
<1>2. ASSUME NEW t \in Threads, SpuriousWake(t) PROVE PoolInv'
  <2>1. /\ conn \in [Threads -> ConnStates] /\ conn' \in [Threads -> ConnStates]
        /\ conn'[t] = "notified" /\ conn[t] = "waiting"
        /\ \A u \in Threads : u # t => conn'[u] = conn[u]
        /\ active' = active /\ idle' = idle /\ PoolTypeOK /\ active \in Nat
    BY <1>2, PoolAssumption DEF PoolInv, PoolTypeOK, SpuriousWake, ConnStates
  <2>2. Used' = Used /\ Notified' = Notified \cup {t} /\ t \notin Notified /\ Waiting # {}
    BY <2>1 DEF Used, Notified, Waiting
  <2>3. Cardinality(Notified') = Cardinality(Notified) + 1
    BY <2>2, CardAdd, PoolSets
  <2>4. PoolTypeOK'
    BY <2>1 DEF PoolTypeOK
  <2> QED
    BY <2>1, <2>2, <2>3, <2>4, PoolInvIs, PoolInvNext, PoolSets, PoolAssumption
<1> QED
  BY <1>1, <1>2

\* A step outside the pool keeps its invariant.
LEMMA PoolSame ==
  ASSUME PoolInv, UNCHANGED pool
  PROVE  PoolInv'
  BY DEF pool, PoolInv, PoolTypeOK, ConnectionsBounded, NoLostWakeup, In

-----------------------------------------------------------------------------
(* Admission.                                                              *)

Counted == {c \in Calls : call[c].guard \in {"count", "both"}}
Weighed == {c \in Calls : call[c].guard \in {"both", "bytes"}}
Flying == {c \in Calls : task[c] \in {"stuck", "running", "answered", "panicked"}}
SizeOf == [c \in Calls |-> call[c].size]

\* Every set of calls is finite.
LEMMA CallSets == ASSUME NEW S, S \subseteq Calls PROVE IsFiniteSet(S) /\ Cardinality(S) \in Nat
<1>1. S \in SUBSET Threads
  BY ClientAssumption
<1>2. IsFiniteSet(S)
  BY <1>1, FS_Subset, PoolAssumption
<1> QED
  BY <1>2, FS_CardinalityType

\* AdmissionExact in terms of these sets, before and after a step.
LEMMA AdmissionIs ==
  AdmissionExact <=>
    /\ count = Cardinality(Counted) /\ count <= limit.pending
    /\ bytes = SumOver(SizeOf, Weighed) /\ bytes <= limit.bytes
    /\ permits + Cardinality(Flying) = limit.inflight
<1>1. /\ Holding({"count", "both"}) = Counted /\ Holding({"both", "bytes"}) = Weighed
      /\ InFlight = Flying
  BY DEF Holding, InFlight, Stuck, Counted, Weighed, Flying
<1> QED
  BY <1>1 DEF AdmissionExact, SizeOf

\* What a step has to show of the admission counters.
LEMMA AdmissionNext ==
  ASSUME count' = Cardinality(Counted'), count' <= limit'.pending,
         bytes' = SumOver(SizeOf', Weighed'), bytes' <= limit'.bytes,
         permits' + Cardinality(Flying') = limit'.inflight
  PROVE  AdmissionExact'
<1>1. /\ Holding({"count", "both"})' = Counted' /\ Holding({"both", "bytes"})' = Weighed'
      /\ InFlight' = Flying'
  BY DEF Holding, InFlight, Stuck, Counted, Weighed, Flying
<1> QED
  BY <1>1 DEF AdmissionExact, SizeOf

\* What one call holds of the count, the bytes and the permits.
CountOf(state) == IF state.guard \in {"count", "both"} THEN 1 ELSE 0
BytesOf(state) == IF state.guard \in {"both", "bytes"} THEN state.size ELSE 0
PermitOf(t) == IF t \in {"stuck", "running", "answered", "panicked"} THEN 1 ELSE 0

Typed == call \in [Calls -> CallState] /\ task \in [Calls -> TaskStates]

\* A payload is a number of bytes.
LEMMA SizeNat == ASSUME NEW state \in CallState PROVE state.size \in Nat
<1>1. state.size \in Sizes \cup {0}
  BY DEF CallState
<1>2. \A x \in Sizes : x \in Nat
  BY ClientAssumption
<1> QED
  BY <1>1, <1>2

\* The bytes a call holds are a natural number.
LEMMA BytesNat == ASSUME NEW state \in CallState PROVE BytesOf(state) \in Nat
  BY SizeNat DEF BytesOf

\* A step of one call and its task.
Alone(c) ==
  /\ Typed /\ Typed'
  /\ \A d \in Calls : d # c => call'[d] = call[d] /\ task'[d] = task[d]

\* A step of one call changes the number of counted calls by what that call adds or
\* drops.
LEMMA CountStep ==
  ASSUME NEW c \in Calls, Alone(c)
  PROVE  Cardinality(Counted') + CountOf(call[c]) = Cardinality(Counted) + CountOf(call'[c])
<1>1. Counted \subseteq Calls /\ Counted' \subseteq Calls
  BY DEF Counted
<1>2. CASE c \in Counted /\ c \notin Counted'
  <2>1. Counted' = Counted \ {c}
    BY <1>2 DEF Counted, Alone
  <2>2. CountOf(call[c]) = 1 /\ CountOf(call'[c]) = 0
    BY <1>2 DEF Counted, CountOf
  <2> QED
    BY <1>1, <1>2, <2>1, <2>2, CallSets, CardRemove
<1>3. CASE c \notin Counted /\ c \in Counted'
  <2>1. Counted' = Counted \cup {c}
    BY <1>3 DEF Counted, Alone
  <2>2. CountOf(call[c]) = 0 /\ CountOf(call'[c]) = 1
    BY <1>3 DEF Counted, CountOf
  <2> QED
    BY <1>1, <1>3, <2>1, <2>2, CallSets, CardAdd
<1>4. CASE c \in Counted <=> c \in Counted'
  <2>1. Counted' = Counted
    BY <1>4 DEF Counted, Alone
  <2>2. CountOf(call[c]) = CountOf(call'[c])
    BY <1>4 DEF Counted, CountOf
  <2> QED
    BY <2>1, <2>2
<1> QED
  BY <1>2, <1>3, <1>4

\* A step of one call changes the number of tasks with a permit by its own.
LEMMA PermitStep ==
  ASSUME NEW c \in Calls, Alone(c)
  PROVE  Cardinality(Flying') + PermitOf(task[c]) = Cardinality(Flying) + PermitOf(task'[c])
<1>1. Flying \subseteq Calls /\ Flying' \subseteq Calls
  BY DEF Flying
<1>2. CASE c \in Flying /\ c \notin Flying'
  <2>1. Flying' = Flying \ {c}
    BY <1>2 DEF Flying, Alone
  <2>2. PermitOf(task[c]) = 1 /\ PermitOf(task'[c]) = 0
    BY <1>2 DEF Flying, PermitOf
  <2> QED
    BY <1>1, <1>2, <2>1, <2>2, CallSets, CardRemove
<1>3. CASE c \notin Flying /\ c \in Flying'
  <2>1. Flying' = Flying \cup {c}
    BY <1>3 DEF Flying, Alone
  <2>2. PermitOf(task[c]) = 0 /\ PermitOf(task'[c]) = 1
    BY <1>3 DEF Flying, PermitOf
  <2> QED
    BY <1>1, <1>3, <2>1, <2>2, CallSets, CardAdd
<1>4. CASE c \in Flying <=> c \in Flying'
  <2>1. Flying' = Flying
    BY <1>4 DEF Flying, Alone
  <2>2. PermitOf(task[c]) = PermitOf(task'[c])
    BY <1>4 DEF Flying, PermitOf
  <2> QED
    BY <2>1, <2>2
<1> QED
  BY <1>2, <1>3, <1>4

\* The payload of a call does not change while its bytes are reserved.
LEMMA BytesStep ==
  ASSUME NEW c \in Calls, Alone(c),
         c \in Weighed /\ c \in Weighed' => call'[c].size = call[c].size
  PROVE  SumOver(SizeOf', Weighed') + BytesOf(call[c]) = SumOver(SizeOf, Weighed) + BytesOf(call'[c])
<1> DEFINE rest == Weighed \ {c}
<1>1. IsFiniteSet(Weighed) /\ IsFiniteSet(Weighed') /\ IsFiniteSet(rest)
  <2>1. Weighed \subseteq Calls /\ Weighed' \subseteq Calls /\ rest \subseteq Calls
    BY DEF Weighed
  <2> QED
    BY <2>1, CallSets
<1>2. /\ \A d \in Weighed : SizeOf[d] \in Nat
      /\ \A d \in Weighed' : SizeOf'[d] \in Nat
  BY SizeNat DEF Weighed, SizeOf, Alone, Typed
<1>3. rest = Weighed' \ {c}
  BY DEF Weighed, Alone
<1>4. SumOver(SizeOf, rest) = SumOver(SizeOf', rest)
  <2>1. \A d \in rest : SizeOf[d] = SizeOf'[d]
    BY DEF Weighed, SizeOf, Alone
  <2> QED
    BY <1>1, <2>1, SumSame
<1>5. SumOver(SizeOf, rest) \in Nat
  <2>1. \A d \in rest : SizeOf[d] \in Nat
    BY <1>2
  <2> QED
    BY <1>1, <2>1, SumNat
<1>6. SumOver(SizeOf, Weighed) = BytesOf(call[c]) + SumOver(SizeOf, rest)
  <2>1. CASE c \in Weighed
    <3>1. SumOver(SizeOf, Weighed) = SizeOf[c] + SumOver(SizeOf, rest)
      BY <1>1, <1>2, <2>1, SumAdd
    <3>2. SizeOf[c] = BytesOf(call[c])
      BY <2>1 DEF Weighed, SizeOf, BytesOf
    <3> QED
      BY <3>1, <3>2
  <2>2. CASE c \notin Weighed
    <3>1. rest = Weighed /\ BytesOf(call[c]) = 0
      BY <2>2 DEF Weighed, BytesOf
    <3> QED
      BY <1>5, <3>1
  <2> QED
    BY <2>1, <2>2
<1>7. SumOver(SizeOf', Weighed') = BytesOf(call'[c]) + SumOver(SizeOf', rest)
  <2>1. CASE c \in Weighed'
    <3>1. SumOver(SizeOf', Weighed') = SizeOf'[c] + SumOver(SizeOf', rest)
      BY <1>1, <1>2, <1>3, <2>1, SumAdd
    <3>2. SizeOf'[c] = BytesOf(call'[c])
      BY <2>1 DEF Weighed, SizeOf, BytesOf
    <3> QED
      BY <3>1, <3>2
  <2>2. CASE c \notin Weighed'
    <3>1. rest = Weighed' /\ BytesOf(call'[c]) = 0
      BY <1>3, <2>2 DEF Weighed, BytesOf
    <3> QED
      BY <1>4, <1>5, <3>1
  <2> QED
    BY <2>1, <2>2
<1>8. BytesOf(call[c]) \in Nat /\ BytesOf(call'[c]) \in Nat
  BY BytesNat DEF Alone, Typed
<1> QED
  BY <1>4, <1>5, <1>6, <1>7, <1>8

\* The counters follow what one call takes or gives back.
LEMMA OneCall ==
  ASSUME AdmissionExact, Control, NEW c \in Calls, Alone(c), Shape(call'[c], task'[c]),
         limit \in Limits, limit' = limit,
         count' \in Nat, bytes' \in Nat, permits' \in Nat, permits \in Nat,
         c \in Weighed /\ c \in Weighed' => call'[c].size = call[c].size,
         count' + CountOf(call[c]) = count + CountOf(call'[c]), count' <= limit.pending,
         bytes' + BytesOf(call[c]) = bytes + BytesOf(call'[c]), bytes' <= limit.bytes,
         permits' + PermitOf(task'[c]) = permits + PermitOf(task[c])
  PROVE  Control' /\ AdmissionExact'
<1>1. Control'
  BY DEF Control, Alone
<1>2. Counted \subseteq Calls /\ Counted' \subseteq Calls /\ Flying \subseteq Calls
      /\ Flying' \subseteq Calls /\ Weighed \subseteq Calls /\ Weighed' \subseteq Calls
  BY DEF Counted, Flying, Weighed
<1>3. /\ Cardinality(Counted) \in Nat /\ Cardinality(Counted') \in Nat
      /\ Cardinality(Flying) \in Nat /\ Cardinality(Flying') \in Nat
      /\ IsFiniteSet(Weighed) /\ IsFiniteSet(Weighed')
  BY <1>2, CallSets
<1>4. SumOver(SizeOf, Weighed) \in Nat /\ SumOver(SizeOf', Weighed') \in Nat
  <2>1. /\ \A d \in Weighed : SizeOf[d] \in Nat
        /\ \A d \in Weighed' : SizeOf'[d] \in Nat
    BY SizeNat DEF Weighed, SizeOf, Alone, Typed
  <2> QED
    BY <1>3, <2>1, SumNat
<1>5. /\ CountOf(call[c]) \in Nat /\ CountOf(call'[c]) \in Nat
      /\ PermitOf(task[c]) \in Nat /\ PermitOf(task'[c]) \in Nat
      /\ BytesOf(call[c]) \in Nat /\ BytesOf(call'[c]) \in Nat
  BY BytesNat DEF CountOf, PermitOf, Alone, Typed
<1>6. limit.inflight \in Nat
  BY ClientAssumption
<1>7. count' = Cardinality(Counted')
  BY <1>3, <1>5, CountStep, AdmissionIs
<1>8. bytes' = SumOver(SizeOf', Weighed')
  BY <1>4, <1>5, BytesStep, AdmissionIs
<1>9. permits' + Cardinality(Flying') = limit'.inflight
  BY <1>3, <1>5, <1>6, PermitStep, AdmissionIs
<1> QED
  BY <1>1, <1>7, <1>8, <1>9, AdmissionNext

-----------------------------------------------------------------------------
(* The steps of a call and of its task.                                    *)

\* What they leave alone.
Others == UNCHANGED <<pool, limit, closed, token, closer, hosting>>

\* What a call takes or gives back, and that it stays within the limits.
Balanced(c) ==
  /\ count' \in Nat /\ bytes' \in Nat /\ permits' \in Nat
  /\ count' + CountOf(call[c]) = count + CountOf(call'[c]) /\ count' <= limit.pending
  /\ bytes' + BytesOf(call[c]) = bytes + BytesOf(call'[c]) /\ bytes' <= limit.bytes
  /\ permits' + PermitOf(task'[c]) = permits + PermitOf(task[c])

LEMMA CallKeeps ==
  ASSUME IInv, NEW c \in Calls, Alone(c), Others, Balanced(c), Shape(call'[c], task'[c]),
         c \in Weighed /\ c \in Weighed' => call'[c].size = call[c].size,
         left' \in [Threads -> 0 .. MaxTx],
         \/ task' = task /\ left' = left
         \/ conn[c] = "none" /\ \A t \in Threads : t # c => left'[t] = left[t]
  PROVE  IInv'
<1>1. TypeOK /\ limit \in Limits /\ limit' = limit /\ permits \in Nat
  BY DEF IInv, TypeOK, Others
<1>2. Control' /\ AdmissionExact'
  BY <1>1, OneCall DEF IInv, Balanced
<1>3. PoolInv'
  BY PoolSame DEF IInv, Others
<1>4. TypeOK'
  BY <1>1, <1>3 DEF TypeOK, PoolInv, Others, Balanced, Alone, Typed, hosting
<1>5. PoolInUse'
  <2> SUFFICES ASSUME NEW t \in Threads, conn'[t] # "none" PROVE Busy(t)' /\ left'[t] > 0
    BY DEF PoolInUse
  <2>1. conn' = conn /\ host' = host
    BY DEF Others, pool, hosting
  <2>2. Busy(t) /\ left[t] > 0
    BY <2>1 DEF IInv, PoolInUse
  <2>3. t = c => task' = task /\ left' = left
    BY <2>1
  <2>4. left'[t] = left[t]
    BY <2>3
  <2>5. t \in Calls => task'[t] = task[t]
    BY <2>3 DEF Alone
  <2> QED
    BY <2>1, <2>2, <2>4, <2>5 DEF Busy
<1> QED
  BY <1>2, <1>3, <1>4, <1>5 DEF IInv

\* What the invariant says of one call.
LEMMA CallFacts ==
  ASSUME IInv, NEW c \in Calls
  PROVE  /\ call \in [Calls -> CallState] /\ task \in [Calls -> TaskStates]
         /\ left \in [Threads -> 0 .. MaxTx] /\ c \in Threads
         /\ call[c] \in CallState /\ task[c] \in TaskStates /\ Shape(call[c], task[c])
         /\ count \in Nat /\ bytes \in Nat /\ permits \in Nat
         /\ limit.pending \in Nat /\ limit.bytes \in Nat /\ limit.inflight \in Nat
         /\ count <= limit.pending /\ bytes <= limit.bytes
         /\ call[c].size \in Nat /\ call[c].seen \in Nat /\ MaxTx \in Nat
<1>1. /\ TypeOK /\ Control /\ AdmissionExact
  BY DEF IInv
<1>2. call[c] \in CallState
  BY <1>1 DEF TypeOK
<1>3. limit \in [pending: Nat, inflight: Nat \ {0}, bytes: Nat, parties: SUBSET Threads]
  BY <1>1, ClientAssumption DEF TypeOK
<1>4. call[c].seen \in Nat
  BY <1>2 DEF CallState
<1> QED
  BY <1>1, <1>2, <1>3, <1>4, SizeNat, ClientAssumption DEF TypeOK, Control, AdmissionExact

Tellings == {"nothing", "answer", "not_started", "outcome_unknown"}

\* The last step of a call.
LEMMA FinishedFacts ==
  ASSUME NEW state \in CallState, NEW told \in Tellings
  PROVE  LET r == Finished(state, told)
         IN  /\ r \in CallState /\ r.pc = "done" /\ r.told = told
             /\ r.guard = state.guard /\ r.size = state.size
  BY DEF Finished, CallState, Tellings

LEMMA CallBeginKeeps ==
  ASSUME IInv, NEW c \in Calls, NEW size \in Sizes, CallBegin(c, size)
  PROVE  IInv'
<1> USE CallFacts
<1>1. /\ call[c].pc = "new" /\ call[c].guard = "none" /\ task[c] = "none"
      /\ call[c].told = "nothing"
  BY DEF CallBegin, Shape
<1>2. /\ call'[c] \in CallState /\ Shape(call'[c], task[c]) /\ call'[c].guard = "none"
      /\ call' \in [Calls -> CallState]
      /\ \A d \in Calls : d # c => call'[d] = call[d]
  <2>1. call' = [call EXCEPT ![c] = call'[c]]
    BY DEF CallBegin
  <2>2. CASE closed \/ size > MaxPayload
    <3>1. call'[c] = Finished(call[c], "not_started")
      BY <2>2 DEF CallBegin
    <3>2. call'[c] \in CallState /\ call'[c].pc = "done" /\ call'[c].guard = "none"
      BY <1>1, <3>1, FinishedFacts DEF Tellings
    <3>3. Shape(call'[c], task[c])
      BY <1>1, <3>2 DEF Shape
    <3> QED
      BY <2>1, <3>2, <3>3
  <2>3. CASE ~(closed \/ size > MaxPayload)
    <3>1. call'[c] = [call[c] EXCEPT !.pc = "count", !.size = size, !.seen = count]
      BY <2>3 DEF CallBegin
    <3>2. call'[c] \in CallState
      BY <3>1 DEF CallState
    <3>3. /\ call'[c].pc = "count" /\ call'[c].guard = "none" /\ call'[c].told = "nothing"
      BY <1>1, <3>1 DEF CallState
    <3>4. Shape(call'[c], task[c])
      BY <1>1, <3>3 DEF Shape
    <3> QED
      BY <2>1, <3>2, <3>3, <3>4
  <2> QED
    BY <2>2, <2>3
<1>3. Alone(c) /\ Others /\ task' = task /\ left' = left
  BY <1>2 DEF CallBegin, Alone, Typed, Others
<1>4. c \notin Weighed
  BY <1>1 DEF Weighed
<1>5. Balanced(c)
  BY <1>1, <1>2 DEF CallBegin, admission, Balanced, CountOf, BytesOf
<1> QED
  BY <1>2, <1>3, <1>4, <1>5, CallKeeps

LEMMA ReserveCountKeeps ==
  ASSUME IInv, NEW c \in Calls, ReserveCount(c)
  PROVE  IInv'
<1> USE CallFacts
<1>1. /\ call[c].pc = "count" /\ call[c].guard = "none" /\ task[c] = "none"
      /\ call[c].told = "nothing"
  BY DEF ReserveCount, Shape
<1>2. \E r \in CallState : /\ call' = [call EXCEPT ![c] = r] /\ Shape(r, task[c])
                           /\ \/ r.guard = "none" /\ count' = count
                              \/ r.guard = "count" /\ count' = count + 1 /\ count < limit.pending
  <2>1. CASE call[c].seen >= limit.pending
    <3> DEFINE r == Finished(call[c], "not_started")
    <3>1. call' = [call EXCEPT ![c] = r] /\ count' = count
      BY <2>1 DEF ReserveCount
    <3>2. r \in CallState /\ r.pc = "done" /\ r.guard = "none"
      BY <1>1, FinishedFacts DEF Tellings
    <3>3. Shape(r, task[c])
      BY <1>1, <3>2 DEF Shape
    <3> QED
      BY <3>1, <3>2, <3>3
  <2>2. CASE call[c].seen < limit.pending /\ call[c].seen # count
    <3> DEFINE r == [call[c] EXCEPT !.seen = count]
    <3>1. call' = [call EXCEPT ![c] = r] /\ count' = count
      BY <2>2 DEF ReserveCount
    <3>2. r \in CallState /\ Shape(r, task[c]) /\ r.guard = "none"
      BY <1>1 DEF CallState, Shape
    <3> QED
      BY <3>1, <3>2
  <2>3. CASE call[c].seen < limit.pending /\ call[c].seen = count
    <3> DEFINE r == [call[c] EXCEPT !.pc = "bytes", !.guard = "count", !.seen = bytes]
    <3>1. /\ call' = [call EXCEPT ![c].pc = "bytes", ![c].guard = "count", ![c].seen = bytes]
          /\ count' = count + 1
      BY <2>3 DEF ReserveCount
    <3>3. call' = [call EXCEPT ![c] = r]
      BY <3>1 DEF CallState
    <3>2. r \in CallState /\ Shape(r, task[c]) /\ r.guard = "count"
      BY <1>1 DEF CallState, Shape
    <3> QED
      BY <2>3, <3>1, <3>2, <3>3
  <2> QED
    BY <2>1, <2>2, <2>3
<1>3. /\ call'[c] \in CallState /\ Shape(call'[c], task[c])
      /\ \/ call'[c].guard = "none" /\ count' = count
         \/ call'[c].guard = "count" /\ count' = count + 1 /\ count < limit.pending
      /\ call' \in [Calls -> CallState]
      /\ \A d \in Calls : d # c => call'[d] = call[d]
  BY <1>2
<1>4. Alone(c) /\ Others /\ task' = task /\ left' = left /\ bytes' = bytes /\ permits' = permits
  BY <1>3 DEF ReserveCount, Alone, Typed, Others
<1>5. c \notin Weighed
  BY <1>1 DEF Weighed
<1>6. Balanced(c)
  BY <1>1, <1>3, <1>4 DEF Balanced, CountOf, BytesOf
<1> QED
  BY <1>3, <1>4, <1>5, <1>6, CallKeeps

LEMMA ReserveBytesKeeps ==
  ASSUME IInv, NEW c \in Calls, ReserveBytes(c)
  PROVE  IInv'
<1> USE CallFacts
<1>1. /\ call[c].pc = "bytes" /\ call[c].guard = "count" /\ task[c] = "none"
      /\ call[c].told = "nothing"
  BY DEF ReserveBytes, Shape
<1>2. count >= 1
  <2>1. c \in Counted /\ Counted \subseteq Calls
    BY <1>1 DEF Counted
  <2>2. Cardinality(Counted) # 0
    BY <2>1, CallSets, FS_EmptySet
  <2> QED
    BY <2>2, AdmissionIs DEF IInv
<1>3. \E r \in CallState :
        /\ call' = [call EXCEPT ![c] = r] /\ Shape(r, task[c]) /\ r.size = call[c].size
        /\ \/ r.guard = "none" /\ count' = count - 1 /\ bytes' = bytes
           \/ r.guard = "count" /\ count' = count /\ bytes' = bytes
           \/ r.guard = "both" /\ count' = count /\ bytes' = bytes + r.size
              /\ bytes' <= limit.bytes
  <2>1. CASE call[c].seen + call[c].size > limit.bytes
    <3> DEFINE done == Finished(call[c], "not_started")
               r == [done EXCEPT !.guard = "none"]
    <3>1. call' = [call EXCEPT ![c] = r] /\ count' = count - 1 /\ bytes' = bytes
      BY <2>1 DEF ReserveBytes, ByteRefusal
    <3>2. done \in CallState /\ done.pc = "done" /\ done.size = call[c].size
      BY FinishedFacts DEF Tellings
    <3> HIDE DEF done
    <3>3. r \in CallState /\ r.pc = "done" /\ r.guard = "none" /\ r.size = call[c].size
      BY <3>2 DEF CallState
    <3>4. Shape(r, task[c])
      BY <1>1, <3>3 DEF Shape
    <3> HIDE DEF r
    <3> QED
      BY <3>1, <3>3, <3>4
  <2>2. CASE ~(call[c].seen + call[c].size > limit.bytes) /\ call[c].seen # bytes
    <3> DEFINE r == [call[c] EXCEPT !.seen = bytes]
    <3>1. call' = [call EXCEPT ![c] = r] /\ count' = count /\ bytes' = bytes
      BY <2>2 DEF ReserveBytes
    <3>2. /\ r \in CallState /\ r.pc = "bytes" /\ r.guard = "count" /\ r.size = call[c].size
          /\ r.told = "nothing"
      BY <1>1 DEF CallState
    <3>3. Shape(r, task[c])
      BY <1>1, <3>2 DEF Shape
    <3> HIDE DEF r
    <3> QED
      BY <3>1, <3>2, <3>3
  <2>3. CASE ~(call[c].seen + call[c].size > limit.bytes) /\ call[c].seen = bytes
    <3> DEFINE r == [call[c] EXCEPT !.pc = "queued", !.guard = "both", !.seen = 0]
    <3>1. /\ call' = [call EXCEPT ![c].pc = "queued", ![c].guard = "both", ![c].seen = 0]
          /\ count' = count /\ bytes' = bytes + call[c].size
      BY <2>3 DEF ReserveBytes
    <3>2. call' = [call EXCEPT ![c] = r]
      BY <3>1 DEF CallState
    <3>3. /\ r \in CallState /\ r.pc = "queued" /\ r.guard = "both" /\ r.size = call[c].size
          /\ r.told = "nothing"
      BY <1>1 DEF CallState
    <3>4. Shape(r, task[c])
      BY <1>1, <3>3 DEF Shape
    <3>5. bytes' <= limit.bytes
      BY <2>3, <3>1
    <3> HIDE DEF r
    <3> QED
      BY <3>1, <3>2, <3>3, <3>4, <3>5
  <2> QED
    BY <2>1, <2>2, <2>3
<1>4. /\ call'[c] \in CallState /\ Shape(call'[c], task[c]) /\ call'[c].size = call[c].size
      /\ \/ call'[c].guard = "none" /\ count' = count - 1 /\ bytes' = bytes
         \/ call'[c].guard = "count" /\ count' = count /\ bytes' = bytes
         \/ call'[c].guard = "both" /\ count' = count /\ bytes' = bytes + call[c].size
            /\ bytes' <= limit.bytes
      /\ call' \in [Calls -> CallState]
      /\ \A d \in Calls : d # c => call'[d] = call[d]
  BY <1>3
<1>5. Alone(c) /\ Others /\ task' = task /\ left' = left /\ permits' = permits
  BY <1>4 DEF ReserveBytes, Alone, Typed, Others
<1>6. Balanced(c)
  BY <1>1, <1>2, <1>4, <1>5 DEF Balanced, CountOf, BytesOf
<1> QED
  BY <1>4, <1>5, <1>6, CallKeeps

\* A call that keeps its guard, its size and its task.
LEMMA CallMoves ==
  ASSUME IInv, NEW c \in Calls, NEW r \in CallState, call' = [call EXCEPT ![c] = r],
         r.guard = call[c].guard, r.size = call[c].size, Shape(r, task[c]),
         UNCHANGED <<pool, limit, closed, token, admission, task, left, closer, hosting>>
  PROVE  IInv'
<1> USE CallFacts
<1>1. /\ call'[c] = r /\ call' \in [Calls -> CallState]
      /\ \A d \in Calls : d # c => call'[d] = call[d]
  OBVIOUS
<1>2. Alone(c) /\ Others /\ task' = task /\ left' = left
  BY <1>1 DEF Alone, Typed, Others
<1>3. CountOf(call'[c]) = CountOf(call[c]) /\ BytesOf(call'[c]) = BytesOf(call[c])
  BY <1>1 DEF CountOf, BytesOf
<1>4. Balanced(c)
  BY <1>2, <1>3 DEF Balanced, admission
<1> QED
  BY <1>1, <1>2, <1>4, CallKeeps

LEMMA LeaveQueueKeeps ==
  ASSUME IInv, NEW c \in Calls, NEW pc \in {"leaving", "vanishing"}, LeaveQueue(c, pc)
  PROVE  IInv'
<1> USE CallFacts
<1> DEFINE r == [call[c] EXCEPT !.pc = pc]
<1>1. /\ call[c].pc = "queued" /\ call[c].guard = "both" /\ task[c] = "none"
      /\ call[c].told = "nothing"
  BY DEF LeaveQueue, Shape
<1>2. call' = [call EXCEPT ![c] = r]
  BY DEF LeaveQueue
<1>3. /\ r \in CallState /\ r.pc = pc /\ r.guard = "both" /\ r.told = "nothing"
      /\ r.size = call[c].size
  BY <1>1 DEF CallState
<1>4. Shape(r, task[c])
  BY <1>1, <1>3 DEF Shape
<1> HIDE DEF r
<1> QED
  BY <1>1, <1>2, <1>3, <1>4, CallMoves DEF LeaveQueue

\* The answers of a call that executes: the task keeps the guard.
LEMMA AnswerKeeps ==
  ASSUME IInv, NEW c \in Calls, NEW told \in Tellings, Answer(c, told),
         UNCHANGED <<pool, limit, closed, token, admission, task, left, closer, hosting>>
  PROVE  IInv'
<1> USE CallFacts
<1> DEFINE r == Finished(call[c], told)
<1>1. call[c].pc = "executing" /\ task[c] # "none" /\ call' = [call EXCEPT ![c] = r]
  BY DEF Answer, Shape
<1>2. r \in CallState /\ r.pc = "done" /\ r.guard = call[c].guard /\ r.size = call[c].size
  BY FinishedFacts
<1> HIDE DEF r
<1>3. Shape(r, task[c])
  BY <1>1, <1>2 DEF Shape
<1> QED
  BY <1>1, <1>2, <1>3, CallMoves

LEMMA AcquirePermitKeeps ==
  ASSUME IInv, NEW c \in Calls, AcquirePermit(c)
  PROVE  IInv'
<1> USE CallFacts
<1> DEFINE r == [call[c] EXCEPT !.pc = "executing"]
<1>1. /\ call[c].pc = "queued" /\ call[c].guard = "both" /\ task[c] = "none"
      /\ call[c].told = "nothing" /\ permits > 0
  BY DEF AcquirePermit, Shape
<1>2. /\ call' = [call EXCEPT ![c] = r] /\ task' = [task EXCEPT ![c] = "running"]
      /\ left' = [left EXCEPT ![c] = MaxTx]
  BY DEF AcquirePermit
<1>3. /\ r \in CallState /\ r.pc = "executing" /\ r.guard = "both" /\ r.told = "nothing"
      /\ r.size = call[c].size
  BY <1>1 DEF CallState
<1> HIDE DEF r
<1>4. /\ call'[c] = r /\ task'[c] = "running" /\ Shape(r, "running")
      /\ call' \in [Calls -> CallState] /\ task' \in [Calls -> TaskStates]
      /\ left' \in [Threads -> 0 .. MaxTx]
      /\ \A d \in Calls : d # c => call'[d] = call[d] /\ task'[d] = task[d]
      /\ \A t \in Threads : t # c => left'[t] = left[t]
  BY <1>2, <1>3 DEF TaskStates, Shape
<1>5. Alone(c) /\ Others
  BY <1>4 DEF AcquirePermit, Alone, Typed, Others
<1>6. conn[c] = "none"
  BY <1>1 DEF IInv, PoolInUse, Busy
<1>7. Balanced(c)
  BY <1>1, <1>3, <1>4 DEF AcquirePermit, Balanced, CountOf, BytesOf, PermitOf
<1> QED
  BY <1>3, <1>4, <1>5, <1>6, <1>7, CallKeeps

\* The guard is given up in two steps, by the call or by the task.
LEMMA DropCountKeeps ==
  ASSUME IInv, NEW c \in Calls, call[c].guard = "both", count' = count - 1,
         call[c].pc \in {"leaving", "vanishing"} \/ task[c] \in {"answered", "panicked"},
         call' = [call EXCEPT ![c].guard = "bytes"],
         UNCHANGED <<pool, limit, closed, token, bytes, permits, task, left, closer, hosting>>
  PROVE  IInv'
<1> USE CallFacts
<1> DEFINE r == [call[c] EXCEPT !.guard = "bytes"]
<1>1. call' = [call EXCEPT ![c] = r]
  OBVIOUS
<1>2. /\ r \in CallState /\ r.pc = call[c].pc /\ r.guard = "bytes" /\ r.told = call[c].told
      /\ r.size = call[c].size
  BY DEF CallState
<1> HIDE DEF r
<1>3. Shape(r, task[c])
  BY <1>2 DEF Shape
<1>4. /\ call'[c] = r /\ call' \in [Calls -> CallState]
      /\ \A d \in Calls : d # c => call'[d] = call[d]
  BY <1>1, <1>2
<1>5. Alone(c) /\ Others /\ task' = task /\ left' = left
  BY <1>4 DEF Alone, Typed, Others
<1>6. count >= 1
  <2>1. c \in Counted /\ Counted \subseteq Calls
    BY DEF Counted
  <2>2. Cardinality(Counted) # 0
    BY <2>1, CallSets, FS_EmptySet
  <2> QED
    BY <2>2, AdmissionIs DEF IInv
<1>7. Balanced(c)
  BY <1>2, <1>4, <1>6 DEF Balanced, CountOf, BytesOf
<1> QED
  BY <1>2, <1>3, <1>4, <1>5, <1>7, CallKeeps

\* The bytes of a call are part of the sum.
LEMMA BytesCover ==
  ASSUME IInv, NEW c \in Calls, call[c].guard = "bytes"
  PROVE  bytes - call[c].size \in Nat
<1> DEFINE rest == Weighed \ {c}
<1>1. c \in Weighed /\ Weighed \subseteq Calls /\ rest \subseteq Calls
  BY DEF Weighed
<1>2. IsFiniteSet(Weighed) /\ IsFiniteSet(rest)
  BY <1>1, CallSets
<1>3. \A d \in Weighed : SizeOf[d] \in Nat
  BY CallFacts DEF SizeOf, Weighed
<1>4. SumOver(SizeOf, rest) \in Nat
  BY <1>2, <1>3, SumNat
<1>5. SumOver(SizeOf, Weighed) = SizeOf[c] + SumOver(SizeOf, rest)
  BY <1>1, <1>2, <1>3, SumAdd
<1>6. SizeOf[c] = call[c].size /\ call[c].size \in Nat
  BY CallFacts DEF SizeOf
<1>7. bytes = SumOver(SizeOf, Weighed)
  BY AdmissionIs DEF IInv
<1> QED
  BY <1>4, <1>5, <1>6, <1>7

LEMMA DropBytesKeeps ==
  ASSUME IInv, NEW c \in Calls, call[c].guard = "bytes", bytes' = bytes - call[c].size,
         NEW r \in CallState, call' = [call EXCEPT ![c] = r], Shape(r, task[c]),
         r.guard = "none",
         UNCHANGED <<pool, limit, closed, token, count, permits, task, left, closer, hosting>>
  PROVE  IInv'
<1> USE CallFacts
<1>1. /\ call'[c] = r /\ call' \in [Calls -> CallState]
      /\ \A d \in Calls : d # c => call'[d] = call[d]
  OBVIOUS
<1>2. Alone(c) /\ Others /\ task' = task /\ left' = left
  BY <1>1 DEF Alone, Typed, Others
<1>3. bytes' \in Nat /\ bytes' <= limit.bytes
  BY BytesCover
<1>4. Balanced(c)
  BY <1>1, <1>3 DEF Balanced, CountOf, BytesOf
<1>5. c \notin Weighed'
  BY <1>1 DEF Weighed
<1> QED
  BY <1>1, <1>2, <1>4, <1>5, CallKeeps

LEMMA LeaveBytesKeeps ==
  ASSUME IInv, NEW c \in Calls, LeaveBytes(c)
  PROVE  IInv'
<1> USE CallFacts
<1> DEFINE told == IF call[c].pc = "leaving" THEN "not_started" ELSE "nothing"
           done == Finished(call[c], told)
           r == [done EXCEPT !.guard = "none"]
<1>1. call[c].guard = "bytes" /\ task[c] = "none" /\ bytes' = bytes - call[c].size
  BY DEF LeaveBytes, Shape
<1>2. call' = [call EXCEPT ![c] = r]
  BY DEF LeaveBytes
<1>3. done \in CallState /\ done.pc = "done"
  <2>1. told \in Tellings
    BY DEF Tellings
  <2> HIDE DEF told
  <2> QED
    BY <2>1, FinishedFacts
<1> HIDE DEF done
<1>4. r \in CallState /\ r.pc = "done" /\ r.guard = "none"
  BY <1>3 DEF CallState
<1> HIDE DEF r
<1>5. Shape(r, task[c])
  BY <1>1, <1>4 DEF Shape
<1> QED
  BY <1>1, <1>2, <1>4, <1>5, DropBytesKeeps DEF LeaveBytes

LEMMA TaskBytesKeeps ==
  ASSUME IInv, NEW c \in Calls, TaskBytes(c)
  PROVE  IInv'
<1> USE CallFacts
<1> DEFINE r == [call[c] EXCEPT !.guard = "none"]
<1>1. /\ call[c].guard = "bytes" /\ task[c] \in {"answered", "panicked"}
      /\ bytes' = bytes - call[c].size
  BY DEF TaskBytes
<1>2. call' = [call EXCEPT ![c] = r]
  BY DEF TaskBytes
<1>3. r \in CallState /\ r.pc = call[c].pc /\ r.guard = "none" /\ r.told = call[c].told
  BY DEF CallState
<1> HIDE DEF r
<1>4. Shape(r, task[c])
  BY <1>1, <1>3 DEF Shape
<1> QED
  BY <1>1, <1>2, <1>3, <1>4, DropBytesKeeps DEF TaskBytes

\* A step of the task that leaves the call alone.
LEMMA TaskKeeps ==
  ASSUME IInv, NEW c \in Calls, NEW k \in TaskStates, task' = [task EXCEPT ![c] = k],
         conn[c] = "none", Shape(call[c], k), permits' \in Nat,
         permits' + PermitOf(k) = permits + PermitOf(task[c]),
         left' = left \/ left' = [left EXCEPT ![c] = 0],
         UNCHANGED <<pool, limit, closed, token, count, bytes, call, closer, hosting>>
  PROVE  IInv'
<1> USE CallFacts
<1>1. /\ task'[c] = k /\ task' \in [Calls -> TaskStates]
      /\ \A d \in Calls : d # c => task'[d] = task[d]
      /\ left' \in [Threads -> 0 .. MaxTx]
      /\ \A t \in Threads : t # c => left'[t] = left[t]
  OBVIOUS
<1>2. Alone(c) /\ Others
  BY <1>1 DEF Alone, Typed, Others
<1>3. Balanced(c)
  <2>1. BytesOf(call[c]) \in Nat /\ CountOf(call[c]) \in Nat
    BY BytesNat DEF CountOf
  <2> QED
    BY <1>1, <2>1 DEF Balanced
<1> QED
  BY <1>1, <1>2, <1>3, CallKeeps

LEMMA TaskEndKeeps ==
  ASSUME IInv, NEW c \in Calls, NEW how \in {"answered", "panicked", "stuck"},
         task[c] = "running", conn[c] = "none", task' = [task EXCEPT ![c] = how],
         left' = [left EXCEPT ![c] = 0],
         UNCHANGED <<pool, limit, closed, token, admission, call, closer, hosting>>
  PROVE  IInv'
<1>1. how \in TaskStates /\ Shape(call[c], how) /\ PermitOf(how) = PermitOf(task[c])
  BY CallFacts DEF TaskStates, Shape, PermitOf
<1>2. /\ permits' \in Nat /\ permits' + PermitOf(how) = permits + PermitOf(task[c])
      /\ UNCHANGED <<pool, limit, closed, token, count, bytes, call, closer, hosting>>
  BY <1>1, CallFacts DEF admission
<1> QED
  BY <1>1, <1>2, TaskKeeps

LEMMA TaskPermitKeeps ==
  ASSUME IInv, NEW c \in Calls, TaskPermit(c)
  PROVE  IInv'
<1> USE CallFacts
<1> DEFINE k == IF task[c] = "answered" THEN "over" ELSE "failed"
<1>1. task' = [task EXCEPT ![c] = k]
  BY DEF TaskPermit
<1>2. task[c] \in {"answered", "panicked"} /\ call[c].guard = "none" /\ permits' = permits + 1
  BY DEF TaskPermit
<1>3. k \in TaskStates /\ Shape(call[c], k) /\ PermitOf(k) = 0 /\ PermitOf(task[c]) = 1
  BY <1>2 DEF TaskStates, Shape, PermitOf
<1>4. conn[c] = "none"
  BY <1>2 DEF IInv, PoolInUse, Busy
<1>5. /\ permits' \in Nat /\ permits' + PermitOf(k) = permits + PermitOf(task[c])
      /\ UNCHANGED <<pool, limit, closed, token, count, bytes, call, left, closer, hosting>>
  BY <1>2, <1>3 DEF TaskPermit
<1> HIDE DEF k
<1> QED
  BY <1>1, <1>3, <1>4, <1>5, TaskKeeps

-----------------------------------------------------------------------------
(* Connections, hosts and close.                                           *)

\* Steps that leave the calls and the counters alone.
Calm == UNCHANGED <<limit, admission, call, task>>

LEMMA CalmKeeps ==
  ASSUME IInv, Calm
  PROVE  Control' /\ AdmissionExact'
  BY DEF IInv, Calm, Control, AdmissionExact, Holding, InFlight, Stuck, admission

\* A step of one thread with the pool.
LEMMA ConnectionKeeps ==
  ASSUME IInv, NEW t \in Threads, PoolInv', left' \in [Threads -> 0 .. MaxTx],
         \A u \in Threads : u # t =>
           /\ conn'[u] = conn[u] \/ (conn[u] = "waiting" /\ conn'[u] = "notified")
           /\ left'[u] = left[u],
         conn'[t] # "none" => Busy(t) /\ left'[t] > 0,
         UNCHANGED <<limit, closed, token, admission, call, task, closer, hosting>>
  PROVE  IInv'
<1>1. Control' /\ AdmissionExact'
  BY CalmKeeps DEF Calm
<1>2. TypeOK'
  BY DEF IInv, TypeOK, PoolInv, admission, hosting
<1>3. PoolInUse'
  <2> SUFFICES ASSUME NEW u \in Threads, conn'[u] # "none" PROVE Busy(u)' /\ left'[u] > 0
    BY DEF PoolInUse
  <2>1. Busy(u)' = Busy(u)
    BY DEF Busy, hosting
  <2>2. CASE u = t
    BY <2>1, <2>2
  <2>3. CASE u # t
    BY <2>1, <2>3 DEF IInv, PoolInUse
  <2> QED
    BY <2>2, <2>3
<1> QED
  BY <1>1, <1>2, <1>3 DEF IInv

LEMMA ConnectionStepKeeps ==
  ASSUME IInv, NEW t \in Threads, ConnectionStep(t)
  PROVE  IInv'
<1>1. /\ PoolInv /\ PoolTypeOK /\ conn \in [Threads -> ConnStates]
      /\ left \in [Threads -> 0 .. MaxTx] /\ MaxTx \in Nat
      /\ conn[t] # "none" => Busy(t) /\ left[t] > 0
  BY ClientAssumption DEF IInv, PoolInv, PoolTypeOK, TypeOK, PoolInUse
<1>2. CASE TakeConnection(t)
  <2>1. /\ PoolInv' /\ Busy(t) /\ left[t] > 0 /\ left' = left
        /\ UNCHANGED <<limit, closed, token, admission, call, task, closer, hosting>>
    BY <1>1, <1>2, AdmitKeeps, WaitKeeps DEF TakeConnection
  <2>2. \A u \in Threads : u # t => conn'[u] = conn[u]
    BY <1>1, <1>2 DEF TakeConnection, Admit, Wait
  <2> QED
    BY <1>1, <2>1, <2>2, ConnectionKeeps
<1>3. CASE OpenConnection(t)
  <2>1. /\ PoolInv' /\ left' = left /\ conn[t] = "connecting"
        /\ UNCHANGED <<limit, closed, token, admission, call, task, closer, hosting>>
    BY <1>1, <1>3, ConnectedKeeps DEF OpenConnection, Connected
  <2>2. \A u \in Threads : u # t => conn'[u] = conn[u]
    BY <1>1, <1>3 DEF OpenConnection, Connected
  <2> QED
    BY <1>1, <2>1, <2>2, ConnectionKeeps
<1>4. CASE LoseConnection(t)
  <2>1. PoolInv' /\ conn[t] = "connecting" /\ GiveUp(t)
    BY <1>1, <1>4, ConnectFailsKeeps DEF LoseConnection, ConnectFails
  <2>2. /\ conn'[t] = "none"
        /\ \A u \in Threads : u # t =>
             conn'[u] = conn[u] \/ (conn[u] = "waiting" /\ conn'[u] = "notified")
    BY <1>1, <2>1, GiveUpFacts
  <2>3. left' \in [Threads -> 0 .. MaxTx] /\ \A u \in Threads : u # t => left'[u] = left[u]
    BY <1>1, <1>4 DEF LoseConnection
  <2>4. UNCHANGED <<limit, closed, token, admission, call, task, closer, hosting>>
    BY <1>4 DEF LoseConnection
  <2> QED
    BY <2>1, <2>2, <2>3, <2>4, ConnectionKeeps
<1>5. ASSUME NEW open \in BOOLEAN, GiveConnection(t, open) PROVE IInv'
  <2>1. PoolInv' /\ conn[t] = "held" /\ GiveUp(t)
    BY <1>1, <1>5, ReturnKeeps DEF GiveConnection, Return
  <2>2. /\ conn'[t] = "none"
        /\ \A u \in Threads : u # t =>
             conn'[u] = conn[u] \/ (conn[u] = "waiting" /\ conn'[u] = "notified")
    BY <1>1, <2>1, GiveUpFacts
  <2>3. left' \in [Threads -> 0 .. MaxTx] /\ \A u \in Threads : u # t => left'[u] = left[u]
    <3>1. left[t] - 1 \in 0 .. MaxTx
      BY <1>1, <2>1
    <3>2. left' = [left EXCEPT ![t] = left[t] - 1]
      BY <1>5 DEF GiveConnection
    <3> QED
      BY <1>1, <3>1, <3>2
  <2>4. UNCHANGED <<limit, closed, token, admission, call, task, closer, hosting>>
    BY <1>5 DEF GiveConnection
  <2> QED
    BY <2>1, <2>2, <2>3, <2>4, ConnectionKeeps
<1> QED
  BY <1>2, <1>3, <1>4, <1>5 DEF ConnectionStep

LEMMA PoolWhimKeeps ==
  ASSUME IInv, PoolWhim
  PROVE  IInv'
<1>1. PoolInv' /\ Control' /\ AdmissionExact'
  BY WhimKeeps, CalmKeeps DEF IInv, PoolWhim, Calm
<1>2. TypeOK'
  BY <1>1 DEF PoolWhim, IInv, TypeOK, PoolInv, admission, hosting
<1>3. \A u \in Threads : conn'[u] # "none" => conn[u] # "none"
  BY DEF PoolWhim, ServerCloses, SpuriousWake, IInv, PoolInv, PoolTypeOK
<1>4. PoolInUse'
  BY <1>3 DEF PoolWhim, IInv, PoolInUse, Busy, hosting
<1> QED
  BY <1>1, <1>2, <1>4 DEF IInv

\* A step of a host that starts no tick and ends none.
LEMMA HostKeeps ==
  ASSUME IInv, host' \in [Hosts -> HostState], \A h \in Hosts : host'[h].tick = host[h].tick,
         running' \in [Kinds -> Hosts \cup {None}],
         closer' \in {"open", "marked", "service", "worker", "polling", "drained", "timed_out"},
         closed' \in BOOLEAN, token' \in BOOLEAN,
         UNCHANGED <<pool, limit, admission, call, task, left, ticks>>
  PROVE  IInv'
<1>1. PoolInv' /\ Control' /\ AdmissionExact'
  BY PoolSame, CalmKeeps DEF IInv, Calm
<1>2. TypeOK'
  BY <1>1 DEF IInv, TypeOK, PoolInv, admission
<1>3. PoolInUse'
  <2> SUFFICES ASSUME NEW u \in Threads, conn'[u] # "none" PROVE Busy(u)' /\ left'[u] > 0
    BY DEF PoolInUse
  <2>1. Busy(u) /\ left[u] > 0
    BY DEF IInv, PoolInUse, pool
  <2>2. u \in Calls \/ u \in Hosts
    BY ClientAssumption
  <2> QED
    BY <2>1, <2>2 DEF Busy
<1> QED
  BY <1>1, <1>2, <1>3 DEF IInv

\* The next tick of a worker begins or ends: it has no connection.
LEMMA TickKeeps ==
  ASSUME IInv, NEW h \in Hosts, host' \in [Hosts -> HostState],
         \A g \in Hosts : g # h => host'[g] = host[g], conn[h] = "none",
         left' \in [Threads -> 0 .. MaxTx], \A t \in Threads : t # h => left'[t] = left[t],
         ticks' \in 0 .. MaxTicks,
         UNCHANGED <<pool, limit, closed, token, admission, call, task, closer, running>>
  PROVE  IInv'
<1>1. PoolInv' /\ Control' /\ AdmissionExact'
  BY PoolSame, CalmKeeps DEF IInv, Calm
<1>2. TypeOK'
  BY <1>1 DEF IInv, TypeOK, PoolInv, admission
<1>3. PoolInUse'
  <2> SUFFICES ASSUME NEW u \in Threads, conn'[u] # "none" PROVE Busy(u)' /\ left'[u] > 0
    BY DEF PoolInUse
  <2>1. u # h /\ Busy(u) /\ left[u] > 0
    BY DEF IInv, PoolInUse, pool
  <2>2. u \in Calls \/ u \in Hosts
    BY ClientAssumption
  <2> QED
    BY <2>1, <2>2 DEF Busy
<1> QED
  BY <1>1, <1>2, <1>3 DEF IInv

LEMMA StartStepKeeps ==
  ASSUME IInv, NEW h \in Hosts, StartStep(h)
  PROVE  IInv'
<1>1. /\ host \in [Hosts -> HostState] /\ running \in [Kinds -> Hosts \cup {None}]
      /\ closed \in BOOLEAN /\ token \in BOOLEAN /\ Kind[h] \in Kinds
      /\ closer \in {"open", "marked", "service", "worker", "polling", "drained", "timed_out"}
  BY ClientAssumption DEF IInv, TypeOK, Kinds
<1>2. CASE StartCheck(h)
  <2>1. host' \in [Hosts -> HostState] /\ \A g \in Hosts : host'[g].tick = host[g].tick
    BY <1>1, <1>2 DEF StartCheck, HostState
  <2> QED
    BY <1>1, <1>2, <2>1, HostKeeps DEF StartCheck
<1>3. CASE StartSpawn(h)
  <2>1. host' \in [Hosts -> HostState] /\ \A g \in Hosts : host'[g].tick = host[g].tick
    BY <1>1, <1>3 DEF StartSpawn, HostState
  <2> QED
    BY <1>1, <1>3, <2>1, HostKeeps DEF StartSpawn
<1>4. CASE ServeBind(h)
  <2>1. host' \in [Hosts -> HostState] /\ \A g \in Hosts : host'[g].tick = host[g].tick
    BY <1>1, <1>4 DEF ServeBind, HostState
  <2> QED
    BY <1>1, <1>4, <2>1, HostKeeps DEF ServeBind
<1>5. CASE StartPublish(h)
  <2>1. host' \in [Hosts -> HostState] /\ \A g \in Hosts : host'[g].tick = host[g].tick
    BY <1>1, <1>5 DEF StartPublish, HostState
  <2>2. running' \in [Kinds -> Hosts \cup {None}]
    BY <1>1, <1>5 DEF StartPublish
  <2> QED
    BY <1>1, <1>5, <2>1, <2>2, HostKeeps DEF StartPublish
<1> QED
  BY <1>2, <1>3, <1>4, <1>5 DEF StartStep

LEMMA LoopKeeps ==
  ASSUME IInv, NEW h \in Hosts, LoopBreak(h) \/ HandleShutdown(h)
  PROVE  IInv'
<1>1. /\ host \in [Hosts -> HostState] /\ running \in [Kinds -> Hosts \cup {None}]
      /\ closed \in BOOLEAN /\ token \in BOOLEAN
      /\ closer \in {"open", "marked", "service", "worker", "polling", "drained", "timed_out"}
  BY DEF IInv, TypeOK
<1>2. host' \in [Hosts -> HostState] /\ \A g \in Hosts : host'[g].tick = host[g].tick
  <2>1. CASE LoopBreak(h)
    BY <1>1, <2>1 DEF LoopBreak, HostState
  <2>2. CASE HandleShutdown(h)
    BY <1>1, <2>2 DEF HandleShutdown, HostState
  <2> QED
    BY <2>1, <2>2
<1>3. UNCHANGED <<pool, limit, closed, token, admission, call, task, left, closer, running, ticks>>
  BY DEF LoopBreak, HandleShutdown
<1> QED
  BY <1>1, <1>2, <1>3, HostKeeps

\* A worker that is not ticking has no connection.
LEMMA StartTickKeeps ==
  ASSUME IInv, NEW h \in Hosts, NEW by \in {"loop", "host"}, StartTick(h, by)
  PROVE  IInv'
<1>1. /\ host \in [Hosts -> HostState] /\ left \in [Threads -> 0 .. MaxTx] /\ MaxTx \in Nat
      /\ ticks \in 0 .. MaxTicks /\ MaxTicks \in Nat /\ h \in Threads /\ h \notin Calls
  BY ClientAssumption DEF IInv, TypeOK
<1>2. conn[h] = "none"
  BY <1>1 DEF StartTick, IInv, PoolInUse, Busy
<1>3. host' \in [Hosts -> HostState] /\ \A g \in Hosts : g # h => host'[g] = host[g]
  BY SMTT(15), ZenonT(30), <1>1 DEF StartTick, HostState
<1>4. left' \in [Threads -> 0 .. MaxTx] /\ \A t \in Threads : t # h => left'[t] = left[t]
  BY <1>1 DEF StartTick
<1>5. ticks' \in 0 .. MaxTicks
  BY <1>1 DEF StartTick
<1> QED
  BY <1>2, <1>3, <1>4, <1>5, TickKeeps DEF StartTick

LEMMA TickEndKeeps ==
  ASSUME IInv, NEW h \in Hosts, TickEnd(h)
  PROVE  IInv'
<1>1. /\ host \in [Hosts -> HostState] /\ left \in [Threads -> 0 .. MaxTx] /\ MaxTx \in Nat
      /\ ticks \in 0 .. MaxTicks /\ h \in Threads
  BY ClientAssumption DEF IInv, TypeOK
<1>2. host' \in [Hosts -> HostState] /\ \A g \in Hosts : g # h => host'[g] = host[g]
  BY SMTT(15), ZenonT(30), <1>1 DEF TickEnd, HostState
<1>3. left' \in [Threads -> 0 .. MaxTx] /\ \A t \in Threads : t # h => left'[t] = left[t]
  BY <1>1 DEF TickEnd
<1> QED
  BY <1>1, <1>2, <1>3, TickKeeps DEF TickEnd

LEMMA CloseKeeps ==
  ASSUME IInv, CloseMark \/ CloseStep
  PROVE  IInv'
<1>1. /\ host \in [Hosts -> HostState] /\ running \in [Kinds -> Hosts \cup {None}]
      /\ closed \in BOOLEAN /\ token \in BOOLEAN
  BY DEF IInv, TypeOK
<1>2. CASE CloseMark \/ CloseCancel \/ ClosePoll
  <2>1. /\ UNCHANGED <<pool, limit, admission, call, task, left, ticks, host, running>>
        /\ closed' \in BOOLEAN /\ token' \in BOOLEAN
        /\ closer' \in {"open", "marked", "service", "worker", "polling", "drained", "timed_out"}
    BY <1>1, <1>2 DEF CloseMark, CloseCancel, ClosePoll, hosting
  <2> QED
    BY <1>1, <2>1, HostKeeps
<1>3. ASSUME NEW k \in Kinds, CloseHost(k) PROVE IInv'
  <2>1. running[k] \in Hosts \cup {None}
    BY <1>1
  <2>2. host' \in [Hosts -> HostState] /\ \A g \in Hosts : host'[g].tick = host[g].tick
    BY SMTT(15), ZenonT(30), <1>1, <1>3, <2>1 DEF CloseHost, Shut, HostState
  <2>3. running' \in [Kinds -> Hosts \cup {None}]
    BY <1>1, <1>3 DEF CloseHost
  <2>4. /\ UNCHANGED <<pool, limit, closed, token, admission, call, task, left, ticks>>
        /\ closer' \in {"open", "marked", "service", "worker", "polling", "drained", "timed_out"}
    BY <1>3 DEF CloseHost
  <2> QED
    BY <1>1, <2>2, <2>3, <2>4, HostKeeps
<1> QED
  BY <1>2, <1>3 DEF CloseStep

-----------------------------------------------------------------------------
(* The invariant holds.                                                    *)

\* The invariant holds when the client has been built.
LEMMA InitInv ==
  ASSUME Init
  PROVE  IInv
<1> USE DEF Init, PoolInit
<1>1. TypeOK
  <2>1. PoolTypeOK
    BY PoolAssumption DEF PoolTypeOK, ConnStates
  <2>2. call \in [Calls -> CallState] /\ task \in [Calls -> TaskStates]
    BY DEF CallState, TaskStates
  <2>3. permits \in Nat /\ left \in [Threads -> 0 .. MaxTx] /\ ticks \in 0 .. MaxTicks
    BY ClientAssumption
  <2>4. running \in [Kinds -> Hosts \cup {None}] /\ host \in [Hosts -> HostState]
    BY DEF HostState
  <2> QED
    BY <2>1, <2>2, <2>3, <2>4 DEF TypeOK
<1>2. Control
  BY DEF Control, Shape
<1>3. PoolInUse
  BY DEF PoolInUse
<1>4. PoolInv
  <2>1. Used = {} /\ Notified = {} /\ Waiting = {}
    BY DEF Used, Notified, Waiting
  <2>2. PoolTypeOK
    BY <1>1 DEF TypeOK
  <2> QED
    BY <2>1, <2>2, PoolInvIs, FS_EmptySet, PoolAssumption
<1>5. AdmissionExact
  <2>1. Counted = {} /\ Weighed = {} /\ Flying = {}
    BY DEF Counted, Weighed, Flying
  <2>2. limit.pending \in Nat /\ limit.bytes \in Nat /\ limit.inflight \in Nat
    BY ClientAssumption
  <2> QED
    BY <2>1, <2>2, AdmissionIs, FS_EmptySet, SumEmpty
<1> QED
  BY <1>1, <1>2, <1>3, <1>4, <1>5 DEF IInv

LEMMA CallStepKeeps ==
  ASSUME IInv, NEW c \in Calls, CallStep(c) \/ QueueDropped(c) \/ CallDropped(c)
  PROVE  IInv'
<1>1. CASE QueueTimeout(c) \/ QueueClosed(c) \/ QueueDropped(c)
  BY <1>1, LeaveQueueKeeps DEF QueueTimeout, QueueClosed, QueueDropped
<1>2. CASE LeaveCount(c)
  BY <1>2, DropCountKeeps DEF LeaveCount
<1>3. CASE CallAnswer(c) \/ CallGivesUp(c) \/ CallDropped(c)
  BY <1>3, AnswerKeeps DEF CallAnswer, CallGivesUp, CallDropped, Tellings
<1> QED
  BY <1>1, <1>2, <1>3, ReserveCountKeeps, ReserveBytesKeeps, AcquirePermitKeeps,
     LeaveBytesKeeps DEF CallStep

LEMMA TaskStepKeeps ==
  ASSUME IInv, NEW c \in Calls, TaskStep(c) \/ TaskHangs(c)
  PROVE  IInv'
<1>1. ASSUME NEW how \in {"answered", "panicked"}, TaskEnd(c, how) PROVE IInv'
  BY <1>1, TaskEndKeeps DEF TaskEnd
<1>2. CASE TaskHangs(c)
  BY <1>2, TaskEndKeeps DEF TaskHangs
<1>3. CASE TaskCount(c)
  BY <1>3, DropCountKeeps DEF TaskCount
<1> QED
  BY <1>1, <1>2, <1>3, TaskBytesKeeps, TaskPermitKeeps DEF TaskStep

\* Nothing changes.
LEMMA StutterKeeps ==
  ASSUME IInv, UNCHANGED vars
  PROVE  IInv'
<1>1. PoolInv' /\ Control' /\ AdmissionExact'
  BY PoolSame, CalmKeeps DEF IInv, Calm, vars
<1>2. TypeOK'
  BY <1>1 DEF IInv, TypeOK, PoolInv, vars, admission, hosting
<1>3. PoolInUse'
  BY DEF IInv, PoolInUse, Busy, vars, pool, hosting
<1> QED
  BY <1>1, <1>2, <1>3 DEF IInv

\* Every step of calls, tasks, connections, hosts and close keeps it.
LEMMA NextInv ==
  ASSUME IInv, [Next]_vars
  PROVE  IInv'
<1>1. ASSUME NEW c \in Calls, NEW size \in Sizes, CallBegin(c, size) PROVE IInv'
  BY <1>1, CallBeginKeeps
<1>2. ASSUME NEW c \in Calls,
             CallStep(c) \/ TaskStep(c) \/ TaskHangs(c) \/ QueueDropped(c) \/ CallDropped(c)
      PROVE  IInv'
  BY <1>2, CallStepKeeps, TaskStepKeeps
<1>3. ASSUME NEW t \in Threads, ConnectionStep(t) PROVE IInv'
  BY <1>3, ConnectionStepKeeps
<1>4. ASSUME NEW h \in Hosts, StartStep(h) \/ LoopTick(h) \/ HostTick(h) \/ TickEnd(h)
                              \/ LoopBreak(h) \/ HandleShutdown(h)
      PROVE  IInv'
  <2>1. CASE LoopTick(h) \/ HostTick(h)
    BY <2>1, StartTickKeeps DEF LoopTick, HostTick
  <2> QED
    BY <1>4, <2>1, StartStepKeeps, TickEndKeeps, LoopKeeps
<1> QED
  BY <1>1, <1>2, <1>3, <1>4, PoolWhimKeeps, CloseKeeps, StutterKeeps DEF Next

\* The strengthened invariant holds for ever.
THEOREM InductiveInvariant == Spec => []IInv
<1>1. Init => IInv
  BY InitInv
<1>2. IInv /\ [Next]_vars => IInv'
  BY NextInv
<1> QED
  BY <1>1, <1>2, PTL DEF Spec

\* Whatever exchanges and drops are half done and whichever calls gave up, the counters
\* of call_json, the permits and the pool of connections are exactly what is in use,
\* within their limits, and no thread waits for a connection while a slot is free.
THEOREM CapacityIsExact == Spec => []CapacityExact
<1>1. IInv => CapacityExact
  BY DEF IInv, CapacityExact, PoolInv
<1> QED
  BY <1>1, InductiveInvariant, PTL

\* close says drained only when no task runs and no call has a connection, those of
\* calls that gave up included.
THEOREM DrainedIsIdle == Spec => DrainedIdle
<1>1. IInv /\ [Next]_vars =>
        [closer # "drained" /\ closer' = "drained" =>
           InFlight = {} /\ \A c \in Calls : conn[c] = "none"]_vars
  <2> SUFFICES ASSUME IInv, Next, closer # "drained", closer' = "drained"
               PROVE  InFlight = {} /\ \A c \in Calls : conn[c] = "none"
    OBVIOUS
  <2>1. ClosePoll
    BY DEF Next, CallBegin, CallStep, TaskStep, TaskHangs, QueueDropped, CallDropped,
           ReserveCount, ReserveBytes, AcquirePermit, QueueTimeout, QueueClosed, LeaveQueue,
           LeaveCount, LeaveBytes, CallAnswer, CallGivesUp, TaskEnd, TaskCount, TaskBytes,
           TaskPermit, ConnectionStep, TakeConnection, OpenConnection, LoseConnection,
           GiveConnection, PoolWhim, StartStep, StartCheck, StartSpawn, ServeBind,
           StartPublish, LoopTick, HostTick, StartTick, TickEnd, LoopBreak, HandleShutdown,
           CloseMark, CloseStep, CloseCancel, CloseHost, Answer
  <2>2. permits = limit.inflight
    BY <2>1 DEF ClosePoll
  <2>3. Flying = {}
    <3>1. Flying \subseteq Calls
      BY DEF Flying
    <3>2. IsFiniteSet(Flying) /\ Cardinality(Flying) \in Nat
      BY <3>1, CallSets
    <3>3. permits \in Nat /\ permits + Cardinality(Flying) = limit.inflight
      BY AdmissionIs DEF IInv, TypeOK
    <3>4. Cardinality(Flying) = 0
      BY <2>2, <3>2, <3>3
    <3> QED
      BY <3>2, <3>4, FS_EmptySet
  <2>4. InFlight = {}
    BY <2>3 DEF Flying, InFlight, Stuck
  <2>5. ASSUME NEW c \in Calls PROVE conn[c] = "none"
    <3>1. task[c] # "running" /\ c \in Threads
      BY <2>3, ClientAssumption DEF Flying
    <3> QED
      BY <3>1 DEF IInv, PoolInUse, Busy
  <2> QED
    BY <2>4, <2>5
<1> QED
  BY <1>1, InductiveInvariant, PTL DEF Spec, DrainedIdle

-----------------------------------------------------------------------------
(* Refinement of CallContract.                                             *)

\* What a step of the contract does to the stage and the answer of one call.
Allowed(from, to, told, telling) ==
  \/ to = from /\ telling = told
  \/ from = "new" /\ to = "pending" /\ telling = told
  \/ from \in {"new", "pending"} /\ to = "refused"
     /\ (telling = told \/ (told = "nothing" /\ telling = "not_started"))
  \/ from = "refused" /\ to = "refused" /\ told = "nothing" /\ telling = "not_started"
  \/ from = "pending" /\ to = "working" /\ telling = told
  \/ from = "working" /\ to = "finished" /\ telling = told
  \/ from = "finished" /\ to = "finished" /\ told = "nothing" /\ telling = "answer"
  \/ from \in {"working", "finished"} /\ to = from /\ told = "nothing"
     /\ telling = "outcome_unknown"

\* A step of one call that the contract allows is a step of the contract.
LEMMA AllowedMaps ==
  ASSUME NEW c \in Calls, Allowed(Stage(c), Stage(c)', call[c].told, call'[c].told),
         \A d \in Calls : d # c => Stage(d)' = Stage(d) /\ call'[d].told = call[d].told
  PROVE  [Contract!Next]_(Contract!vars)
<1> DEFINE stage == [d \in Calls |-> Stage(d)]
           told == [d \in Calls |-> call[d].told]
<1>1. /\ stage' = [stage EXCEPT ![c] = Stage(c)'] /\ stage[c] = Stage(c)
      /\ told' = [told EXCEPT ![c] = call'[c].told] /\ told[c] = call[c].told
  OBVIOUS
<1>2. CASE Stage(c)' = Stage(c) /\ call'[c].told = call[c].told
  <2>1. stage' = stage /\ told' = told
    BY <1>2
  <2> QED
    BY <2>1 DEF Contract!vars
<1>3. CASE Stage(c) = "new" /\ Stage(c)' = "pending" /\ call'[c].told = call[c].told
  <2>1. Contract!Invoke(c)
    BY <1>1, <1>3 DEF Contract!Invoke, Contract!Move
  <2> QED
    BY <2>1 DEF Contract!Next
<1>4. CASE /\ Stage(c) \in {"new", "pending"} /\ Stage(c)' = "refused"
           /\ \/ call'[c].told = call[c].told
              \/ call[c].told = "nothing" /\ call'[c].told = "not_started"
  <2>1. Contract!Refuse(c)
    BY <1>1, <1>4 DEF Contract!Refuse, Contract!Move, Contract!Tell
  <2> QED
    BY <2>1 DEF Contract!Next
<1>5. CASE /\ Stage(c) = "refused" /\ Stage(c)' = "refused"
           /\ call[c].told = "nothing" /\ call'[c].told = "not_started"
  <2>1. Contract!TellRefused(c)
    BY <1>1, <1>5 DEF Contract!TellRefused, Contract!Tell
  <2> QED
    BY <2>1 DEF Contract!Next
<1>6. CASE Stage(c) = "pending" /\ Stage(c)' = "working" /\ call'[c].told = call[c].told
  <2>1. Contract!Start(c)
    BY <1>1, <1>6 DEF Contract!Start, Contract!Move
  <2> QED
    BY <2>1 DEF Contract!Next
<1>7. CASE Stage(c) = "working" /\ Stage(c)' = "finished" /\ call'[c].told = call[c].told
  <2>1. Contract!Finish(c)
    BY <1>1, <1>7 DEF Contract!Finish, Contract!Move
  <2> QED
    BY <2>1 DEF Contract!Next
<1>8. CASE /\ Stage(c) = "finished" /\ Stage(c)' = "finished"
           /\ call[c].told = "nothing" /\ call'[c].told = "answer"
  <2>1. Contract!TellAnswer(c)
    BY <1>1, <1>8 DEF Contract!TellAnswer, Contract!Tell
  <2> QED
    BY <2>1 DEF Contract!Next
<1>9. CASE /\ Stage(c) \in {"working", "finished"} /\ Stage(c)' = Stage(c)
           /\ call[c].told = "nothing" /\ call'[c].told = "outcome_unknown"
  <2>1. Contract!TellUnknown(c)
    BY <1>1, <1>9 DEF Contract!TellUnknown, Contract!Tell
  <2> QED
    BY <2>1 DEF Contract!Next
<1> QED
  BY <1>2, <1>3, <1>4, <1>5, <1>6, <1>7, <1>8, <1>9 DEF Allowed

\* The stage as an operator on the task and the control point.
StageOf(t, pc) ==
  CASE t \in {"running", "stuck"} -> "working"
    [] t \notin {"none", "running", "stuck"} -> "finished"
    [] t = "none" /\ pc = "new" -> "new"
    [] t = "none" /\ pc \in {"leaving", "vanishing", "done"} -> "refused"
    [] OTHER -> "pending"

\* The stage of a call in the contract depends on that call alone.
LEMMA StageIs ==
  ASSUME NEW c
  PROVE  Stage(c) = StageOf(task[c], call[c].pc) /\ Stage(c)' = StageOf(task'[c], call'[c].pc)
  BY DEF Stage, StageOf

\* The stages, one by one.
LEMMA StageFacts ==
  /\ \A pc : \A t \in {"running", "stuck"} : StageOf(t, pc) = "working"
  /\ \A pc : \A t \in {"answered", "panicked", "over", "failed"} : StageOf(t, pc) = "finished"
  /\ StageOf("none", "new") = "new"
  /\ \A pc \in {"leaving", "vanishing", "done"} : StageOf("none", pc) = "refused"
  /\ \A pc \in {"count", "bytes", "queued"} : StageOf("none", pc) = "pending"
  BY DEF StageOf

\* A step of one call, by control point, task and answer.
LEMMA CallMaps ==
  ASSUME IInv, NEW c \in Calls,
         \A d \in Calls : d # c => call'[d] = call[d] /\ task'[d] = task[d],
         Allowed(StageOf(task[c], call[c].pc), StageOf(task'[c], call'[c].pc),
                 call[c].told, call'[c].told)
  PROVE  [Contract!Next]_(Contract!vars)
<1>1. Allowed(Stage(c), Stage(c)', call[c].told, call'[c].told)
  BY StageIs
<1>2. \A d \in Calls : d # c => Stage(d)' = Stage(d) /\ call'[d].told = call[d].told
  BY StageIs
<1> QED
  BY <1>1, <1>2, AllowedMaps

\* A step that leaves the calls and tasks alone.
LEMMA CalmMaps ==
  ASSUME call' = call, task' = task
  PROVE  [Contract!Next]_(Contract!vars)
<1>1. \A d \in Calls : Stage(d)' = Stage(d) /\ call'[d].told = call[d].told
  BY StageIs
<1> QED
  BY <1>1 DEF Contract!vars

\* A call that begins enters the contract, or is refused at once.
LEMMA CallBeginMaps ==
  ASSUME IInv, NEW c \in Calls, NEW size \in Sizes, CallBegin(c, size)
  PROVE  [Contract!Next]_(Contract!vars)
<1> USE CallFacts
<1>1. call[c].pc = "new" /\ task[c] = "none" /\ call[c].told = "nothing" /\ task' = task
  BY DEF CallBegin, Shape
<1>2. \A d \in Calls : d # c => call'[d] = call[d] /\ task'[d] = task[d]
  BY DEF CallBegin
<1>3. \/ call'[c].pc = "done" /\ call'[c].told = "not_started"
      \/ call'[c].pc = "count" /\ call'[c].told = "nothing"
  <2>1. CASE closed \/ size > MaxPayload
    <3>1. call'[c] = Finished(call[c], "not_started")
      BY <2>1 DEF CallBegin
    <3> QED
      BY <3>1, FinishedFacts DEF Tellings
  <2>2. CASE ~(closed \/ size > MaxPayload)
    <3>1. call'[c] = [call[c] EXCEPT !.pc = "count", !.size = size, !.seen = count]
      BY <2>2 DEF CallBegin
    <3> QED
      BY <1>1, <3>1 DEF CallState
  <2> QED
    BY <2>1, <2>2
<1>4. Allowed(StageOf(task[c], call[c].pc), StageOf(task'[c], call'[c].pc),
              call[c].told, call'[c].told)
  BY <1>1, <1>3, StageFacts DEF Allowed
<1> QED
  BY <1>2, <1>4, CallMaps

\* Both reservations: refused and told so, or still pending.
LEMMA ReserveMaps ==
  ASSUME IInv, NEW c \in Calls, ReserveCount(c) \/ ReserveBytes(c)
  PROVE  [Contract!Next]_(Contract!vars)
<1> USE CallFacts
<1>1. call[c].pc \in {"count", "bytes"} /\ task[c] = "none" /\ call[c].told = "nothing"
      /\ task' = task
  BY DEF ReserveCount, ReserveBytes, Shape
<1>2. \A d \in Calls : d # c => call'[d] = call[d] /\ task'[d] = task[d]
  BY DEF ReserveCount, ReserveBytes, ByteRefusal
<1>3. \/ call'[c].pc = "done" /\ call'[c].told = "not_started"
      \/ call'[c].pc \in {"count", "bytes", "queued"} /\ call'[c].told = "nothing"
  <2> DEFINE done == Finished(call[c], "not_started")
  <2>1. done \in CallState /\ done.pc = "done" /\ done.told = "not_started"
    BY FinishedFacts DEF Tellings
  <2>2. \/ call'[c] = done \/ call'[c] = [done EXCEPT !.guard = "none"]
        \/ call' = [call EXCEPT ![c].seen = count] \/ call' = [call EXCEPT ![c].seen = bytes]
        \/ call' = [call EXCEPT ![c].pc = "bytes", ![c].guard = "count", ![c].seen = bytes]
        \/ call' = [call EXCEPT ![c].pc = "queued", ![c].guard = "both", ![c].seen = 0]
    BY DEF ReserveCount, ReserveBytes, ByteRefusal
  <2> HIDE DEF done
  <2> QED
    BY <1>1, <2>1, <2>2 DEF CallState
<1>4. Allowed(StageOf(task[c], call[c].pc), StageOf(task'[c], call'[c].pc),
              call[c].told, call'[c].told)
  BY <1>1, <1>3, StageFacts DEF Allowed
<1> QED
  BY <1>2, <1>4, CallMaps

\* The queue: a permit starts the tool, a call that leaves is refused.
LEMMA QueueMaps ==
  ASSUME IInv, NEW c \in Calls,
         AcquirePermit(c) \/ \E pc \in {"leaving", "vanishing"} : LeaveQueue(c, pc)
  PROVE  [Contract!Next]_(Contract!vars)
<1> USE CallFacts
<1>1. call[c].pc = "queued" /\ task[c] = "none" /\ call[c].told = "nothing"
  BY DEF AcquirePermit, LeaveQueue, Shape
<1>2. \A d \in Calls : d # c => call'[d] = call[d] /\ task'[d] = task[d]
  BY DEF AcquirePermit, LeaveQueue
<1>3. \/ task'[c] = "running" /\ call'[c].told = "nothing"
      \/ /\ task'[c] = "none" /\ call'[c].pc \in {"leaving", "vanishing"}
         /\ call'[c].told = "nothing"
  BY <1>1 DEF AcquirePermit, LeaveQueue, CallState
<1>4. Allowed(StageOf(task[c], call[c].pc), StageOf(task'[c], call'[c].pc),
              call[c].told, call'[c].told)
  BY <1>1, <1>3, StageFacts DEF Allowed
<1> QED
  BY <1>2, <1>4, CallMaps

\* The guard is dropped; a call that was refused is then told so, or has gone.
LEMMA DropMaps ==
  ASSUME IInv, NEW c \in Calls,
         LeaveCount(c) \/ LeaveBytes(c) \/ TaskCount(c) \/ TaskBytes(c)
  PROVE  [Contract!Next]_(Contract!vars)
<1> USE CallFacts
<1>1. \A d \in Calls : d # c => call'[d] = call[d] /\ task'[d] = task[d]
  BY DEF LeaveCount, LeaveBytes, TaskCount, TaskBytes
<1>2. CASE LeaveCount(c) \/ TaskCount(c) \/ TaskBytes(c)
  <2>1. task' = task /\ call'[c].pc = call[c].pc /\ call'[c].told = call[c].told
    BY <1>2 DEF LeaveCount, TaskCount, TaskBytes, CallState
  <2>2. Allowed(StageOf(task[c], call[c].pc), StageOf(task'[c], call'[c].pc),
                call[c].told, call'[c].told)
    BY <2>1 DEF Allowed
  <2> QED
    BY <1>1, <2>2, CallMaps
<1>3. CASE LeaveBytes(c)
  <2> DEFINE told == IF call[c].pc = "leaving" THEN "not_started" ELSE "nothing"
             done == Finished(call[c], told)
  <2>1. /\ call[c].pc \in {"leaving", "vanishing"} /\ task[c] = "none" /\ task' = task
        /\ call[c].told = "nothing" /\ call'[c] = [done EXCEPT !.guard = "none"]
    BY <1>3 DEF LeaveBytes, Shape
  <2>2. told \in {"not_started", "nothing"}
    OBVIOUS
  <2> HIDE DEF told
  <2>3. done \in CallState /\ done.pc = "done" /\ done.told = told
    BY <2>2, FinishedFacts DEF Tellings
  <2> HIDE DEF done
  <2>4. call'[c].pc = "done" /\ call'[c].told = told
    BY <2>1, <2>3 DEF CallState
  <2>5. Allowed(StageOf(task[c], call[c].pc), StageOf(task'[c], call'[c].pc),
                call[c].told, call'[c].told)
    BY <2>1, <2>2, <2>4, StageFacts DEF Allowed
  <2> QED
    BY <1>1, <2>5, CallMaps
<1> QED
  BY <1>2, <1>3

\* The task comes to its end, or hangs.
LEMMA TaskMaps ==
  ASSUME IInv, NEW c \in Calls,
         \/ \E how \in {"answered", "panicked"} : TaskEnd(c, how)
         \/ TaskHangs(c) \/ TaskPermit(c)
  PROVE  [Contract!Next]_(Contract!vars)
<1> USE CallFacts
<1>1. \A d \in Calls : d # c => call'[d] = call[d] /\ task'[d] = task[d]
  BY DEF TaskEnd, TaskHangs, TaskPermit
<1>2. /\ call' = call
      /\ \/ task[c] = "running" /\ task'[c] \in {"answered", "panicked", "stuck"}
         \/ task[c] \in {"answered", "panicked"} /\ task'[c] \in {"over", "failed"}
  BY DEF TaskEnd, TaskHangs, TaskPermit
<1>3. Allowed(StageOf(task[c], call[c].pc), StageOf(task'[c], call'[c].pc),
              call[c].told, call'[c].told)
  BY <1>2, StageFacts DEF Allowed
<1> QED
  BY <1>1, <1>3, CallMaps

\* The answers of a call that executes.
LEMMA AnswerMaps ==
  ASSUME IInv, NEW c \in Calls, CallAnswer(c) \/ CallGivesUp(c) \/ CallDropped(c)
  PROVE  [Contract!Next]_(Contract!vars)
<1> USE CallFacts
<1>1. PICK told \in {"answer", "outcome_unknown", "nothing"} :
        /\ Answer(c, told) /\ task' = task
        /\ told = "answer" => task[c] = "over"
  BY DEF CallAnswer, CallGivesUp, CallDropped
<1>2. call[c].pc = "executing" /\ task[c] # "none" /\ call[c].told = "nothing"
  BY <1>1 DEF Answer, Shape
<1>3. call' = [call EXCEPT ![c] = Finished(call[c], told)]
  BY <1>1 DEF Answer
<1>4. /\ \A d \in Calls : d # c => call'[d] = call[d] /\ task'[d] = task[d]
      /\ call'[c].told = told
  BY <1>1, <1>3, FinishedFacts DEF Tellings
<1>5. task[c] \in {"running", "stuck", "answered", "panicked", "over", "failed"}
  BY <1>2 DEF TaskStates
<1>6. Allowed(StageOf(task[c], call[c].pc), StageOf(task'[c], call'[c].pc),
              call[c].told, call'[c].told)
  BY <1>1, <1>2, <1>4, <1>5, StageFacts DEF Allowed
<1> QED
  BY <1>4, <1>6, CallMaps

\* Every step of the client is a step of the contract or none.
LEMMA StepMaps ==
  ASSUME IInv, [Next]_vars
  PROVE  [Contract!Next]_(Contract!vars)
<1>1. ASSUME NEW c \in Calls,
             CallStep(c) \/ TaskStep(c) \/ TaskHangs(c) \/ QueueDropped(c) \/ CallDropped(c)
      PROVE  [Contract!Next]_(Contract!vars)
  <2>1. CASE QueueTimeout(c) \/ QueueClosed(c) \/ QueueDropped(c)
    BY <2>1, QueueMaps DEF QueueTimeout, QueueClosed, QueueDropped
  <2>2. CASE CallStep(c)
    BY <2>1, <2>2, ReserveMaps, QueueMaps, DropMaps, AnswerMaps DEF CallStep
  <2>3. CASE TaskStep(c)
    BY <2>3, DropMaps, TaskMaps DEF TaskStep
  <2> QED
    BY <1>1, <2>1, <2>2, <2>3, TaskMaps, AnswerMaps
<1>2. ASSUME NEW t \in Threads, ConnectionStep(t)
      PROVE  [Contract!Next]_(Contract!vars)
  BY <1>2, CalmMaps DEF ConnectionStep, TakeConnection, OpenConnection, LoseConnection,
                        GiveConnection
<1>3. ASSUME NEW h \in Hosts, StartStep(h) \/ LoopTick(h) \/ HostTick(h) \/ TickEnd(h)
                              \/ LoopBreak(h) \/ HandleShutdown(h)
      PROVE  [Contract!Next]_(Contract!vars)
  BY <1>3, CalmMaps DEF StartStep, StartCheck, StartSpawn, ServeBind, StartPublish, LoopTick,
                        HostTick, StartTick, TickEnd, LoopBreak, HandleShutdown
<1>4. CASE PoolWhim \/ CloseMark \/ CloseStep
  BY <1>4, CalmMaps DEF PoolWhim, CloseMark, CloseStep, CloseCancel, CloseHost, ClosePoll
<1>5. CASE UNCHANGED vars
  BY <1>5, CalmMaps DEF vars
<1> QED
  BY <1>1, <1>2, <1>3, <1>4, <1>5, CallBeginMaps DEF Next

\* call_json implements the contract of its answers: "not_started" is said only of calls
\* that are never executed, an answer only of a finished execution, and one answer is
\* final, whatever timeouts, cancellations, panics and dropped futures happen.
THEOREM Refinement == Spec => Implements
<1>1. Init => Contract!Init
  <2> SUFFICES ASSUME Init PROVE Contract!Init
    OBVIOUS
  <2>1. \A c \in Calls : Stage(c) = "new" /\ call[c].told = "nothing"
    BY StageIs, StageFacts DEF Init
  <2> QED
    BY <2>1 DEF Contract!Init
<1>2. IInv /\ [Next]_vars => [Contract!Next]_(Contract!vars)
  BY StepMaps
<1> QED
  BY <1>1, <1>2, InductiveInvariant, PTL DEF Spec, Implements, Contract!Spec

-----------------------------------------------------------------------------
(* ReplayGate: the samples of a replay, sorted, and the percentile taken.  *)

\* The samples of a replay: as many naturals as it has cases.
Samples(s, n) == n \in Nat /\ DOMAIN s = 1 .. n /\ \A i \in 1 .. n : s[i] \in Nat

\* The samples that come no later than sample i.
Upto(s, i) == {j \in DOMAIN s : s[j] < s[i] \/ (s[j] = s[i] /\ j <= i)}

\* Sorting puts every sample at a place of its own.
LEMMA PositionsDiffer ==
  ASSUME NEW n, NEW s, Samples(s, n)
  PROVE  /\ \A i \in 1 .. n : IsFiniteSet(Upto(s, i)) /\ Cardinality(Upto(s, i)) \in 1 .. n
         /\ \A i, j \in 1 .. n : Cardinality(Upto(s, i)) = Cardinality(Upto(s, j)) => i = j
<1>1. IsFiniteSet(1 .. n) /\ Cardinality(1 .. n) = n
  BY FS_Interval DEF Samples
<1>2. ASSUME NEW i \in 1 .. n
      PROVE  IsFiniteSet(Upto(s, i)) /\ Cardinality(Upto(s, i)) \in 1 .. n
  <2>1. Upto(s, i) \in SUBSET (1 .. n) /\ i \in Upto(s, i)
    BY DEF Upto, Samples
  <2>2. IsFiniteSet(Upto(s, i)) /\ Cardinality(Upto(s, i)) <= n
    BY <1>1, <2>1, FS_Subset
  <2>3. Cardinality(Upto(s, i)) \in Nat /\ Cardinality(Upto(s, i)) # 0
    BY <2>1, <2>2, FS_CardinalityType, FS_EmptySet
  <2> QED
    BY <2>2, <2>3 DEF Samples
<1>3. ASSUME NEW i \in 1 .. n, NEW j \in 1 .. n, s[i] < s[j] \/ (s[i] = s[j] /\ i < j)
      PROVE  Cardinality(Upto(s, i)) # Cardinality(Upto(s, j))
  <2>1. s[i] \in Nat /\ s[j] \in Nat /\ \A k \in DOMAIN s : s[k] \in Nat /\ k \in Nat
    BY DEF Samples
  <2>2. Upto(s, i) \in SUBSET Upto(s, j)
    BY <1>3, <2>1 DEF Upto
  <2>3. j \in Upto(s, j) /\ j \notin Upto(s, i)
    BY <1>3, <2>1 DEF Upto, Samples
  <2>4. Upto(s, i) # Upto(s, j)
    BY <2>3
  <2> QED
    BY <1>2, <2>2, <2>4, FS_Subset
<1>4. \A i, j \in 1 .. n : i # j =>
        \/ s[i] < s[j] \/ (s[i] = s[j] /\ i < j)
        \/ s[j] < s[i] \/ (s[j] = s[i] /\ j < i)
  BY DEF Samples
<1> QED
  BY <1>2, <1>3, <1>4

\* So every place is taken, by the sample that Sorted has there.
LEMMA SortedIs ==
  ASSUME NEW n, NEW s, Samples(s, n), NEW k \in 1 .. n
  PROVE  \E i \in 1 .. n : Cardinality(Upto(s, i)) = k /\ Sorted(s)[k] = s[i]
<1> DEFINE place == [i \in 1 .. n |-> Cardinality(Upto(s, i))]
<1>1. IsFiniteSet(1 .. n)
  BY FS_Interval DEF Samples
<1>2. place \in [1 .. n -> 1 .. n] /\ \A i, j \in 1 .. n : place[i] = place[j] => i = j
  BY PositionsDiffer
<1> HIDE DEF place
<1>3. place \in Injection(1 .. n, 1 .. n)
  BY <1>2, Fun_IsInj
<1>4. place \in Surjection(1 .. n, 1 .. n)
  BY <1>1, <1>3, FS_Injection
<1>5. PICK i \in 1 .. n : place[i] = k
  <2>1. \A t \in 1 .. n : \E i \in 1 .. n : place[i] = t
    BY <1>4, SMTT(20), ZenonT(40) DEF Surjection
  <2> QED
    BY <2>1
<1>6. \A x \in DOMAIN s : Position(s, x) = Cardinality(Upto(s, x))
  BY DEF Position, Upto
<1>7. DOMAIN s = 1 .. n /\ Position(s, i) = k
  BY <1>5, <1>6 DEF place, Samples
<1> DEFINE at == CHOOSE x \in DOMAIN s : Position(s, x) = k
<1>8. at \in 1 .. n /\ Position(s, at) = k
  BY <1>7
<1>9. Sorted(s)[k] = s[at]
  BY <1>7 DEF Sorted
<1> HIDE DEF at
<1> QED
  BY <1>6, <1>7, <1>8, <1>9

\* A share of a number, rounded down.
LEMMA ShareBounds ==
  ASSUME NEW n \in Nat \ {0}, NEW T \in Nat \ {0, 1}, NEW q, q = n \div T
  PROVE  /\ q \in Nat /\ n - q \in 1 .. n
         /\ T * (n - q) >= (T - 1) * n /\ T * (n - q - 1) < (T - 1) * n
<1>1. q \in Nat /\ T * q <= n /\ n < T * q + T
  OBVIOUS
<1>2. 2 * q <= T * q
  BY <1>1
<1>3. T * (n - q) >= (T - 1) * n /\ T * (n - q - 1) < (T - 1) * n
  BY <1>1
<1> QED
  BY <1>1, <1>2, <1>3

\* The sample that all but one in T of the samples do not exceed.
NearestRank(s, n, T) ==
  LET AtMost(x) == Cardinality({i \in 1 .. n : s[i] <= x})
  IN  Min({x \in {s[i] : i \in 1 .. n} : T * AtMost(x) >= (T - 1) * n})

\* The sample at n - n \div T in the sorted sequence is the nearest-rank percentile.
LEMMA TailIsRank ==
  ASSUME NEW n \in Nat \ {0}, NEW s, Samples(s, n), NEW T \in Nat \ {0, 1}
  PROVE  /\ Sorted(s)[n - n \div T] = NearestRank(s, n, T)
         /\ Sorted(s)[n - n \div T] \in {s[i] : i \in 1 .. n}
<1> DEFINE q == n \div T
           k == n - q
           x == Sorted(s)[k]
           Low(y) == {i \in 1 .. n : s[i] <= y}
<1>1. /\ k \in 1 .. n /\ q \in Nat
      /\ T * k >= (T - 1) * n /\ T * (k - 1) < (T - 1) * n
  <2> DEFINE r == n \div T
  <2>1. r = n \div T
    OBVIOUS
  <2> HIDE DEF r
  <2>2. r \in Nat /\ n - r \in 1 .. n /\ T * (n - r) >= (T - 1) * n /\ T * (n - r - 1) < (T - 1) * n
    BY <2>1, ShareBounds
  <2> QED
    BY <2>1, <2>2
<1>2. IsFiniteSet(1 .. n)
  BY FS_Interval
<1> HIDE DEF k, q
<1>3. PICK i \in 1 .. n : Cardinality(Upto(s, i)) = k /\ x = s[i]
  BY <1>1, SortedIs
<1> HIDE DEF x
<1>4. DOMAIN s = 1 .. n /\ \A j \in 1 .. n : s[j] \in Nat
  BY DEF Samples
<1>5. \A y : IsFiniteSet(Low(y)) /\ Cardinality(Low(y)) \in Nat
  <2> SUFFICES ASSUME NEW y PROVE IsFiniteSet(Low(y)) /\ Cardinality(Low(y)) \in Nat
    OBVIOUS
  <2>1. Low(y) \in SUBSET (1 .. n)
    OBVIOUS
  <2> HIDE DEF Low
  <2> QED
    BY <1>2, <2>1, FS_Subset, FS_CardinalityType
<1>6. T * Cardinality(Low(x)) >= (T - 1) * n
  <2>1. Upto(s, i) \in SUBSET Low(x)
    BY <1>3, <1>4 DEF Upto
  <2> HIDE DEF Low
  <2>2. k <= Cardinality(Low(x)) /\ Cardinality(Low(x)) \in Nat
    BY <1>3, <1>5, <2>1, FS_Subset
  <2>3. T * k <= T * Cardinality(Low(x))
    BY <1>1, <2>2
  <2>4. T * k \in Int /\ T * Cardinality(Low(x)) \in Int /\ (T - 1) * n \in Int
    BY <1>1, <2>2
  <2> QED
    BY <1>1, <2>3, <2>4
<1>7. ASSUME NEW y \in {s[j] : j \in 1 .. n}, T * Cardinality(Low(y)) >= (T - 1) * n
      PROVE  x <= y
  <2> SUFFICES ASSUME y < x PROVE FALSE
    BY <1>3, <1>4
  <2>1. Low(y) \in SUBSET (Upto(s, i) \ {i})
    BY <1>3, <1>4 DEF Upto
  <2>2. i \in Upto(s, i) /\ IsFiniteSet(Upto(s, i))
    <3>1. i \in Upto(s, i)
      BY <1>3, <1>4 DEF Upto
    <3>2. \A j \in 1 .. n : IsFiniteSet(Upto(s, j))
      BY PositionsDiffer
    <3> QED
      BY <1>3, <3>1, <3>2
  <2> HIDE DEF Low
  <2>3. IsFiniteSet(Upto(s, i) \ {i}) /\ Cardinality(Upto(s, i) \ {i}) = k - 1
    BY <1>3, <2>2, FS_RemoveElement
  <2>4. Cardinality(Low(y)) <= k - 1 /\ Cardinality(Low(y)) \in Nat
    BY <1>5, <2>1, <2>3, FS_Subset
  <2>5. T * Cardinality(Low(y)) <= T * (k - 1)
    BY <1>1, <2>4
  <2>6. T * Cardinality(Low(y)) \in Int /\ T * (k - 1) \in Int /\ (T - 1) * n \in Int
    BY <1>1, <2>4
  <2> QED
    BY <1>1, <1>7, <2>5, <2>6
<1>8. x \in {s[j] : j \in 1 .. n}
  BY <1>3
<1> DEFINE good == {y \in {s[j] : j \in 1 .. n} : T * Cardinality(Low(y)) >= (T - 1) * n}
<1>9. x \in good /\ \A y \in good : x <= y /\ y \in Nat
  BY <1>4, <1>6, <1>7, <1>8
<1>10. NearestRank(s, n, T) = Min(good)
  BY DEF NearestRank
<1> HIDE DEF good
<1>11. Min(good) = x
  <2>1. Min(good) \in good /\ \A y \in good : Min(good) <= y
    BY <1>9 DEF Min
  <2> QED
    BY <1>9, <2>1
<1> QED
  BY <1>8, <1>10, <1>11 DEF x, k, q

-----------------------------------------------------------------------------
(* The inductive invariant.                                                *)

Rates == Nat \X Nat
Measures == [recall: Rates, contradiction: Rates, reminder: Rates,
             p95: Nat, max: Nat, destructive: Nat]

\* The report of a side is what its replay measured, but for a score the caller
\* changed.
Genuine(s) ==
  LET real == Metrics(Observations(s))
      m == report[s].metrics
      Changed(k) == m[k] = <<1, 1>> /\ ~Equal(real[k], <<1, 1>>)
  IN
  /\ ValidSuite(suite) /\ Len(answers[s]) = Len(suite) /\ Measurable(Observations(s))
  /\ report[s] = [suite |-> suite, meta |-> report[s].meta, obs |-> Observations(s), metrics |-> m]
  /\ m \in Measures /\ m.p95 = real.p95 /\ m.max = real.max /\ m.destructive = real.destructive
  /\ \A k \in Scores : m[k] = real[k] \/ (s = "candidate" /\ altered /\ Changed(k))
  /\ s = "candidate" /\ altered => \E k \in Scores : Changed(k)

GateTyped ==
  /\ suite \in Suites /\ side \in Sides \cup {"gate", "done"}
  /\ answers \in [Sides -> Seq(Answers)] /\ \A s \in Sides : Len(answers[s]) <= Len(suite)
  /\ timing \in [Sides -> Timings] /\ altered \in BOOLEAN
  /\ report = [s \in Sides |-> report[s]]
  /\ verdict \in {"none", "accepted", "rejected"}

GateInv ==
  /\ GateTyped
  /\ \A s \in Sides : report[s] = Absent \/ Genuine(s)
  /\ side = "baseline" => report["baseline"] = Absent
  /\ side \in Sides => report["candidate"] = Absent /\ ~altered
  /\ side = "candidate" => Genuine("baseline")
  /\ side = "gate" \/ verdict # "none" => Genuine("baseline") /\ Genuine("candidate")
  /\ altered => side = "gate" \/ verdict # "none"
  /\ verdict # "none" => side = "done"
  /\ verdict = "accepted" => Gate(report["baseline"], report["candidate"])
  /\ verdict = "rejected" => ~Gate(report["baseline"], report["candidate"])

-----------------------------------------------------------------------------
(* What is measured of a replay.                                           *)

\* What a list of observations may be summarised from.
Summable(obs, n) ==
  /\ n \in Nat \ {0} /\ DOMAIN obs = 1 .. n
  /\ \A i \in 1 .. n :
       /\ obs[i].ns \in Nat /\ obs[i].destructive \in Nat
       /\ obs[i].kind = "retrieval" =>
            obs[i].matched \in Nat /\ obs[i].expected \in Nat /\ obs[i].matched <= obs[i].expected

\* A sum of no larger terms is no larger.
LEMMA SumLeq ==
  ASSUME NEW f, NEW g, NEW S, IsFiniteSet(S),
         \A x \in S : f[x] \in Nat /\ g[x] \in Nat /\ f[x] <= g[x]
  PROVE  SumOver(f, S) <= SumOver(g, S)
<1>1. PICK a : Sums(f, S, a)
  BY SumsExists
<1>2. PICK b : Sums(g, S, b)
  BY SumsExists
<1> DEFINE good == {T \in SUBSET S : a[T] \in Nat /\ b[T] \in Nat /\ a[T] <= b[T]}
<1>3. ASSUME NEW T \in SUBSET S, \A U \in SUBSET T : U # T => U \in good
      PROVE  T \in good
  <2>1. CASE T = {}
    <3>1. a[T] = 0 /\ b[T] = 0
      BY <1>1, <1>2, <2>1, SumsAt
    <3> QED
      BY <3>1
  <2>2. CASE T # {}
    <3>1. Pick(T) \in T
      BY <2>2, PickIn
    <3>2. T \ {Pick(T)} \in good
      BY <1>3, <3>1
    <3>3. a[T] = f[Pick(T)] + a[T \ {Pick(T)}] /\ b[T] = g[Pick(T)] + b[T \ {Pick(T)}]
      BY <1>1, <1>2, <2>2, SumsAt
    <3> QED
      BY <3>1, <3>2, <3>3
  <2> QED
    BY <2>1, <2>2
<1>4. SUBSET S \subseteq good
  <2> HIDE DEF good
  <2> QED BY <1>3, SubsetInduction
<1>5. SumOver(f, S) = a[S] /\ SumOver(g, S) = b[S]
  BY <1>1, <1>2, SumIs
<1> QED
  BY <1>4, <1>5

\* A sum is zero when all its terms are, and only then.
LEMMA SumZero ==
  ASSUME NEW f, NEW S, IsFiniteSet(S), \A x \in S : f[x] \in Nat
  PROVE  SumOver(f, S) = 0 <=> \A x \in S : f[x] = 0
<1>1. ASSUME SumOver(f, S) = 0, NEW x \in S PROVE f[x] = 0
  <2>1. SumOver(f, S) = f[x] + SumOver(f, S \ {x})
    BY SumAdd
  <2>2. IsFiniteSet(S \ {x})
    BY FS_RemoveElement
  <2>3. SumOver(f, S \ {x}) \in Nat
    BY <2>2, SumNat
  <2> QED
    BY <1>1, <2>1, <2>3
<1>2. ASSUME \A x \in S : f[x] = 0 PROVE SumOver(f, S) = 0
  <2> DEFINE zero == [x \in S |-> 0]
  <2>1. SumOver(f, S) <= SumOver(zero, S)
    BY <1>2, SumLeq
  <2>2. PICK it : Sums(zero, S, it)
    BY SumsExists
  <2> DEFINE good == {T \in SUBSET S : it[T] = 0}
  <2>3. ASSUME NEW T \in SUBSET S, \A U \in SUBSET T : U # T => U \in good
        PROVE  T \in good
    <3>1. CASE T = {}
      BY <2>2, <3>1, SumsAt
    <3>2. CASE T # {}
      <4>1. Pick(T) \in T
        BY <3>2, PickIn
      <4>2. T \ {Pick(T)} \in good /\ zero[Pick(T)] = 0
        BY <2>3, <4>1
      <4>3. it[T] = zero[Pick(T)] + it[T \ {Pick(T)}]
        BY <2>2, <3>2, SumsAt
      <4> QED
        BY <4>2, <4>3
    <3> QED
      BY <3>1, <3>2
  <2>4. SUBSET S \subseteq good
    <3> HIDE DEF good
    <3> QED BY <2>3, SubsetInduction
  <2>5. SumOver(zero, S) = 0
    BY <2>2, <2>4, SumIs
  <2>6. SumOver(f, S) \in Nat
    BY SumNat
  <2> QED
    BY <2>1, <2>5, <2>6
<1> QED
  BY <1>1, <1>2

\* A score is a part of a whole.
LEMMA ScoreFacts ==
  ASSUME NEW obs, NEW n, Summable(obs, n)
  PROVE  /\ RecallOf(obs) \in Rates /\ RecallOf(obs)[1] <= RecallOf(obs)[2]
         /\ \A k \in CaseKinds :
              /\ Accuracy(obs, k) \in Rates /\ Accuracy(obs, k)[1] <= Accuracy(obs, k)[2]
<1>1. IsFiniteSet(1 .. n)
  <2>1. n \in Int
    BY DEF Summable
  <2> QED
    BY <2>1, FS_Interval
<1>2. \A k : Of(obs, k) \in SUBSET (1 .. n)
  BY DEF Of, Summable
<1>3. \A k : IsFiniteSet(Of(obs, k))
  BY <1>1, <1>2, FS_Subset
<1>4. RecallOf(obs) \in Rates /\ RecallOf(obs)[1] <= RecallOf(obs)[2]
  <2> DEFINE S == Of(obs, "retrieval")
             f == [i \in DOMAIN obs |-> obs[i].matched]
             g == [i \in DOMAIN obs |-> obs[i].expected]
  <2>1. \A x \in S : f[x] \in Nat /\ g[x] \in Nat /\ f[x] <= g[x]
    BY DEF Of, Summable
  <2>2. IsFiniteSet(S)
    BY <1>3
  <2>3. RecallOf(obs) = <<SumOver(f, S), SumOver(g, S)>>
    BY DEF RecallOf
  <2> HIDE DEF S, f, g
  <2>4. SumOver(f, S) \in Nat /\ SumOver(g, S) \in Nat /\ SumOver(f, S) <= SumOver(g, S)
    BY <2>1, <2>2, SumNat, SumLeq
  <2> QED
    BY <2>3, <2>4 DEF Rates
<1>5. ASSUME NEW k \in CaseKinds
      PROVE  Accuracy(obs, k) \in Rates /\ Accuracy(obs, k)[1] <= Accuracy(obs, k)[2]
  <2> DEFINE S == Of(obs, k)
             T == {i \in Of(obs, k) : obs[i].expected = obs[i].observed}
  <2>1. T \in SUBSET S /\ IsFiniteSet(S) /\ Accuracy(obs, k) = <<Cardinality(T), Cardinality(S)>>
    BY <1>3 DEF Accuracy
  <2> HIDE DEF S, T
  <2>2. IsFiniteSet(T) /\ Cardinality(T) <= Cardinality(S)
    BY <2>1, FS_Subset
  <2>3. Cardinality(T) \in Nat /\ Cardinality(S) \in Nat
    BY <2>1, <2>2, FS_CardinalityType
  <2> QED
    BY <2>1, <2>2, <2>3 DEF Rates
<1> QED
  BY <1>4, <1>5

\* The greatest of the samples is one of them.
LEMMA MaxIs ==
  ASSUME NEW n \in Nat \ {0}, NEW s, Samples(s, n)
  PROVE  /\ Max({s[i] : i \in 1 .. n}) \in {s[i] : i \in 1 .. n}
         /\ \A i \in 1 .. n : s[i] <= Max({s[j] : j \in 1 .. n})
<1>1. PICK i \in 1 .. n : Cardinality(Upto(s, i)) = n
  BY SortedIs
<1>2. IsFiniteSet(1 .. n) /\ Cardinality(1 .. n) = n
  BY FS_Interval
<1>3. Upto(s, i) = 1 .. n
  <2>1. Upto(s, i) \in SUBSET (1 .. n)
    BY DEF Upto, Samples
  <2> QED
    BY <1>1, <1>2, <2>1, FS_Subset
<1>4. \A j \in 1 .. n : s[j] <= s[i]
  BY <1>3 DEF Upto, Samples
<1> DEFINE all == {s[j] : j \in 1 .. n}
<1>5. s[i] \in all /\ \A y \in all : s[i] >= y
  BY <1>4 DEF Samples
<1>6. Max(all) \in all /\ \A y \in all : Max(all) >= y
  <2> HIDE DEF all
  <2> QED
    BY <1>5 DEF Max
<1> QED
  BY <1>6 DEF Samples

\* What is summarised of typed observations.
LEMMA MetricsFacts ==
  ASSUME NEW obs, NEW n, Summable(obs, n), Len(obs) = n
  PROVE  LET m == Metrics(obs)
             s == [i \in 1 .. n |-> obs[i].ns]
         IN  /\ m \in Measures
             /\ \A k \in Scores : m[k] \in Rates /\ m[k][1] <= m[k][2]
             /\ m.p95 = NearestRank(s, n, TailShare)
             /\ \E i \in 1 .. n : m.max = obs[i].ns
             /\ m.destructive = 0 <=> \A i \in 1 .. n : obs[i].destructive = 0
<1> DEFINE s == [i \in 1 .. n |-> obs[i].ns]
           d == [i \in 1 .. n |-> obs[i].destructive]
           m == Metrics(obs)
<1>1. Samples(s, n) /\ n \in Nat \ {0} /\ DOMAIN obs = 1 .. n
  BY DEF Samples, Summable
<1>2. TailShare \in Nat \ {0, 1} /\ TailIndex(n) + 1 = n - n \div TailShare
  <2> DEFINE q == n \div TailShare
  <2>1. TailShare \in Nat \ {0, 1} /\ n \in Nat \ {0} /\ q = n \div TailShare
    BY <1>1, GateAssumption
  <2> HIDE DEF q
  <2>2. q \in Nat /\ n - q \in 1 .. n
    BY <2>1, ShareBounds
  <2>3. n - q - 1 + 1 = n - q
    BY <2>1, <2>2
  <2> QED
    BY <2>1, <2>3 DEF TailIndex
<1>3. m = [recall |-> RecallOf(obs), contradiction |-> Accuracy(obs, "contradiction"),
           reminder |-> Accuracy(obs, "reminder"), p95 |-> Sorted(s)[TailIndex(Len(s)) + 1],
           max |-> Max({s[i] : i \in 1 .. n}), destructive |-> SumOver(d, 1 .. n)]
  BY <1>1 DEF Metrics, TailLatency, Destroyed
<1>4. Len(s) = n
  BY <1>1
<1>5. IsFiniteSet(1 .. n) /\ \A i \in 1 .. n : d[i] \in Nat
  <2>1. IsFiniteSet(1 .. n)
    BY <1>1, FS_Interval
  <2>2. \A i \in 1 .. n : d[i] \in Nat
    BY DEF Summable
  <2> QED
    BY <2>1, <2>2
<1> HIDE DEF s, d, m
<1>6. /\ Sorted(s)[n - n \div TailShare] = NearestRank(s, n, TailShare)
      /\ Sorted(s)[n - n \div TailShare] \in {s[i] : i \in 1 .. n}
  BY <1>1, <1>2, TailIsRank
<1>7. \A x \in {s[i] : i \in 1 .. n} : x \in Nat
  BY <1>1 DEF Samples
<1>8. Max({s[i] : i \in 1 .. n}) \in {s[i] : i \in 1 .. n}
  BY <1>1, MaxIs
<1>9. SumOver(d, 1 .. n) \in Nat /\ (SumOver(d, 1 .. n) = 0 <=> \A i \in 1 .. n : d[i] = 0)
  BY <1>5, SumNat, SumZero
<1>10. /\ RecallOf(obs) \in Rates /\ RecallOf(obs)[1] <= RecallOf(obs)[2]
       /\ Accuracy(obs, "contradiction") \in Rates
       /\ Accuracy(obs, "contradiction")[1] <= Accuracy(obs, "contradiction")[2]
       /\ Accuracy(obs, "reminder") \in Rates
       /\ Accuracy(obs, "reminder")[1] <= Accuracy(obs, "reminder")[2]
  BY ScoreFacts DEF CaseKinds
<1>11. m.p95 = NearestRank(s, n, TailShare) /\ m.p95 \in Nat
  BY <1>2, <1>3, <1>4, <1>6, <1>7
<1>12. m.max \in Nat /\ \E i \in 1 .. n : m.max = s[i]
  BY <1>3, <1>7, <1>8
<1>13. m \in Measures
  BY <1>3, <1>9, <1>10, <1>11, <1>12 DEF Measures
<1>14. \A k \in Scores : m[k] \in Rates /\ m[k][1] <= m[k][2]
  BY <1>3, <1>10 DEF Scores
<1>15. \E i \in 1 .. n : m.max = obs[i].ns
  BY <1>12 DEF s
<1>16. m.destructive = 0 <=> \A i \in 1 .. n : obs[i].destructive = 0
  BY <1>3, <1>9 DEF d
<1> QED
  BY <1>11, <1>13, <1>14, <1>15, <1>16 DEF m, s

-----------------------------------------------------------------------------
(* What is observed of a replay.                                           *)

\* What the assumption says of a suite.
LEMMA SuiteFacts ==
  ASSUME NEW s \in Suites
  PROVE  /\ Len(s) \in Nat /\ DOMAIN s = 1 .. Len(s)
         /\ \A i \in 1 .. Len(s) :
              /\ s[i].kind \in CaseKinds
              /\ IsFiniteSet(s[i].relevant) /\ IsFiniteSet(s[i].forbidden)
              /\ s[i].kind # "retrieval" => s[i].relevant = {} /\ s[i].forbidden = {}
              /\ \A t \in Timings : t[i] \in Nat
<1>1. s \in Seq({s[i] : i \in DOMAIN s})
  BY GateAssumption
<1>2. Len(s) \in Nat /\ DOMAIN s = 1 .. Len(s)
  BY <1>1
<1> QED
  BY <1>2, GateAssumption

\* Of the ids a host returned, those relevant and those forbidden are apart.
LEMMA CountsFit ==
  ASSUME NEW R, NEW F, NEW A, IsFiniteSet(R), IsFiniteSet(F), IsFiniteSet(A), R \cap F = {}
  PROVE  /\ Cardinality(R) \in Nat /\ Cardinality(A) \in Nat
         /\ Cardinality(R \cap A) \in Nat /\ Cardinality(F \cap A) \in Nat
         /\ Cardinality(R \cap A) <= Cardinality(R) /\ Cardinality(R \cap A) <= Cardinality(A)
         /\ Cardinality(F \cap A) <= Cardinality(A) - Cardinality(R \cap A)
<1>1. R \cap A \in SUBSET R /\ R \cap A \in SUBSET A /\ F \cap A \in SUBSET A
  OBVIOUS
<1>2. /\ IsFiniteSet(R \cap A) /\ IsFiniteSet(F \cap A)
      /\ Cardinality(R \cap A) <= Cardinality(R) /\ Cardinality(R \cap A) <= Cardinality(A)
  BY <1>1, FS_Subset
<1>3. Cardinality((R \cap A) \cup (F \cap A)) = Cardinality(R \cap A) + Cardinality(F \cap A)
  <2>1. (R \cap A) \cap (F \cap A) = {}
    OBVIOUS
  <2>2. /\ Cardinality((R \cap A) \cup (F \cap A))
             = Cardinality(R \cap A) + Cardinality(F \cap A) - Cardinality((R \cap A) \cap (F \cap A))
    BY <1>2, FS_Union
  <2>3. Cardinality((R \cap A) \cap (F \cap A)) = 0
    BY <2>1, FS_EmptySet
  <2>4. Cardinality(R \cap A) \in Nat /\ Cardinality(F \cap A) \in Nat
    BY <1>2, FS_CardinalityType
  <2> QED
    BY <2>2, <2>3, <2>4
<1>4. Cardinality((R \cap A) \cup (F \cap A)) <= Cardinality(A)
  <2>1. (R \cap A) \cup (F \cap A) \in SUBSET A
    OBVIOUS
  <2> QED
    BY <2>1, FS_Subset
<1>5. /\ Cardinality(R \cap A) \in Nat /\ Cardinality(F \cap A) \in Nat
      /\ Cardinality(A) \in Nat /\ Cardinality(R) \in Nat
  BY <1>2, FS_CardinalityType
<1> QED
  BY <1>2, <1>3, <1>4, <1>5

\* The observations of a full replay are those of the suite's cases and can be
\* summarised; none of them looks inconsistent.
LEMMA ObservationFacts ==
  ASSUME GateTyped, NEW s \in Sides, ValidSuite(suite), Len(answers[s]) = Len(suite)
  PROVE  /\ DOMAIN suite = 1 .. Len(suite)
         /\ Summable(Observations(s), Len(suite)) /\ Len(Observations(s)) = Len(suite)
         /\ \A i \in 1 .. Len(suite) :
              /\ suite[i].kind \in CaseKinds
              /\ suite[i].kind # "retrieval" => suite[i].relevant = {} /\ suite[i].forbidden = {}
              /\ answers[s][i] \in Answers /\ IsFiniteSet(answers[s][i].ids)
              /\ timing[s][i] \in Nat
              /\ Observations(s)[i] = Observe(suite[i], answers[s][i], timing[s][i])
              /\ Consistent(Observations(s)[i])
<1> DEFINE n == Len(suite)
           obs == Observations(s)
<1>1. suite \in Suites /\ timing[s] \in Timings /\ answers[s] \in Seq(Answers)
  BY DEF GateTyped
<1>2. /\ n \in Nat /\ DOMAIN suite = 1 .. n
      /\ \A i \in 1 .. n :
           /\ suite[i].kind \in CaseKinds
           /\ IsFiniteSet(suite[i].relevant) /\ IsFiniteSet(suite[i].forbidden)
           /\ suite[i].kind # "retrieval" => suite[i].relevant = {} /\ suite[i].forbidden = {}
           /\ \A t \in Timings : t[i] \in Nat
  BY <1>1, SuiteFacts
<1>3. n # 0
  <2>1. suite # <<>> /\ suite \in Seq({suite[i] : i \in DOMAIN suite})
    BY <1>1, GateAssumption DEF ValidSuite
  <2> QED
    BY <2>1
<1>4. \A i \in 1 .. n : answers[s][i] \in Answers
  BY <1>1, <1>2
<1>5. \A i \in 1 .. n : IsFiniteSet(answers[s][i].ids) /\ answers[s][i].destructive \in Nat
  BY <1>4, GateAssumption
<1>6. \A i \in 1 .. n : suite[i].kind = "retrieval" =>
        suite[i].relevant # {} /\ suite[i].relevant \cap suite[i].forbidden = {}
  BY <1>2 DEF ValidSuite
<1>7. obs = [i \in 1 .. n |-> Observe(suite[i], answers[s][i], timing[s][i])]
  BY <1>2 DEF Observations
<1>8. \A i \in 1 .. n : timing[s][i] \in Nat
  BY <1>1, <1>2
<1> HIDE DEF n, obs
<1>9. ASSUME NEW i \in 1 .. n
      PROVE  /\ obs[i].ns \in Nat /\ obs[i].destructive \in Nat
             /\ obs[i].kind = "retrieval" =>
                  /\ obs[i].matched \in Nat /\ obs[i].expected \in Nat
                  /\ obs[i].matched <= obs[i].expected
             /\ Consistent(obs[i])
  <2> DEFINE R == suite[i].relevant
             F == suite[i].forbidden
             A == answers[s][i].ids
  <2>1. /\ obs[i].ns = timing[s][i] /\ obs[i].destructive = answers[s][i].destructive
        /\ obs[i].kind = suite[i].kind
        /\ suite[i].kind = "retrieval" => obs[i].expected = Cardinality(R)
        /\ obs[i].matched = Cardinality(R \cap A) /\ obs[i].returned = Cardinality(A)
        /\ obs[i].forbidden = Cardinality(F \cap A)
    BY <1>7 DEF Observe
  <2>2. obs[i].ns \in Nat /\ obs[i].destructive \in Nat
    BY <2>1, <1>5, <1>8
  <2>3. suite[i].kind = "retrieval" => R # {} /\ R \cap F = {}
    BY <1>6
  <2>4. IsFiniteSet(R) /\ IsFiniteSet(F) /\ IsFiniteSet(A)
    BY <1>2, <1>5
  <2> HIDE DEF R, F, A
  <2>5. CASE suite[i].kind = "retrieval"
    <3>1. /\ Cardinality(R) \in Nat /\ Cardinality(A) \in Nat
          /\ Cardinality(R \cap A) \in Nat /\ Cardinality(F \cap A) \in Nat
          /\ Cardinality(R \cap A) <= Cardinality(R) /\ Cardinality(R \cap A) <= Cardinality(A)
          /\ Cardinality(F \cap A) <= Cardinality(A) - Cardinality(R \cap A)
      BY <2>3, <2>4, <2>5, CountsFit
    <3>2. Cardinality(R) > 0
      BY <2>3, <2>4, <2>5, <3>1, FS_EmptySet
    <3> QED
      BY <2>1, <2>2, <2>5, <3>1, <3>2 DEF Consistent
  <2>6. CASE suite[i].kind # "retrieval"
    BY <2>1, <2>2, <2>6 DEF Consistent
  <2> QED
    BY <2>5, <2>6
<1>10. DOMAIN obs = 1 .. n /\ Len(obs) = n
  BY <1>2, <1>7
<1>11. Summable(obs, n)
  BY <1>2, <1>3, <1>9, <1>10 DEF Summable
<1> QED
  BY <1>2, <1>4, <1>5, <1>7, <1>8, <1>9, <1>10, <1>11 DEF n, obs

-----------------------------------------------------------------------------
(* The invariant is inductive.                                             *)

\* What a report says of a side stays true while that side's evidence stands.
LEMMA GenuineKept ==
  ASSUME NEW s \in Sides, Genuine(s), suite' = suite, timing' = timing,
         answers'[s] = answers[s], report'[s] = report[s],
         s = "candidate" => altered' = altered
  PROVE  Genuine(s)'
<1>1. Observations(s)' = Observations(s)
  BY DEF Observations
<1>2. Metrics(Observations(s))' = Metrics(Observations(s))
  BY <1>1
<1> QED
  BY <1>1, <1>2 DEF Genuine

LEMMA GateInitOK == GateInit => GateInv
<1> SUFFICES ASSUME GateInit PROVE GateInv
  OBVIOUS
<1>1. suite \in Suites /\ Len(suite) \in Nat
  BY SuiteFacts DEF GateInit
<1>2. answers \in [Sides -> Seq(Answers)] /\ \A s \in Sides : Len(answers[s]) = 0
  BY DEF GateInit
<1>3. report = [s \in Sides |-> report[s]]
  BY DEF GateInit
<1>4. GateTyped
  <2>1. \A s \in Sides : Len(answers[s]) <= Len(suite)
    BY <1>1, <1>2
  <2> QED
    BY <1>1, <1>2, <1>3, <2>1 DEF GateInit, GateTyped, Sides
<1> QED
  BY <1>4 DEF GateInit, GateInv, Sides

LEMMA ReplayCaseOK == GateInv /\ ReplayCase => GateInv'
<1> SUFFICES ASSUME GateInv, ReplayCase PROVE GateInv'
  OBVIOUS
<1>1. PICK a \in Answers : answers' = [answers EXCEPT ![side] = Append(@, a)]
  BY DEF ReplayCase
<1>2. side \in Sides /\ side # "gate" /\ verdict = "none" /\ report[side] = Absent
  BY DEF ReplayCase, GateInv, Sides, GateTyped
<1>3. suite \in Suites /\ answers \in [Sides -> Seq(Answers)] /\ Len(suite) \in Nat
  BY SuiteFacts DEF GateInv, GateTyped
<1>4. /\ answers' \in [Sides -> Seq(Answers)]
      /\ Len(answers'[side]) = Len(answers[side]) + 1
      /\ \A s \in Sides : s # side => answers'[s] = answers[s]
  BY <1>1, <1>2, <1>3
<1>5. GateTyped'
  <2>1. \A s \in Sides : Len(answers'[s]) <= Len(suite)
    <3>1. Len(answers[side]) < Len(suite) /\ Len(answers[side]) \in Nat
      BY <1>2, <1>3 DEF ReplayCase
    <3>2. Len(answers'[side]) <= Len(suite)
      BY <1>3, <1>4, <3>1
    <3>3. \A s \in Sides : Len(answers[s]) <= Len(suite)
      BY DEF GateInv, GateTyped
    <3>4. \A s \in Sides : s # side => Len(answers'[s]) <= Len(suite)
      BY <1>4, <3>3
    <3> QED
      BY <3>2, <3>4
  <2> QED
    BY <1>4, <2>1 DEF ReplayCase, GateInv, GateTyped
<1>6. ASSUME NEW s \in Sides, Genuine(s), s # side PROVE Genuine(s)'
  BY <1>4, <1>6, GenuineKept DEF ReplayCase
<1> QED
  BY <1>2, <1>5, <1>6 DEF ReplayCase, GateInv, Sides

LEMMA AbortReplayOK == GateInv /\ AbortReplay => GateInv'
<1> SUFFICES ASSUME GateInv, AbortReplay PROVE GateInv'
  OBVIOUS
<1>1. \A s \in Sides : Genuine(s) => Genuine(s)'
  BY GenuineKept DEF AbortReplay
<1>2. GateTyped'
  BY DEF AbortReplay, GateInv, GateTyped
<1> QED
  BY <1>1, <1>2 DEF AbortReplay, GateInv, GateTyped, Sides

LEMMA PromotionReplayGateOK == GateInv /\ PromotionReplayGate => GateInv'
<1> SUFFICES ASSUME GateInv, PromotionReplayGate PROVE GateInv'
  OBVIOUS
<1>1. \A s \in Sides : Genuine(s) => Genuine(s)'
  BY GenuineKept DEF PromotionReplayGate
<1>2. GateTyped'
  BY DEF PromotionReplayGate, GateInv, GateTyped
<1>3. Gate(report["baseline"], report["candidate"])' = Gate(report["baseline"], report["candidate"])
  BY DEF PromotionReplayGate
<1> QED
  BY <1>1, <1>2, <1>3 DEF PromotionReplayGate, GateInv, GateTyped, Sides

LEMMA SummarizeOK == GateInv /\ Summarize => GateInv'
<1> SUFFICES ASSUME GateInv, Summarize PROVE GateInv'
  OBVIOUS
<1>1. /\ side \in Sides /\ ValidSuite(suite) /\ Len(answers[side]) = Len(suite)
      /\ suite' = suite /\ answers' = answers /\ timing' = timing
      /\ altered' = altered /\ verdict' = verdict
  BY DEF Summarize
<1>2. /\ side \in {"baseline", "candidate"} /\ ~altered /\ verdict = "none"
      /\ report["candidate"] = Absent /\ GateTyped
      /\ side = "candidate" => Genuine("baseline")
  BY <1>1 DEF GateInv, Sides
<1>3. CASE ~Measurable(Observations(side))
  <2>1. report' = report /\ side' = "done"
    BY <1>3 DEF Summarize
  <2>2. \A s \in Sides : Genuine(s) => Genuine(s)'
    BY <1>1, <2>1, GenuineKept
  <2>3. GateTyped'
    BY <1>1, <2>1 DEF GateInv, GateTyped
  <2> QED
    BY <1>1, <1>2, <2>1, <2>2, <2>3 DEF GateInv, Sides
<1>4. CASE Measurable(Observations(side))
  <2>1. PICK m \in Metadata :
          report' = [report EXCEPT ![side] =
            [suite |-> suite, meta |-> m, obs |-> Observations(side),
             metrics |-> Metrics(Observations(side))]]
    BY <1>4 DEF Summarize
  <2>2. side' = IF side = "baseline" THEN "candidate" ELSE "gate"
    BY <1>4 DEF Summarize
  <2>3. report = [s \in Sides |-> report[s]]
    BY <1>2 DEF GateTyped
  <2> DEFINE sent == [suite |-> suite, meta |-> m, obs |-> Observations(side),
                      metrics |-> Metrics(Observations(side))]
  <2>4. /\ report' = [s \in Sides |-> report'[s]] /\ report'[side] = sent
        /\ \A s \in Sides : s # side => report'[s] = report[s]
    BY <1>1, <2>1, <2>3
  <2>5. GateTyped'
    BY <1>1, <1>2, <2>2, <2>4 DEF GateTyped, Sides
  <2>6. Metrics(Observations(side)) \in Measures
    <3>1. Summable(Observations(side), Len(suite)) /\ Len(Observations(side)) = Len(suite)
      BY <1>1, <1>2, ObservationFacts
    <3> QED
      BY <3>1, MetricsFacts
  <2>7. ASSUME NEW t \in Sides, t = side PROVE Genuine(t)'
    <3>1. Observations(t)' = Observations(t)
      BY <1>1 DEF Observations
    <3>2. report'[t].metrics = Metrics(Observations(t)) /\ report'[t].obs = Observations(t)
      BY <2>4, <2>7
    <3> QED
      BY <1>1, <1>2, <1>4, <2>4, <2>6, <2>7, <3>1, <3>2 DEF Genuine
  <2>8. Genuine("baseline") /\ side = "candidate" => Genuine("baseline")'
    BY <1>1, <2>4, GenuineKept DEF Sides
  <2>9. CASE side = "baseline"
    <3>1. report'["candidate"] = Absent /\ side' = "candidate" /\ Genuine("baseline")'
      BY <1>2, <2>2, <2>4, <2>7, <2>9 DEF Sides
    <3> QED
      BY <1>1, <1>2, <2>5, <3>1 DEF GateInv, Sides
  <2>10. CASE side = "candidate"
    <3>1. side' = "gate" /\ Genuine("baseline")' /\ Genuine("candidate")'
      BY <1>2, <2>2, <2>7, <2>8, <2>10 DEF Sides
    <3> QED
      BY <1>1, <1>2, <2>5, <3>1 DEF GateInv, Sides
  <2> QED
    BY <1>2, <2>9, <2>10
<1> QED
  BY <1>3, <1>4

LEMMA AlterAggregateOK == GateInv /\ AlterAggregate => GateInv'
<1> SUFFICES ASSUME GateInv, AlterAggregate PROVE GateInv'
  OBVIOUS
<1>1. /\ side = "gate" /\ ~altered /\ altered' = TRUE
      /\ suite' = suite /\ answers' = answers /\ timing' = timing
      /\ side' = side /\ verdict' = verdict
  BY DEF AlterAggregate
<1>2. GateTyped /\ Genuine("baseline") /\ Genuine("candidate") /\ verdict = "none"
  BY <1>1 DEF GateInv, GateTyped
<1>3. PICK k \in Scores :
        /\ ~Equal(report["candidate"].metrics[k], <<1, 1>>)
        /\ report' = [report EXCEPT !["candidate"].metrics[k] = <<1, 1>>]
  BY DEF AlterAggregate
<1> DEFINE r == report["candidate"]
           m == r.metrics
           altM == [m EXCEPT ![k] = <<1, 1>>]
<1>4. /\ report' = [report EXCEPT !["candidate"] = [r EXCEPT !.metrics = altM]]
      /\ report = [s \in Sides |-> report[s]]
  BY <1>2, <1>3 DEF GateTyped
<1>5. /\ report' = [s \in Sides |-> report'[s]]
      /\ report'["baseline"] = report["baseline"]
      /\ report'["candidate"] = [r EXCEPT !.metrics = altM]
  BY <1>4 DEF Sides
<1>6. /\ m \in Measures /\ m.p95 = Metrics(Observations("candidate")).p95
      /\ m.max = Metrics(Observations("candidate")).max
      /\ m.destructive = Metrics(Observations("candidate")).destructive
      /\ \A j \in Scores : m[j] = Metrics(Observations("candidate"))[j]
      /\ r = [suite |-> suite, meta |-> r.meta, obs |-> Observations("candidate"), metrics |-> m]
  BY <1>1, <1>2 DEF Genuine
<1>7. /\ altM \in Measures /\ altM.p95 = m.p95 /\ altM.max = m.max
      /\ altM.destructive = m.destructive
      /\ altM[k] = <<1, 1>> /\ \A j \in Scores : j # k => altM[j] = m[j]
  <2>1. <<1, 1>> \in Rates
    BY DEF Rates
  <2>2. k \in {"recall", "contradiction", "reminder"}
    BY DEF Scores
  <2>3. m \in Measures
    BY <1>6
  <2> HIDE DEF m
  <2> QED
    BY <2>1, <2>2, <2>3 DEF Measures, Scores
<1>8. report'["candidate"] = [suite |-> suite, meta |-> r.meta, obs |-> Observations("candidate"),
                              metrics |-> altM]
  BY <1>5, <1>6
<1>9. Genuine("candidate")'
  <2>1. Observations("candidate")' = Observations("candidate")
    BY <1>1 DEF Observations
  <2>2. ~Equal(Metrics(Observations("candidate"))[k], <<1, 1>>)
    BY <1>3, <1>6
  <2>3. report'["candidate"].metrics = altM /\ report'["candidate"].meta = r.meta
    BY <1>8
  <2>4. ValidSuite(suite) /\ Len(answers["candidate"]) = Len(suite)
        /\ Measurable(Observations("candidate"))
    BY <1>2 DEF Genuine
  <2> HIDE DEF altM, m, r
  <2>5. \A j \in Scores :
          \/ altM[j] = Metrics(Observations("candidate"))[j]
          \/ altM[j] = <<1, 1>> /\ ~Equal(Metrics(Observations("candidate"))[j], <<1, 1>>)
    BY <1>6, <1>7, <2>2
  <2>6. \E j \in Scores :
          altM[j] = <<1, 1>> /\ ~Equal(Metrics(Observations("candidate"))[j], <<1, 1>>)
    BY <1>7, <2>2
  <2> QED
    BY <1>1, <1>6, <1>7, <1>8, <2>1, <2>3, <2>4, <2>5, <2>6 DEF Genuine
<1>10. Genuine("baseline")'
  BY <1>1, <1>2, <1>5, GenuineKept DEF Sides
<1>11. GateTyped'
  BY <1>1, <1>2, <1>5 DEF GateTyped
<1> QED
  BY <1>1, <1>2, <1>9, <1>10, <1>11 DEF GateInv, Sides

\* Throughout, the reports are what the replays measured but for one score that
\* the caller may have changed, and the verdict is the gate's on them.
THEOREM ReportsStayGenuine == GateSpec => []GateInv
<1>1. ASSUME GateInv, [GateNext]_gateVars PROVE GateInv'
  <2>1. CASE UNCHANGED gateVars
    <3>1. \A s \in Sides : Genuine(s) => Genuine(s)'
      BY <2>1, GenuineKept DEF gateVars
    <3>2. Gate(report["baseline"], report["candidate"])' = Gate(report["baseline"], report["candidate"])
      BY <2>1 DEF gateVars
    <3>3. GateTyped'
      BY <1>1, <2>1 DEF gateVars, GateInv, GateTyped
    <3> QED
      BY <1>1, <2>1, <3>1, <3>2, <3>3 DEF gateVars, GateInv, Sides
  <2> QED
    BY <1>1, <2>1, ReplayCaseOK, AbortReplayOK, SummarizeOK, AlterAggregateOK,
       PromotionReplayGateOK DEF GateNext
<1> QED
  BY <1>1, GateInitOK, PTL DEF GateSpec

-----------------------------------------------------------------------------
(* The reports are exact.                                                  *)

\* What a genuine report says, in terms of the replay it summarises.
LEMMA GenuineFacts ==
  ASSUME GateTyped, NEW s \in Sides, Genuine(s)
  PROVE  LET n == Len(suite)
             obs == Observations(s)
             real == Metrics(obs)
             r == report[s]
         IN  /\ n \in Nat \ {0} /\ DOMAIN suite = 1 .. n /\ DOMAIN obs = 1 .. n /\ Len(obs) = n
             /\ Summable(obs, n) /\ Measurable(obs) /\ r.obs = obs /\ r.suite = suite
             /\ real \in Measures /\ r.metrics \in Measures
             /\ \A k \in Scores : real[k][1] <= real[k][2]
             /\ real.p95 = NearestRank([i \in 1 .. n |-> timing[s][i]], n, TailShare)
             /\ \E i \in 1 .. n : real.max = timing[s][i]
             /\ real.destructive = 0 <=> \A i \in 1 .. n : answers[s][i].destructive = 0
             /\ r.metrics.p95 = real.p95 /\ r.metrics.max = real.max
             /\ r.metrics.destructive = real.destructive
             /\ (s = "candidate" /\ altered) \/ r.metrics = real
<1> DEFINE n == Len(suite)
           obs == Observations(s)
           real == Metrics(obs)
           r == report[s]
<1>1. /\ DOMAIN suite = 1 .. n /\ Summable(obs, n) /\ Len(obs) = n
      /\ \A i \in 1 .. n : obs[i] = Observe(suite[i], answers[s][i], timing[s][i])
  BY ObservationFacts DEF Genuine
<1>2. n \in Nat \ {0} /\ DOMAIN obs = 1 .. n
  BY <1>1 DEF Summable
<1>3. /\ real \in Measures /\ \A k \in Scores : real[k][1] <= real[k][2]
      /\ real.p95 = NearestRank([i \in 1 .. n |-> obs[i].ns], n, TailShare)
      /\ \E i \in 1 .. n : real.max = obs[i].ns
      /\ real.destructive = 0 <=> \A i \in 1 .. n : obs[i].destructive = 0
  <2> HIDE DEF obs, n
  <2> QED
    BY <1>1, MetricsFacts DEF real
<1>4. /\ r.obs = obs /\ r.suite = suite /\ Measurable(obs) /\ r.metrics \in Measures
      /\ r.metrics.p95 = real.p95 /\ r.metrics.max = real.max
      /\ r.metrics.destructive = real.destructive
      /\ \A k \in Scores : r.metrics[k] = real[k] \/ (s = "candidate" /\ altered)
  BY DEF Genuine
<1>5. (s = "candidate" /\ altered) \/ r.metrics = real
  <2> SUFFICES ASSUME ~(s = "candidate" /\ altered) PROVE r.metrics = real
    OBVIOUS
  <2>1. \A k \in Scores : r.metrics[k] = real[k]
    BY <1>4
  <2>2. r.metrics \in Measures /\ real \in Measures
    BY <1>3, <1>4
  <2>3. /\ r.metrics.recall = real.recall /\ r.metrics.contradiction = real.contradiction
        /\ r.metrics.reminder = real.reminder
    BY <2>1 DEF Scores
  <2> HIDE DEF real, r
  <2> QED
    BY <1>4, <2>2, <2>3 DEF Measures
<1>6. \A i \in 1 .. n : obs[i].ns = timing[s][i] /\ obs[i].destructive = answers[s][i].destructive
  <2> HIDE DEF obs, n
  <2>1. ASSUME NEW i \in 1 .. n
        PROVE  obs[i].ns = timing[s][i] /\ obs[i].destructive = answers[s][i].destructive
    <3>1. obs[i] = Observe(suite[i], answers[s][i], timing[s][i])
      BY <1>1
    <3> QED
      BY <3>1 DEF Observe
  <2> QED
    BY <2>1
<1>7. [i \in 1 .. n |-> obs[i].ns] = [i \in 1 .. n |-> timing[s][i]]
  BY <1>6
<1> HIDE DEF obs, n, real, r
<1>8. real.p95 = NearestRank([i \in 1 .. n |-> timing[s][i]], n, TailShare)
  BY <1>3, <1>7
<1>9. /\ \E i \in 1 .. n : real.max = timing[s][i]
      /\ real.destructive = 0 <=> \A i \in 1 .. n : answers[s][i].destructive = 0
  BY <1>3, <1>6
<1> QED
  BY <1>1, <1>2, <1>3, <1>4, <1>5, <1>8, <1>9 DEF obs, n, real, r

LEMMA UnchangedIsValid ==
  ASSUME GateTyped, NEW s \in Sides, Genuine(s), s = "candidate" => ~altered
  PROVE  ValidReport(report[s])
<1>1. /\ report[s].obs = Observations(s) /\ Measurable(Observations(s))
      /\ report[s].metrics = Metrics(Observations(s))
  BY GenuineFacts
<1>2. \A k \in Scores : Equal(Metrics(Observations(s))[k], Metrics(Observations(s))[k])
  BY DEF Equal
<1> QED
  BY <1>1, <1>2 DEF ValidReport

LEMMA ReportsAreExact == GateInv => ReportsExact
<1> SUFFICES ASSUME GateInv PROVE ReportsExact
  OBVIOUS
<1>1. GateTyped /\ \A s \in Sides : report[s] = Absent \/ Genuine(s)
  BY DEF GateInv
<1>2. GateTypeOK
  <2>1. ASSUME NEW s \in Sides, Genuine(s), NEW k \in Scores
        PROVE  report[s].metrics[k][1] <= report[s].metrics[k][2]
    <3>1. \A j \in Scores : Metrics(Observations(s))[j][1] <= Metrics(Observations(s))[j][2]
      BY <1>1, <2>1, GenuineFacts
    <3>2. report[s].metrics[k] = Metrics(Observations(s))[k] \/ report[s].metrics[k] = <<1, 1>>
      BY <2>1 DEF Genuine
    <3> QED
      BY <3>1, <3>2
  <2>2. ASSUME NEW s \in Sides, NEW i \in DOMAIN answers[s] PROVE answers[s][i] \in Answers
    <3>1. answers[s] \in Seq(Answers)
      BY <1>1 DEF GateTyped
    <3> QED
      BY <3>1
  <2> QED
    BY <1>1, <2>1, <2>2 DEF GateTyped, GateTypeOK
<1>3. MeasuredReportsValid
  <2>1. ASSUME NEW s \in Sides, report[s] # Absent, s = "candidate" => ~altered
        PROVE  ValidReport(report[s])
    BY <1>1, <2>1, UnchangedIsValid
  <2>2. ASSUME NEW s \in Sides, Len(answers[s]) = Len(suite), ValidSuite(suite), NEW i \in DOMAIN suite
        PROVE  Consistent(Observations(s)[i])
    BY <1>1, <2>2, ObservationFacts
  <2> QED
    BY <2>1, <2>2 DEF MeasuredReportsValid
<1>4. TailIsNearestRank
  <2>1. ASSUME NEW s \in Sides, report[s] # Absent
        PROVE  LET samples == [i \in DOMAIN suite |-> timing[s][i]]
                   AtMost(x) == Cardinality({i \in DOMAIN suite : samples[i] <= x})
                   Covers(x) == TailShare * AtMost(x) >= (TailShare - 1) * Len(suite)
               IN report[s].metrics.p95 =
                    Min({x \in {samples[i] : i \in DOMAIN suite} : Covers(x)})
    <3>1. /\ report[s].metrics.p95
               = NearestRank([i \in 1 .. Len(suite) |-> timing[s][i]], Len(suite), TailShare)
          /\ DOMAIN suite = 1 .. Len(suite)
      BY <1>1, <2>1, GenuineFacts
    <3> QED
      BY <3>1 DEF NearestRank
  <2> QED
    BY <2>1 DEF TailIsNearestRank
<1> QED
  BY <1>2, <1>3, <1>4 DEF ReportsExact

\* A report measured by a replay is what the definitions say, its tail latency
\* the nearest-rank percentile, and it always passes validation (summarize,
\* EvaluationReport::validate).
THEOREM MeasuredIsExact == GateSpec => []ReportsExact
  BY ReportsStayGenuine, ReportsAreExact, PTL

-----------------------------------------------------------------------------
(* The gate is sound.                                                      *)

LEMMA AcceptedIsNoWorse == GateInv => AcceptedNoWorse
<1> SUFFICES ASSUME GateInv, verdict = "accepted", NEW i \in DOMAIN suite
             PROVE  /\ Cardinality(Hit(i, "candidate")) >= Cardinality(Hit(i, "baseline"))
                    /\ suite[i].forbidden \cap answers["candidate"][i].ids = {}
                    /\ suite[i].kind # "retrieval" =>
                         (Correct(i, "baseline") => Correct(i, "candidate"))
                    /\ answers["candidate"][i].destructive = 0
  BY DEF AcceptedNoWorse
<1> DEFINE b == report["baseline"]
           c == report["candidate"]
<1>1. GateTyped /\ Genuine("baseline") /\ Genuine("candidate") /\ Gate(b, c)
  BY DEF GateInv
<1>2. "baseline" \in Sides /\ "candidate" \in Sides
  BY DEF Sides
<1>3. /\ DOMAIN suite = 1 .. Len(suite)
      /\ b.obs = Observations("baseline") /\ c.obs = Observations("candidate")
      /\ DOMAIN b.obs = 1 .. Len(suite) /\ DOMAIN c.obs = 1 .. Len(suite)
      /\ c.metrics.destructive = 0 => \A j \in 1 .. Len(suite) : answers["candidate"][j].destructive = 0
  BY <1>1, <1>2, GenuineFacts
<1>4. /\ suite[i].kind # "retrieval" => suite[i].relevant = {} /\ suite[i].forbidden = {}
      /\ b.obs[i] = Observe(suite[i], answers["baseline"][i], timing["baseline"][i])
      /\ c.obs[i] = Observe(suite[i], answers["candidate"][i], timing["candidate"][i])
      /\ IsFiniteSet(answers["candidate"][i].ids)
  BY <1>1, <1>2, <1>3, ObservationFacts DEF Genuine
<1>5. /\ c.metrics.destructive = 0
      /\ c.obs[i].kind = "retrieval" => c.obs[i].forbidden = 0
      /\ CaseNotWorse(b.obs[i], c.obs[i])
  BY <1>1, <1>3 DEF Gate, MeetsThresholds
<1> HIDE DEF b, c
<1>6. suite[i].forbidden \cap answers["candidate"][i].ids = {}
  <2>1. CASE suite[i].kind = "retrieval"
    <3> DEFINE X == suite[i].forbidden \cap answers["candidate"][i].ids
    <3>1. Cardinality(X) = 0
      BY <1>4, <1>5, <2>1 DEF Observe
    <3>2. IsFiniteSet(X)
      <4>1. X \in SUBSET answers["candidate"][i].ids
        OBVIOUS
      <4> HIDE DEF X
      <4> QED
        BY <1>4, <4>1, FS_Subset
    <3> HIDE DEF X
    <3>3. X = {}
      BY <3>1, <3>2, FS_EmptySet
    <3> QED
      BY <3>3 DEF X
  <2> QED
    BY <1>4, <2>1
<1>7. Cardinality(Hit(i, "candidate")) >= Cardinality(Hit(i, "baseline"))
  <2>1. CASE suite[i].kind = "retrieval"
    BY <1>4, <1>5, <2>1 DEF Observe, CaseNotWorse, Hit
  <2>2. CASE suite[i].kind # "retrieval"
    <3>1. Hit(i, "candidate") = {} /\ Hit(i, "baseline") = {}
      BY <1>4, <2>2 DEF Hit
    <3>2. Cardinality({}) = 0
      BY FS_EmptySet
    <3> QED
      BY <3>1, <3>2
  <2> QED
    BY <2>1, <2>2
<1>8. suite[i].kind # "retrieval" => (Correct(i, "baseline") => Correct(i, "candidate"))
  BY <1>4, <1>5 DEF Observe, CaseNotWorse, Correct
<1> QED
  BY <1>3, <1>5, <1>6, <1>7, <1>8

LEMMA FabricatedIsRejected == GateInv => FabricatedRejected
<1> SUFFICES ASSUME GateInv, altered, verdict = "accepted" PROVE FALSE
  BY DEF FabricatedRejected
<1> DEFINE c == report["candidate"]
           real == Metrics(Observations("candidate"))
<1>1. Genuine("candidate") /\ ValidReport(c)
  BY DEF GateInv, Gate
<1>2. c.obs = Observations("candidate") /\ "candidate" \in Sides
  BY <1>1 DEF Genuine, Sides
<1>3. PICK k \in Scores : c.metrics[k] = <<1, 1>> /\ ~Equal(real[k], <<1, 1>>)
  BY <1>1 DEF Genuine
<1>4. Equal(c.metrics[k], real[k])
  BY <1>1, <1>2 DEF ValidReport
<1> HIDE DEF c, real
<1> QED
  BY <1>3, <1>4 DEF Equal

\* A share of all meets any threshold.
LEMMA AllMeetThreshold ==
  ASSUME NEW x \in Nat
  PROVE  AtLeast(<<x, x>>, Threshold)
<1> DEFINE p == Threshold[1]
           q == Threshold[2]
<1>1. p \in Nat /\ q \in Nat /\ p <= q
  BY GateAssumption
<1>2. AtLeast(<<x, x>>, Threshold) <=> x * q >= p * x
  BY DEF AtLeast
<1> HIDE DEF p, q
<1>3. x * q - p * x = x * (q - p) /\ x * (q - p) >= 0
  BY <1>1
<1>4. x * q \in Nat /\ p * x \in Nat
  BY <1>1
<1> QED
  BY <1>2, <1>3, <1>4

\* Where a replay answered as expected, every score is a share of all.
LEMMA RightAnswersScore ==
  ASSUME NEW obs, NEW n, Summable(obs, n),
         \A i \in 1 .. n : IF obs[i].kind = "retrieval" THEN obs[i].matched = obs[i].expected
                           ELSE obs[i].expected = obs[i].observed
  PROVE  \A k \in Scores : AtLeast(Metrics(obs)[k], Threshold)
<1>1. IsFiniteSet(1 .. n) /\ DOMAIN obs = 1 .. n
  <2>1. n \in Int /\ DOMAIN obs = 1 .. n
    BY DEF Summable
  <2> QED
    BY <2>1, FS_Interval
<1>2. \A k : Of(obs, k) \in SUBSET (1 .. n)
  BY <1>1 DEF Of
<1>3. \A k : IsFiniteSet(Of(obs, k))
  BY <1>1, <1>2, FS_Subset
<1>4. AtLeast(RecallOf(obs), Threshold)
  <2> DEFINE S == Of(obs, "retrieval")
             f == [i \in DOMAIN obs |-> obs[i].matched]
             g == [i \in DOMAIN obs |-> obs[i].expected]
  <2>1. \A x \in S : f[x] \in Nat /\ g[x] \in Nat /\ f[x] <= g[x] /\ g[x] <= f[x]
    BY <1>1 DEF Of, Summable
  <2>2. IsFiniteSet(S) /\ RecallOf(obs) = <<SumOver(f, S), SumOver(g, S)>>
    BY <1>3 DEF RecallOf
  <2> HIDE DEF S, f, g
  <2>3. /\ SumOver(f, S) \in Nat /\ SumOver(g, S) \in Nat
        /\ SumOver(f, S) <= SumOver(g, S) /\ SumOver(g, S) <= SumOver(f, S)
    BY <2>1, <2>2, SumNat, SumLeq
  <2>4. SumOver(f, S) = SumOver(g, S)
    BY <2>3
  <2> QED
    BY <2>2, <2>3, <2>4, AllMeetThreshold
<1>5. ASSUME NEW k, k # "retrieval" PROVE AtLeast(Accuracy(obs, k), Threshold)
  <2>1. {i \in Of(obs, k) : obs[i].expected = obs[i].observed} = Of(obs, k)
    BY <1>1, <1>5 DEF Of
  <2>2. Cardinality(Of(obs, k)) \in Nat
    BY <1>3, FS_CardinalityType
  <2>3. Accuracy(obs, k) = <<Cardinality(Of(obs, k)), Cardinality(Of(obs, k))>>
    BY <2>1 DEF Accuracy
  <2> QED
    BY <2>2, <2>3, AllMeetThreshold
<1>6. /\ Metrics(obs).recall = RecallOf(obs)
      /\ Metrics(obs).contradiction = Accuracy(obs, "contradiction")
      /\ Metrics(obs).reminder = Accuracy(obs, "reminder")
  BY DEF Metrics
<1> QED
  BY <1>4, <1>5, <1>6 DEF Scores

LEMMA EqualEvidenceIsAccepted == GateInv => EqualEvidencePasses
<1> SUFFICES ASSUME GateInv, verdict # "none", ~altered,
                    answers["baseline"] = answers["candidate"],
                    timing["baseline"] = timing["candidate"],
                    Comparable(report["baseline"], report["candidate"]),
                    Qualified(report["baseline"], report["candidate"]),
                    \A i \in DOMAIN suite :
                      /\ answers["candidate"][i].destructive = 0
                      /\ timing["candidate"][i] <= Budget
                      /\ IF suite[i].kind = "retrieval"
                         THEN answers["candidate"][i].ids = suite[i].relevant
                         ELSE Correct(i, "candidate")
             PROVE  verdict = "accepted"
  BY DEF EqualEvidencePasses
<1> DEFINE b == report["baseline"]
           c == report["candidate"]
           n == Len(suite)
           obs == Observations("candidate")
<1>1. GateTyped /\ Genuine("baseline") /\ Genuine("candidate")
  BY DEF GateInv
<1>2. "baseline" \in Sides /\ "candidate" \in Sides
  BY DEF Sides
<1>3. ValidReport(b) /\ ValidReport(c)
  BY <1>1, <1>2, UnchangedIsValid
<1>4. Observations("baseline") = obs
  BY DEF Observations
<1>5. /\ b.obs = obs /\ b.metrics = Metrics(obs)
  BY <1>1, <1>2, <1>4, GenuineFacts
<1>6. /\ c.obs = obs /\ c.metrics = Metrics(obs) /\ Metrics(obs) \in Measures
      /\ n \in Nat \ {0} /\ DOMAIN suite = 1 .. n /\ DOMAIN obs = 1 .. n /\ Summable(obs, n)
      /\ \E i \in 1 .. n : Metrics(obs).max = timing["candidate"][i]
      /\ Metrics(obs).destructive = 0 <=> \A i \in 1 .. n : answers["candidate"][i].destructive = 0
  BY <1>1, <1>2, GenuineFacts
<1>7. ASSUME NEW i \in 1 .. n
      PROVE  /\ obs[i] = Observe(suite[i], answers["candidate"][i], timing["candidate"][i])
             /\ suite[i].kind = "retrieval" => suite[i].relevant \cap suite[i].forbidden = {}
  BY <1>1, <1>2, <1>6, ObservationFacts DEF Genuine, ValidSuite
<1>8. ASSUME NEW i \in 1 .. n
      PROVE  /\ obs[i].kind = "retrieval" => obs[i].forbidden = 0
             /\ IF obs[i].kind = "retrieval" THEN obs[i].matched = obs[i].expected
                ELSE obs[i].expected = obs[i].observed
  <2> DEFINE R == suite[i].relevant
             F == suite[i].forbidden
             A == answers["candidate"][i].ids
  <2>1. /\ obs[i].kind = suite[i].kind /\ obs[i].matched = Cardinality(R \cap A)
        /\ obs[i].forbidden = Cardinality(F \cap A)
        /\ obs[i].expected = IF suite[i].kind = "retrieval" THEN Cardinality(R) ELSE suite[i].expected
        /\ obs[i].observed = answers["candidate"][i].value
    <3>1. obs[i] = Observe(suite[i], answers["candidate"][i], timing["candidate"][i])
      BY <1>7
    <3> HIDE DEF obs
    <3> QED
      BY <3>1 DEF Observe
  <2>2. suite[i].kind = "retrieval" => R \cap F = {} /\ A = R
    BY <1>6, <1>7
  <2>3. suite[i].kind # "retrieval" => answers["candidate"][i].value = suite[i].expected
    BY <1>6 DEF Correct
  <2> HIDE DEF R, F, A
  <2>4. CASE suite[i].kind = "retrieval"
    <3>1. R \cap A = R /\ F \cap A = {}
      BY <2>2, <2>4
    <3>2. Cardinality(F \cap A) = 0
      BY <3>1, FS_EmptySet
    <3> QED
      BY <2>1, <2>4, <3>1, <3>2
  <2>5. CASE suite[i].kind # "retrieval"
    BY <2>1, <2>3, <2>5
  <2> QED
    BY <2>4, <2>5
<1>9. MeetsThresholds(c)
  <2>1. Metrics(obs).destructive = 0 /\ Metrics(obs).max <= Budget
    BY <1>6
  <2>2. \A k \in Scores : AtLeast(Metrics(obs)[k], Threshold)
    <3> HIDE DEF obs, n
    <3> QED
      BY <1>6, <1>8, RightAnswersScore
  <2> HIDE DEF obs, n, c
  <2> QED
    BY <1>6, <1>8, <2>1, <2>2 DEF MeetsThresholds
<1>10. NotWorse(b.metrics, c.metrics)
  <2> DEFINE m == Metrics(obs)
  <2>1. m \in Measures
    BY <1>6
  <2>2. b.metrics = m /\ c.metrics = m
    BY <1>5, <1>6
  <2> HIDE DEF m, b, c
  <2>3. ASSUME NEW k \in Scores PROVE AtLeast(m[k], m[k])
    <3>1. m[k] \in Rates
      BY <2>1 DEF Measures, Scores
    <3>2. m[k][1] * m[k][2] \in Nat
      BY <3>1 DEF Rates
    <3> QED
      BY <3>2 DEF AtLeast
  <2> QED
    BY <2>1, <2>2, <2>3 DEF NotWorse, Measures
<1>11. \A i \in DOMAIN b.obs : CaseNotWorse(b.obs[i], c.obs[i])
  <2> HIDE DEF obs, n, b, c
  <2>1. \A i \in 1 .. n : obs[i].destructive \in Nat
           /\ (obs[i].kind = "retrieval" => obs[i].matched \in Nat)
    BY <1>6 DEF Summable
  <2> QED
    BY <1>5, <1>6, <2>1 DEF CaseNotWorse
<1>12. Gate(b, c)
  BY <1>3, <1>9, <1>10, <1>11 DEF Gate
<1> QED
  BY <1>12 DEF GateInv, GateTyped

\* The gate accepts only a candidate that is no worse on any case, by the host's
\* answers, rejects a report whose scores were changed, and accepts the same
\* right answers again (promotion_replay_gate, EvaluationReport::validate).
THEOREM GateIsSound == GateSpec => []GateSound
<1>1. GateInv => GateSound
  BY AcceptedIsNoWorse, FabricatedIsRejected, EqualEvidenceIsAccepted DEF GateSound
<1> QED
  BY <1>1, ReportsStayGenuine, PTL

-----------------------------------------------------------------------------
(* MemoryReads: sets in order.                                             *)

\* R orders the members of S strictly and totally.
Orders(S, R) ==
  /\ \A x \in S : <<x, x>> \notin R
  /\ \A x, y \in S : x = y \/ <<x, y>> \in R \/ <<y, x>> \in R
  /\ \A x, y, z \in S : <<x, y>> \in R /\ <<y, z>> \in R => <<x, z>> \in R

Below(S, R, x) == {y \in S : <<y, x>> \in R}

\* InOrder names every member of a set once, in its order.
LEMMA InOrderIs ==
  ASSUME NEW S, IsFiniteSet(S), NEW R, Orders(S, R)
  PROVE  LET s == InOrder(S, R)
             n == Cardinality(S)
         IN  /\ n \in Nat /\ DOMAIN s = 1 .. n
             /\ \A k \in 1 .. n : s[k] \in S /\ Cardinality(Below(S, R, s[k])) = k - 1
             /\ \A x \in S : \E k \in 1 .. n : s[k] = x
             /\ \A i, j \in 1 .. n : s[i] = s[j] => i = j
             /\ \A i, j \in 1 .. n : <<s[i], s[j]>> \in R => i < j
<1> DEFINE n == Cardinality(S)
           place == [x \in S |-> Cardinality(Below(S, R, x)) + 1]
<1>1. n \in Nat
  BY FS_CardinalityType
<1>2. ASSUME NEW x \in S
      PROVE  IsFiniteSet(Below(S, R, x)) /\ Cardinality(Below(S, R, x)) \in Nat
             /\ Cardinality(Below(S, R, x)) < n
  <2>1. Below(S, R, x) \in SUBSET S /\ x \notin Below(S, R, x)
    BY DEF Below, Orders
  <2>2. Below(S, R, x) # S
    BY <2>1
  <2> QED
    BY <2>1, <2>2, FS_Subset, FS_CardinalityType
<1>3. ASSUME NEW x \in S, NEW y \in S, <<x, y>> \in R
      PROVE  Cardinality(Below(S, R, x)) < Cardinality(Below(S, R, y))
  <2>1. Below(S, R, x) \in SUBSET Below(S, R, y)
    BY <1>3 DEF Below, Orders
  <2>2. x \in Below(S, R, y) /\ x \notin Below(S, R, x)
    BY <1>3 DEF Below, Orders
  <2>3. Below(S, R, x) # Below(S, R, y)
    BY <2>2
  <2>4. /\ IsFiniteSet(Below(S, R, y)) /\ Cardinality(Below(S, R, x)) \in Nat
        /\ Cardinality(Below(S, R, y)) \in Nat
    BY <1>2
  <2> QED
    BY <2>1, <2>3, <2>4, FS_Subset
<1>4. place \in [S -> 1 .. n]
  BY <1>1, <1>2
<1>5. \A x, y \in S : place[x] = place[y] => x = y
  <2> SUFFICES ASSUME NEW x \in S, NEW y \in S, place[x] = place[y], x # y PROVE FALSE
    OBVIOUS
  <2>1. <<x, y>> \in R \/ <<y, x>> \in R
    BY DEF Orders
  <2>2. Cardinality(Below(S, R, x)) \in Nat /\ Cardinality(Below(S, R, y)) \in Nat
    BY <1>2
  <2>3. Cardinality(Below(S, R, x)) # Cardinality(Below(S, R, y))
    BY <1>3, <2>1, <2>2
  <2> QED
    BY <2>2, <2>3
<1>6. \A k \in 1 .. n : \E x \in S : place[x] = k
  <2>1. IsFiniteSet(1 .. n) /\ Cardinality(1 .. n) = n
    BY <1>1, FS_Interval
  <2>2. place \in Injection(S, 1 .. n)
    BY <1>4, <1>5, Fun_IsInj
  <2> HIDE DEF place
  <2>3. place \in Surjection(S, 1 .. n)
    BY <2>1, <2>2, FS_Injection
  <2> QED
    BY <2>3, SMTT(20), ZenonT(40) DEF Surjection
<1>7. ASSUME NEW k \in 1 .. n
      PROVE  InOrder(S, R)[k] \in S /\ Cardinality(Below(S, R, InOrder(S, R)[k])) = k - 1
  <2>1. PICK x \in S : Cardinality(Below(S, R, x)) = k - 1
    BY <1>1, <1>2, <1>6
  <2>2. InOrder(S, R)[k] = CHOOSE y \in S : Cardinality(Below(S, R, y)) = k - 1
    BY DEF InOrder, Below
  <2> QED
    BY <2>1, <2>2
<1>8. DOMAIN InOrder(S, R) = 1 .. n
  BY DEF InOrder
<1>9. ASSUME NEW x \in S PROVE \E k \in 1 .. n : InOrder(S, R)[k] = x
  <2>1. place[x] \in 1 .. n /\ place[x] - 1 = Cardinality(Below(S, R, x))
    BY <1>1, <1>2
  <2>2. InOrder(S, R)[place[x]] \in S
        /\ Cardinality(Below(S, R, InOrder(S, R)[place[x]])) = Cardinality(Below(S, R, x))
    <3> HIDE DEF place, n
    <3> QED
      BY <1>7, <2>1
  <2>3. place[InOrder(S, R)[place[x]]] = place[x]
    BY <2>2
  <2> HIDE DEF place, n
  <2> QED
    BY <1>5, <2>1, <2>2, <2>3
<1>10. ASSUME NEW i \in 1 .. n, NEW j \in 1 .. n, InOrder(S, R)[i] = InOrder(S, R)[j] PROVE i = j
  <2>1. i - 1 = j - 1
    BY <1>7, <1>10
  <2> QED
    BY <1>1, <2>1
<1>11. ASSUME NEW i \in 1 .. n, NEW j \in 1 .. n, <<InOrder(S, R)[i], InOrder(S, R)[j]>> \in R
       PROVE  i < j
  <2> DEFINE x == InOrder(S, R)[i]
             y == InOrder(S, R)[j]
  <2>1. x \in S /\ y \in S /\ Cardinality(Below(S, R, x)) = i - 1 /\ Cardinality(Below(S, R, y)) = j - 1
    BY <1>7
  <2>2. <<x, y>> \in R
    BY <1>11
  <2> HIDE DEF x, y
  <2>3. i - 1 < j - 1
    BY <1>3, <2>1, <2>2
  <2> QED
    BY <1>1, <2>3
<1> QED
  BY <1>1, <1>7, <1>8, <1>9, <1>10, <1>11

LEMMA AscendingOrders == ASSUME NEW S, S \subseteq Nat PROVE Orders(S, Ascending(S))
  BY DEF Orders, Ascending

-----------------------------------------------------------------------------
(* What fits a budget.                                                     *)

\* A sum is that of a part and of the rest.
LEMMA SumParts ==
  ASSUME NEW f, NEW S, IsFiniteSet(S), \A x \in S : f[x] \in Nat, NEW T \in SUBSET S
  PROVE  SumOver(f, S) = SumOver(f, T) + SumOver(f, S \ T)
<1> DEFINE good == {U \in SUBSET T : SumOver(f, (S \ T) \cup U) = SumOver(f, U) + SumOver(f, S \ T)}
<1>1. IsFiniteSet(T) /\ IsFiniteSet(S \ T)
  BY FS_Subset
<1>2. ASSUME NEW U \in SUBSET T, \A V \in SUBSET U : V # U => V \in good PROVE U \in good
  <2>1. CASE U = {}
    <3>1. SumOver(f, S \ T) \in Nat /\ SumOver(f, {}) = 0 /\ (S \ T) \cup {} = S \ T
      BY <1>1, SumNat, SumEmpty
    <3>2. SumOver(f, (S \ T) \cup {}) = SumOver(f, {}) + SumOver(f, S \ T)
      BY <3>1
    <3> QED
      BY <2>1, <3>2
  <2>2. CASE U # {}
    <3>1. PICK x \in U : TRUE
      BY <2>2
    <3>2. U \ {x} \in good
      BY <1>2, <3>1
    <3>3. U \in SUBSET S /\ (S \ T) \cup U \in SUBSET S /\ x \in (S \ T) \cup U
      BY <3>1
    <3>4. IsFiniteSet(U) /\ IsFiniteSet((S \ T) \cup U) /\ IsFiniteSet(U \ {x})
      BY <3>3, FS_Subset
    <3>5. SumOver(f, U) = f[x] + SumOver(f, U \ {x})
      BY <3>1, <3>3, <3>4, SumAdd
    <3>6. SumOver(f, (S \ T) \cup U) = f[x] + SumOver(f, ((S \ T) \cup U) \ {x})
      BY <3>1, <3>3, <3>4, SumAdd
    <3>7. ((S \ T) \cup U) \ {x} = (S \ T) \cup (U \ {x})
      BY <3>1
    <3>8. SumOver(f, U \ {x}) \in Nat /\ SumOver(f, S \ T) \in Nat /\ f[x] \in Nat
      BY <1>1, <3>1, <3>3, <3>4, SumNat
    <3>9. SumOver(f, (S \ T) \cup (U \ {x})) = SumOver(f, U \ {x}) + SumOver(f, S \ T)
      BY <3>2
    <3>10. SumOver(f, (S \ T) \cup U) = f[x] + (SumOver(f, U \ {x}) + SumOver(f, S \ T))
      BY <3>6, <3>7, <3>9
    <3>11. SumOver(f, (S \ T) \cup U) = SumOver(f, U) + SumOver(f, S \ T)
      BY <3>5, <3>8, <3>10
    <3> QED
      BY <3>11
  <2> QED
    BY <2>1, <2>2
<1>3. SUBSET T \subseteq good
  <2> HIDE DEF good
  <2> QED BY <1>1, <1>2, SubsetInduction
<1>4. T \in good /\ (S \ T) \cup T = S
  BY <1>3
<1> QED
  BY <1>4

\* So a part costs no more than the whole, and two parts that are apart cost
\* their sum.
LEMMA CostFacts ==
  ASSUME NEW S, IsFiniteSet(S), \A x \in S : Tokens[x] \in Nat
  PROVE  /\ Cost(S) \in Nat
         /\ \A T \in SUBSET S : Cost(T) \in Nat /\ Cost(T) <= Cost(S)
         /\ \A x \in S : Cost(S) = Tokens[x] + Cost(S \ {x})
         /\ \A T \in SUBSET S : Cost(S) = Cost(T) + Cost(S \ T)
<1>1. Cost(S) \in Nat
  BY SumNat DEF Cost
<1>2. ASSUME NEW T \in SUBSET S
      PROVE  Cost(T) \in Nat /\ Cost(T) <= Cost(S) /\ Cost(S) = Cost(T) + Cost(S \ T)
  <2>1. IsFiniteSet(T) /\ IsFiniteSet(S \ T)
    BY FS_Subset
  <2>2. Cost(T) \in Nat /\ Cost(S \ T) \in Nat
    BY <2>1, SumNat DEF Cost
  <2>3. Cost(S) = Cost(T) + Cost(S \ T)
    BY SumParts DEF Cost
  <2> QED
    BY <2>2, <2>3
<1>3. \A x \in S : Cost(S) = Tokens[x] + Cost(S \ {x})
  BY SumAdd DEF Cost
<1> QED
  BY <1>1, <1>2, <1>3

\* A finite set that is ordered has a last member.
LEMMA LastExists ==
  ASSUME NEW S, IsFiniteSet(S), NEW R, Orders(S, R), NEW T \in SUBSET S, T # {}
  PROVE  \E x \in T : \A y \in T : y = x \/ <<y, x>> \in R
<1>1. IsFiniteSet(T) /\ Orders(T, R)
  BY FS_Subset DEF Orders
<1> DEFINE n == Cardinality(T)
           s == InOrder(T, R)
<1>2. /\ n \in Nat
      /\ \A k \in 1 .. n : s[k] \in T
      /\ \A x \in T : \E k \in 1 .. n : s[k] = x
      /\ \A i, j \in 1 .. n : <<s[i], s[j]>> \in R => i < j
  BY <1>1, InOrderIs
<1>3. n # 0
  BY <1>1, FS_EmptySet
<1> HIDE DEF n, s
<1>4. s[n] \in T /\ n \in 1 .. n
  BY <1>2, <1>3
<1>5. \A y \in T : y = s[n] \/ <<y, s[n]>> \in R
  <2> SUFFICES ASSUME NEW y \in T, y # s[n], <<s[n], y>> \in R PROVE FALSE
    BY <1>1, <1>4 DEF Orders
  <2>1. PICK k \in 1 .. n : s[k] = y
    BY <1>2
  <2>2. n < k
    BY <1>2, <1>4, <2>1
  <2> QED
    BY <1>2, <2>2
<1> QED
  BY <1>4, <1>5

\* T is what is taken of U when each member is, that fits beside those before it.
Takes(U, R, budget, T) ==
  \A x \in U : x \in T <=> Tokens[x] + Cost({y \in T : <<y, x>> \in R}) <= budget

\* There is such a set: the last member of a set is taken or not, after the rest.
LEMMA TakenExists ==
  ASSUME NEW S, IsFiniteSet(S), NEW R, Orders(S, R), NEW budget
  PROVE  \E T \in SUBSET S : Takes(S, R, budget, T)
<1> DEFINE good == {U \in SUBSET S : \E T \in SUBSET U : Takes(U, R, budget, T)}
<1>1. ASSUME NEW U \in SUBSET S, \A V \in SUBSET U : V # U => V \in good PROVE U \in good
  <2>1. CASE U = {}
    BY <2>1 DEF Takes
  <2>2. CASE U # {}
    <3>1. PICK l \in U : \A y \in U : y = l \/ <<y, l>> \in R
      BY <2>2, LastExists
    <3>2. PICK T \in SUBSET (U \ {l}) : Takes(U \ {l}, R, budget, T)
      BY <1>1, <3>1
    <3>3. \A y \in U : <<l, y>> \notin R
      BY <3>1 DEF Orders
    <3>4. {y \in T \cup {l} : <<y, l>> \in R} = {y \in T : <<y, l>> \in R}
      BY <3>1, <3>3
    <3>5. \A x \in U : {y \in T \cup {l} : <<y, x>> \in R} = {y \in T : <<y, x>> \in R}
      BY <3>1, <3>3
    <3>6. CASE Tokens[l] + Cost({y \in T : <<y, l>> \in R}) <= budget
      <4>1. ASSUME NEW x \in U
            PROVE  x \in T \cup {l} <=> Tokens[x] + Cost({y \in T \cup {l} : <<y, x>> \in R}) <= budget
        <5>1. {y \in T \cup {l} : <<y, x>> \in R} = {y \in T : <<y, x>> \in R}
          BY <3>5
        <5>2. CASE x = l
          BY <3>6, <5>1, <5>2
        <5>3. CASE x # l
          BY <3>2, <5>1, <5>3 DEF Takes
        <5> QED
          BY <5>2, <5>3
      <4>2. T \cup {l} \in SUBSET U
        BY <3>1
      <4> QED
        BY <4>1, <4>2 DEF Takes
    <3>7. CASE ~(Tokens[l] + Cost({y \in T : <<y, l>> \in R}) <= budget)
      <4>1. T \in SUBSET U /\ l \notin T
        OBVIOUS
      <4>2. ASSUME NEW x \in U
            PROVE  x \in T <=> Tokens[x] + Cost({y \in T : <<y, x>> \in R}) <= budget
        BY <3>2, <3>7, <4>1 DEF Takes
      <4> QED
        BY <4>1, <4>2 DEF Takes
    <3> QED
      BY <3>6, <3>7
  <2> QED
    BY <2>1, <2>2
<1>2. SUBSET S \subseteq good
  <2> HIDE DEF good
  <2> QED BY <1>1, SubsetInduction
<1> QED
  BY <1>2

\* Fit never spends more than the budget, and what it passes over does not fit in
\* what is left; where all fits, all is taken.
LEMMA FitIs ==
  ASSUME NEW S, IsFiniteSet(S), \A x \in S : Tokens[x] \in Nat, NEW R, Orders(S, R),
         NEW budget \in Nat
  PROVE  LET fit == Fit(S, R, budget)
         IN  /\ fit.taken \in SUBSET S /\ fit.passed = S \ fit.taken
             /\ fit.left \in Nat /\ Cost(fit.taken) + fit.left = budget
             /\ Cost(fit.taken) \in Nat
             /\ \A x \in fit.passed : Tokens[x] > fit.left
             /\ Cost(S) <= budget => fit.taken = S
<1> DEFINE T == Fit(S, R, budget).taken
<1>1. T \in SUBSET S /\ Takes(S, R, budget, T)
  <2>1. T = CHOOSE V \in SUBSET S : Takes(S, R, budget, V)
    BY DEF Fit, Takes
  <2> QED
    BY <2>1, TakenExists
<1>2. Fit(S, R, budget).passed = S \ T /\ Fit(S, R, budget).left = budget - Cost(T)
  BY DEF Fit
<1> HIDE DEF T
<1>3. IsFiniteSet(T) /\ \A x \in T : Tokens[x] \in Nat
  BY <1>1, FS_Subset
<1>4. Cost(T) \in Nat /\ \A V \in SUBSET T : Cost(V) \in Nat /\ Cost(V) <= Cost(T)
  BY <1>3, CostFacts
<1>5. Cost(T) <= budget
  <2>1. CASE T = {}
    BY <2>1, SumEmpty DEF Cost
  <2>2. CASE T # {}
    <3>1. PICK x \in T : \A y \in T : y = x \/ <<y, x>> \in R
      BY <1>1, <2>2, LastExists
    <3>2. {y \in T : <<y, x>> \in R} = T \ {x}
      BY <1>1, <3>1 DEF Orders
    <3>3. Cost(T) = Tokens[x] + Cost(T \ {x})
      BY <1>3, CostFacts
    <3>4. Tokens[x] + Cost({y \in T : <<y, x>> \in R}) <= budget
      BY <1>1 DEF Takes
    <3> QED
      BY <3>2, <3>3, <3>4
  <2> QED
    BY <2>1, <2>2
<1>6. ASSUME NEW x \in S \ T PROVE Tokens[x] > budget - Cost(T)
  <2> DEFINE V == {y \in T : <<y, x>> \in R}
  <2>1. V \in SUBSET T
    OBVIOUS
  <2>2. ~(Tokens[x] + Cost(V) <= budget)
    BY <1>1 DEF Takes
  <2> HIDE DEF V
  <2>3. Cost(V) \in Nat /\ Cost(V) <= Cost(T) /\ Tokens[x] \in Nat
    BY <1>4, <2>1
  <2> QED
    BY <1>4, <2>2, <2>3
<1>7. ASSUME Cost(S) <= budget PROVE T = S
  <2> SUFFICES ASSUME NEW x \in S \ T PROVE FALSE
    BY <1>1
  <2>1. Tokens[x] > budget - Cost(T) /\ Tokens[x] \in Nat
    BY <1>6
  <2>2. Cost(S) = Tokens[x] + Cost(S \ {x}) /\ T \in SUBSET (S \ {x})
    BY <1>1, CostFacts
  <2>3. IsFiniteSet(S \ {x})
    BY FS_RemoveElement
  <2>4. Cost(S \ {x}) \in Nat /\ Cost(T) <= Cost(S \ {x})
    BY <2>2, <2>3, CostFacts
  <2> QED
    BY <1>4, <1>7, <2>1, <2>2, <2>4
<1> QED
  BY <1>1, <1>2, <1>4, <1>5, <1>6, <1>7 DEF T

-----------------------------------------------------------------------------
(* Edges and what contributes to them.                                     *)

\* An edge has one entry for each memory that contributes to it, with what it gave.
EdgeOf(e, r, given) ==
  /\ Len(e) \in Nat /\ e = [i \in 1 .. Len(e) |-> e[i]]
  /\ \A i \in DOMAIN e :
       /\ e[i].memory \in Memories /\ r \in DOMAIN given[e[i].memory]
       /\ e[i].confidence = given[e[i].memory][r]
       /\ \A j \in DOMAIN e : e[i].memory = e[j].memory => i = j
  /\ \A m \in Memories : r \in DOMAIN given[m] => \E i \in DOMAIN e : e[i].memory = m

LEMMA PickedIs ==
  ASSUME NEW e, NEW n \in Nat, DOMAIN e = 1 .. n, NEW S \in SUBSET (1 .. n)
  PROVE  LET p == Picked(e, S)
         IN  /\ Len(p) \in Nat /\ p = [k \in 1 .. Len(p) |-> p[k]]
             /\ \E at : /\ \A k \in DOMAIN p : at[k] \in S /\ p[k] = e[at[k]]
                        /\ \A i \in S : \E k \in DOMAIN p : at[k] = i
                        /\ \A j, k \in DOMAIN p : at[j] = at[k] => j = k
<1> DEFINE at == InOrder(S, Ascending(S))
           c == Cardinality(S)
<1>1. IsFiniteSet(S) /\ Orders(S, Ascending(S))
  <2>1. IsFiniteSet(1 .. n)
    <3>1. n \in Int /\ 1 \in Int
      OBVIOUS
    <3> QED
      BY <3>1, FS_Interval
  <2>2. S \subseteq Nat
    OBVIOUS
  <2> QED
    BY <2>1, <2>2, FS_Subset, AscendingOrders
<1>2. /\ c \in Nat /\ DOMAIN at = 1 .. c
      /\ \A k \in 1 .. c : at[k] \in S
      /\ \A i \in S : \E k \in 1 .. c : at[k] = i
      /\ \A j, k \in 1 .. c : at[j] = at[k] => j = k
  BY <1>1, InOrderIs
<1>3. Picked(e, S) = [k \in DOMAIN at |-> e[at[k]]]
  BY DEF Picked
<1> HIDE DEF at, c
<1>4. Picked(e, S) = [k \in 1 .. c |-> e[at[k]]]
  BY <1>2, <1>3
<1>5. Len(Picked(e, S)) = c /\ DOMAIN Picked(e, S) = 1 .. c
      /\ Picked(e, S) = [k \in 1 .. c |-> Picked(e, S)[k]]
  BY <1>2, <1>4
<1>6. \A k \in DOMAIN Picked(e, S) : at[k] \in S /\ Picked(e, S)[k] = e[at[k]]
  BY <1>2, <1>4, <1>5
<1> QED
  BY <1>2, <1>5, <1>6

\* Without a memory's entry, an edge is that of the others.
LEMMA EdgeWithout ==
  ASSUME NEW e, NEW r, NEW given, given = [m \in Memories |-> given[m]], EdgeOf(e, r, given),
         NEW m \in Memories, NEW new, r \notin DOMAIN new
  PROVE  EdgeOf(Picked(e, OthersOf(e, m)), r, [given EXCEPT ![m] = new])
<1> DEFINE n == Len(e)
           S == OthersOf(e, m)
           p == Picked(e, S)
           after == [given EXCEPT ![m] = new]
<1>1. n \in Nat /\ DOMAIN e = 1 .. n /\ S \in SUBSET (1 .. n)
  BY DEF EdgeOf, OthersOf
<1>2. /\ Len(p) \in Nat /\ p = [k \in 1 .. Len(p) |-> p[k]]
      /\ \E at : /\ \A k \in DOMAIN p : at[k] \in S /\ p[k] = e[at[k]]
                 /\ \A i \in S : \E k \in DOMAIN p : at[k] = i
                 /\ \A j, k \in DOMAIN p : at[j] = at[k] => j = k
  <2> HIDE DEF n, S
  <2> QED
    BY <1>1, PickedIs, ZenonT(30), SMTT(15)
<1>3. PICK at : /\ \A k \in DOMAIN p : at[k] \in S /\ p[k] = e[at[k]]
                /\ \A i \in S : \E k \in DOMAIN p : at[k] = i
                /\ \A j, k \in DOMAIN p : at[j] = at[k] => j = k
  BY <1>2
<1> HIDE DEF p
<1>4. /\ \A i \in S : i \in DOMAIN e /\ e[i].memory # m /\ e[i].memory \in Memories
      /\ \A i \in DOMAIN e : e[i].memory # m => i \in S
  BY DEF OthersOf, EdgeOf
<1>5. /\ after[m] = new
      /\ \A x \in Memories : x # m => after[x] = given[x]
  BY SMTT(15), ZenonT(30)
<1>6. \A i \in S : /\ r \in DOMAIN given[e[i].memory] /\ e[i].confidence = given[e[i].memory][r]
                   /\ \A j \in S : e[i].memory = e[j].memory => i = j
  BY <1>4 DEF EdgeOf
<1> HIDE DEF S, after, n
<1>7. ASSUME NEW k \in DOMAIN p
      PROVE  /\ p[k].memory \in Memories /\ r \in DOMAIN after[p[k].memory]
             /\ p[k].confidence = after[p[k].memory][r]
             /\ \A j \in DOMAIN p : p[k].memory = p[j].memory => k = j
  <2>1. at[k] \in S /\ p[k] = e[at[k]]
    BY <1>3
  <2>2. p[k].memory \in Memories /\ p[k].memory # m /\ after[p[k].memory] = given[p[k].memory]
    BY <1>4, <1>5, <2>1
  <2>3. r \in DOMAIN after[p[k].memory] /\ p[k].confidence = after[p[k].memory][r]
    BY <1>6, <2>1, <2>2
  <2>4. ASSUME NEW j \in DOMAIN p, p[k].memory = p[j].memory PROVE k = j
    <3>1. at[j] \in S /\ p[j] = e[at[j]]
      BY <1>3
    <3>2. at[k] = at[j]
      BY <1>6, <2>1, <2>4, <3>1
    <3> QED
      BY <1>3, <3>2
  <2> QED
    BY <2>2, <2>3, <2>4
<1>8. ASSUME NEW x \in Memories, r \in DOMAIN after[x]
      PROVE  \E k \in DOMAIN p : p[k].memory = x
  <2>1. x # m /\ r \in DOMAIN given[x]
    BY <1>5, <1>8
  <2>2. PICK i \in DOMAIN e : e[i].memory = x
    BY <2>1 DEF EdgeOf
  <2>3. PICK k \in DOMAIN p : at[k] = i
    BY <1>3, <1>4, <2>1, <2>2
  <2> QED
    BY <1>3, <2>2, <2>3
<1>9. EdgeOf(p, r, after)
  BY <1>2, <1>7, <1>8 DEF EdgeOf
<1> QED
  BY <1>9 DEF p, after, S

\* With a new entry for a memory that had none, it is that of one more.
LEMMA EdgeAppend ==
  ASSUME NEW e, NEW r, NEW given, given = [m \in Memories |-> given[m]],
         NEW m \in Memories, EdgeOf(e, r, [given EXCEPT ![m] = << >>]),
         NEW new, r \in DOMAIN new
  PROVE  EdgeOf(Append(e, [memory |-> m, confidence |-> new[r]]), r, [given EXCEPT ![m] = new])
<1> DEFINE n == Len(e)
           x == [memory |-> m, confidence |-> new[r]]
           p == Append(e, x)
           before == [given EXCEPT ![m] = << >>]
           after == [given EXCEPT ![m] = new]
<1>1. n \in Nat /\ DOMAIN e = 1 .. n
  BY DEF EdgeOf
<1>2. Len(p) = n + 1 /\ DOMAIN p = 1 .. (n + 1) /\ p[n + 1] = x /\ (\A i \in 1 .. n : p[i] = e[i])
      /\ p = [i \in 1 .. (n + 1) |-> p[i]]
  <2> DEFINE T == {e[i] : i \in 1 .. n} \cup {x}
  <2>1. e = [i \in 1 .. n |-> e[i]] /\ x \in T /\ Len(e) = n
    BY DEF EdgeOf
  <2> HIDE DEF x, n
  <2>2. e \in [1 .. n -> T]
    BY <2>1
  <2> HIDE DEF T
  <2>3. e \in Seq(T)
    BY <1>1, <2>2
  <2>4. p \in Seq(T) /\ Len(p) = n + 1 /\ p[n + 1] = x /\ \A i \in 1 .. n : p[i] = e[i]
    BY <1>1, <2>1, <2>3
  <2>5. p \in [1 .. (n + 1) -> T]
    <3> HIDE DEF p
    <3> QED
      BY <2>4
  <2> HIDE DEF p
  <2>6. p = [i \in 1 .. (n + 1) |-> p[i]]
    BY <2>5
  <2> QED
    BY <2>4, <2>5, <2>6
<1>3. /\ after[m] = new /\ before[m] = << >>
      /\ \A y \in Memories : y # m => after[y] = given[y] /\ before[y] = given[y]
  BY SMTT(15), ZenonT(30)
<1>4. /\ \A i \in 1 .. n :
           /\ e[i].memory \in Memories /\ r \in DOMAIN before[e[i].memory]
           /\ e[i].confidence = before[e[i].memory][r]
           /\ \A j \in 1 .. n : e[i].memory = e[j].memory => i = j
      /\ \A y \in Memories : r \in DOMAIN before[y] => \E i \in 1 .. n : e[i].memory = y
  BY <1>1 DEF EdgeOf
<1>5. x.memory = m /\ x.confidence = new[r]
  OBVIOUS
<1> HIDE DEF n, x, p, before, after
<1>6. DOMAIN << >> = {}
  OBVIOUS
<1>7. \A i \in 1 .. n : e[i].memory # m
  BY <1>3, <1>4, <1>6
<1>8. ASSUME NEW i \in 1 .. (n + 1)
      PROVE  /\ p[i].memory \in Memories /\ r \in DOMAIN after[p[i].memory]
             /\ p[i].confidence = after[p[i].memory][r]
             /\ \A j \in 1 .. (n + 1) : p[i].memory = p[j].memory => i = j
  <2>1. CASE i \in 1 .. n
    <3>1. p[i] = e[i] /\ e[i].memory # m /\ e[i].memory \in Memories
      BY <1>2, <1>4, <1>7, <2>1
    <3>2. after[e[i].memory] = before[e[i].memory]
      BY <1>3, <3>1
    <3>3. \A j \in 1 .. (n + 1) : j \in 1 .. n \/ j = n + 1
      BY <1>1
    <3>4. \A j \in 1 .. (n + 1) : p[i].memory = p[j].memory => i = j
      BY <1>2, <1>4, <1>5, <2>1, <3>1, <3>3
    <3> QED
      BY <1>4, <2>1, <3>1, <3>2, <3>4
  <2>2. CASE i = n + 1
    <3>1. p[i].memory = m /\ p[i].confidence = new[r]
      BY <1>2, <1>5, <2>2
    <3>2. \A j \in 1 .. (n + 1) : j \in 1 .. n \/ j = n + 1
      BY <1>1
    <3>3. \A j \in 1 .. n : p[j].memory # m
      BY <1>2, <1>7
    <3> QED
      BY <1>3, <2>2, <3>1, <3>2, <3>3
  <2> QED
    BY <1>1, <2>1, <2>2
<1>9. ASSUME NEW y \in Memories, r \in DOMAIN after[y] PROVE \E i \in 1 .. (n + 1) : p[i].memory = y
  <2>1. CASE y = m
    <3>1. n + 1 \in 1 .. (n + 1)
      BY <1>1
    <3> QED
      BY <1>2, <1>5, <2>1, <3>1
  <2>2. CASE y # m
    <3>1. PICK i \in 1 .. n : e[i].memory = y
      BY <1>3, <1>4, <1>9, <2>2
    <3>2. i \in 1 .. (n + 1)
      BY <1>1
    <3>3. p[i] = e[i]
      BY <1>2, Zenon
    <3> QED
      BY <3>1, <3>2, <3>3
  <2> QED
    BY <2>1, <2>2
<1>10. Len(p) \in Nat /\ p = [i \in 1 .. Len(p) |-> p[i]] /\ DOMAIN p = 1 .. (n + 1)
  <2>1. Len(p) \in Nat /\ 1 .. Len(p) = 1 .. (n + 1)
    BY <1>1, <1>2
  <2> QED
    BY <1>2, <2>1, Zenon
<1>11. EdgeOf(p, r, after)
  BY <1>8, <1>9, <1>10 DEF EdgeOf
<1> QED
  BY <1>11 DEF p, x, after

\* What a list without repetition names, it names as often as it is long.
LEMMA DistinctCount ==
  ASSUME NEW n \in Nat, NEW f, \A i, j \in 1 .. n : f[i] = f[j] => i = j
  PROVE  Cardinality({f[i] : i \in 1 .. n}) = n
<1> DEFINE T == {f[i] : i \in 1 .. n}
           g == [i \in 1 .. n |-> f[i]]
<1>1. IsFiniteSet(1 .. n) /\ Cardinality(1 .. n) = n
  <2>1. n \in Int /\ 1 \in Int
    OBVIOUS
  <2> QED
    BY <2>1, FS_Interval
<1>2. g \in [1 .. n -> T] /\ \A i, j \in 1 .. n : g[i] = g[j] => i = j
  OBVIOUS
<1>3. \A x \in T : \E i \in 1 .. n : g[i] = x
  OBVIOUS
<1> HIDE DEF g, T
<1>4. g \in Injection(1 .. n, T)
  BY <1>2, Fun_IsInj
<1>5. g \in Surjection(1 .. n, T)
  BY <1>2, <1>3 DEF Surjection
<1>6. IsFiniteSet(T) /\ Cardinality(T) = Cardinality(1 .. n)
  BY <1>1, <1>4, <1>5, FS_Surjection, FS_Bijection DEF Bijection
<1> QED
  BY <1>1, <1>6 DEF T

\* An edge shows who contributes to it, and is as confident as the most confident.
Shows(e, r, given) ==
  LET givers == {m \in Memories : r \in DOMAIN given[m]}
  IN  /\ SourcesOfEdge(e) = givers /\ Len(e) = Cardinality(givers)
      /\ Confidence(e) = Max({0} \cup {given[m][r] : m \in givers})

\* What a relationship shows is what its entries say: each giver once.
LEMMA EdgeMatches == ASSUME NEW e, NEW r, NEW given, EdgeOf(e, r, given) PROVE Shows(e, r, given)
<1> DEFINE givers == {m \in Memories : r \in DOMAIN given[m]}
           n == Len(e)
           at == [i \in 1 .. n |-> e[i].memory]
<1>1. n \in Nat /\ DOMAIN e = 1 .. n
  BY DEF EdgeOf
<1>2. /\ \A i \in 1 .. n : e[i].memory \in givers /\ e[i].confidence = given[e[i].memory][r]
      /\ \A i, j \in 1 .. n : e[i].memory = e[j].memory => i = j
      /\ \A m \in givers : \E i \in 1 .. n : e[i].memory = m
  BY <1>1 DEF EdgeOf
<1>3. SourcesOfEdge(e) = givers
  <2> HIDE DEF givers, n
  <2> QED
    BY <1>1, <1>2 DEF SourcesOfEdge
<1>4. {e[i].confidence : i \in DOMAIN e} = {given[m][r] : m \in givers}
  <2> HIDE DEF givers, n
  <2>1. \A i \in DOMAIN e : \E m \in givers : e[i].confidence = given[m][r]
    BY <1>1, <1>2
  <2>2. \A m \in givers : \E i \in DOMAIN e : e[i].confidence = given[m][r]
    BY <1>1, <1>2
  <2> QED
    BY <2>1, <2>2
<1>5. Len(e) = Cardinality(givers)
  <2>1. givers = {at[i] : i \in 1 .. n}
    BY <1>2
  <2>2. \A i, j \in 1 .. n : at[i] = at[j] => i = j
    BY <1>2
  <2> HIDE DEF at, givers
  <2>3. n \in Nat
    BY <1>1
  <2> HIDE DEF n
  <2>4. Cardinality({at[i] : i \in 1 .. n}) = n
    BY <2>2, <2>3, DistinctCount
  <2> QED
    BY <2>1, <2>4 DEF n
<1>6. Confidence(e) = Max({0} \cup {given[m][r] : m \in givers})
  <2> HIDE DEF givers
  <2> QED
    BY <1>4, Zenon DEF Confidence
<1> QED
  BY <1>3, <1>5, <1>6 DEF Shows

\* Every relationship holds what its contributors gave it.
EdgesHold(graph, given) ==
  /\ graph = [r \in Relations |-> graph[r]] /\ given = [m \in Memories |-> given[m]]
  /\ \A r \in Relations : EdgeOf(graph[r], r, given)

EdgesOK == EdgesHold(edges, applied)

\* One memory's contribution is taken out of the graph.
LEMMA HoldWithout ==
  ASSUME NEW graph, NEW given, EdgesHold(graph, given), NEW m \in Memories
  PROVE  EdgesHold(Without(graph, m), [given EXCEPT ![m] = << >>])
<1> DEFINE after == [given EXCEPT ![m] = << >>]
<1>1. DOMAIN << >> = {}
  OBVIOUS
<1>2. ASSUME NEW r \in Relations PROVE EdgeOf(Without(graph, m)[r], r, after)
  <2>1. EdgeOf(graph[r], r, given) /\ given = [y \in Memories |-> given[y]] /\ r \notin DOMAIN << >>
    BY <1>1 DEF EdgesHold
  <2>2. EdgeOf(Picked(graph[r], OthersOf(graph[r], m)), r, [given EXCEPT ![m] = << >>])
    BY <2>1, EdgeWithout
  <2>3. Without(graph, m)[r] = Picked(graph[r], OthersOf(graph[r], m))
    BY DEF Without
  <2> QED
    BY <2>2, <2>3
<1>3. Without(graph, m) = [r \in Relations |-> Without(graph, m)[r]]
  BY DEF Without
<1>4. after = [y \in Memories |-> after[y]]
  BY DEF EdgesHold
<1> HIDE DEF after
<1>5. EdgesHold(Without(graph, m), after)
  BY <1>2, <1>3, <1>4 DEF EdgesHold
<1> QED
  BY <1>5 DEF after

\* It is replaced by a new one.
LEMMA HoldReplaced ==
  ASSUME NEW graph, NEW given, EdgesHold(graph, given), NEW m \in Memories, NEW new
  PROVE  EdgesHold(Replaced(graph, m, new), [given EXCEPT ![m] = new])
<1> DEFINE after == [given EXCEPT ![m] = new]
           x(r) == [memory |-> m, confidence |-> new[r]]
<1>1. given = [y \in Memories |-> given[y]]
  BY DEF EdgesHold
<1>2. ASSUME NEW r \in Relations PROVE EdgeOf(Replaced(graph, m, new)[r], r, after)
  <2>1. EdgeOf(graph[r], r, given)
    BY DEF EdgesHold
  <2>2. Without(graph, m)[r] = Picked(graph[r], OthersOf(graph[r], m))
    BY DEF Without
  <2>3. CASE r \in DOMAIN new
    <3>1. EdgeOf(Without(graph, m)[r], r, [given EXCEPT ![m] = << >>])
      BY HoldWithout DEF EdgesHold
    <3>2. EdgeOf(Append(Without(graph, m)[r], x(r)), r, [given EXCEPT ![m] = new])
      BY <1>1, <2>3, <3>1, EdgeAppend
    <3>3. Replaced(graph, m, new)[r] = Append(Without(graph, m)[r], x(r))
      BY <2>3 DEF Replaced
    <3> QED
      BY <3>2, <3>3
  <2>4. CASE r \notin DOMAIN new
    <3>1. EdgeOf(Picked(graph[r], OthersOf(graph[r], m)), r, [given EXCEPT ![m] = new])
      BY <1>1, <2>1, <2>4, EdgeWithout
    <3>2. Replaced(graph, m, new)[r] = Without(graph, m)[r]
      BY <2>4 DEF Replaced
    <3> QED
      BY <2>2, <3>1, <3>2
  <2> QED
    BY <2>3, <2>4
<1>3. Replaced(graph, m, new) = [r \in Relations |-> Replaced(graph, m, new)[r]]
  BY DEF Replaced
<1>4. after = [y \in Memories |-> after[y]]
  BY <1>1
<1> HIDE DEF after
<1>5. EdgesHold(Replaced(graph, m, new), after)
  BY <1>2, <1>3, <1>4 DEF EdgesHold
<1> QED
  BY <1>5 DEF after

\* The graph of the settled memories.
LEMMA HoldSettled ==
  EdgesHold(SettledEdges,
            [m \in Memories |-> IF m \in DOMAIN Settled THEN SettledPlan(m) ELSE << >>])
<1> DEFINE given == [m \in Memories |-> IF m \in DOMAIN Settled THEN SettledPlan(m) ELSE << >>]
<1>1. DOMAIN << >> = {}
  OBVIOUS
<1>2. ASSUME NEW r \in Relations PROVE EdgeOf(SettledEdges[r], r, given)
  <2> DEFINE givers == {m \in DOMAIN Settled : r \in DOMAIN SettledPlan(m)}
             at == InOrder(givers, Ascending(givers))
             n == Cardinality(givers)
             e == SettledEdges[r]
  <2>1. givers \in SUBSET Memories
    BY ReadsAssumption
  <2>2. /\ \A m \in Memories : r \in DOMAIN given[m] <=> m \in givers
        /\ \A m \in givers : given[m] = SettledPlan(m)
    BY <1>1, <2>1
  <2>3. e = [k \in DOMAIN at |-> [memory |-> at[k], confidence |-> SettledPlan(at[k])[r]]]
    BY DEF SettledEdges
  <2> HIDE DEF e, given, givers
  <2>4. IsFiniteSet(givers) /\ Orders(givers, Ascending(givers))
    BY <2>1, ReadsAssumption, FS_Subset, AscendingOrders
  <2>5. /\ n \in Nat /\ DOMAIN at = 1 .. n
        /\ \A k \in 1 .. n : at[k] \in givers
        /\ \A x \in givers : \E k \in 1 .. n : at[k] = x
        /\ \A i, j \in 1 .. n : at[i] = at[j] => i = j
    BY <2>4, InOrderIs
  <2> HIDE DEF at, n
  <2>6. /\ Len(e) = n /\ DOMAIN e = 1 .. n /\ e = [k \in 1 .. n |-> e[k]]
        /\ \A k \in 1 .. n : e[k].memory = at[k] /\ e[k].confidence = SettledPlan(at[k])[r]
    BY <2>3, <2>5
  <2>7. \A i \in 1 .. n :
           /\ e[i].memory \in Memories /\ r \in DOMAIN given[e[i].memory]
           /\ e[i].confidence = given[e[i].memory][r]
           /\ \A j \in 1 .. n : e[i].memory = e[j].memory => i = j
    <3> SUFFICES ASSUME NEW i \in 1 .. n
                 PROVE  /\ e[i].memory \in Memories /\ r \in DOMAIN given[e[i].memory]
                        /\ e[i].confidence = given[e[i].memory][r]
                        /\ \A j \in 1 .. n : e[i].memory = e[j].memory => i = j
      OBVIOUS
    <3>1. e[i].memory \in givers /\ e[i].memory = at[i]
      BY <2>5, <2>6
    <3>2. e[i].memory \in Memories /\ r \in DOMAIN given[e[i].memory]
      BY <2>1, <2>2, <3>1
    <3>3. e[i].confidence = given[e[i].memory][r]
      BY <2>2, <2>6, <3>1
    <3>4. \A j \in 1 .. n : e[i].memory = e[j].memory => i = j
      BY <2>5, <2>6
    <3> QED
      BY <3>2, <3>3, <3>4
  <2>8. \A m \in Memories : r \in DOMAIN given[m] => \E i \in 1 .. n : e[i].memory = m
    BY <2>2, <2>5, <2>6
  <2>9. EdgeOf(e, r, given)
    BY <2>5, <2>6, <2>7, <2>8 DEF EdgeOf
  <2> QED
    BY <2>9 DEF e
<1>3. SettledEdges = [r \in Relations |-> SettledEdges[r]]
  BY DEF SettledEdges
<1>4. given = [y \in Memories |-> given[y]]
  OBVIOUS
<1> HIDE DEF given
<1>5. EdgesHold(SettledEdges, given)
  BY <1>2, <1>3, <1>4 DEF EdgesHold
<1> QED
  BY <1>5 DEF given

\* An edge is kept as the graph store is, and the graph shows what was applied.
LEMMA EdgesShow == EdgesOK => EdgesMatchContributions
<1> SUFFICES ASSUME EdgesOK PROVE \A r \in Relations : Shows(edges[r], r, applied)
  BY Zenon DEF EdgesMatchContributions, Shows
<1>1. \A r \in Relations : EdgeOf(edges[r], r, applied)
  BY DEF EdgesOK, EdgesHold
<1> QED
  BY <1>1, EdgeMatches

\* The steps of the graph store.
LEMMA StepEdges ==
  ASSUME EdgesOK, sync = Null \/ sync.m \in Memories, SyncGraph PROVE EdgesOK'
<1>1. sync.m \in Memories
  BY DEF SyncGraph
<1>2. CASE edges' = Without(edges, sync.m) /\ applied' = [applied EXCEPT ![sync.m] = << >>]
  BY <1>1, <1>2, HoldWithout DEF EdgesOK
<1>3. CASE /\ edges' = Replaced(edges, sync.m, plan[sync.m])
           /\ applied' = [applied EXCEPT ![sync.m] = plan[sync.m]]
  BY <1>1, <1>3, HoldReplaced DEF EdgesOK
<1>4. CASE UNCHANGED <<edges, applied>>
  BY <1>4 DEF EdgesOK
<1> QED
  BY <1>2, <1>3, <1>4 DEF SyncGraph

-----------------------------------------------------------------------------
(* Pages.                                                                  *)

\* A status a query may ask for.
LEMMA MatchesListed ==
  ASSUME NEW q \in Queries, NEW entry, Matches(q, entry)
  PROVE  entry.status # "absent"
<1>1. q.statuses \subseteq {"active", "soft_deleted", "redacted"}
  BY ReadsAssumption DEF ListedStatuses
<1> QED
  BY <1>1 DEF Matches, EffectiveStatuses

\* Queries of one fingerprint match alike.
LEMMA MatchesAlike ==
  ASSUME NEW f, NEW g, Fingerprint(f) = Fingerprint(g), NEW entry
  PROVE  Matches(f, entry) <=> Matches(g, entry)
<1>1. /\ Fingerprint(f).tag = f.tag /\ Fingerprint(g).tag = g.tag
      /\ Fingerprint(f).scope = EffectiveScope(f) /\ Fingerprint(g).scope = EffectiveScope(g)
      /\ Fingerprint(f).statuses = EffectiveStatuses(f)
      /\ Fingerprint(g).statuses = EffectiveStatuses(g)
  BY DEF Fingerprint
<1> QED
  BY <1>1 DEF Matches

RowsOrder(S) == {p \in S \X S : Newer(p[1], p[2])}

LEMMA NewerOrders == ASSUME NEW S \in SUBSET Memories PROVE Orders(S, RowsOrder(S))
<1>1. \A m \in S : CreatedAt[m] \in Nat /\ m \in Nat
  BY ReadsAssumption
<1>2. \A x, y \in S : <<x, y>> \in RowsOrder(S) <=> Newer(x, y)
  BY DEF RowsOrder
<1>3. \A x \in S : ~Newer(x, x)
  BY <1>1 DEF Newer
<1>4. \A x, y \in S : x = y \/ Newer(x, y) \/ Newer(y, x)
  BY <1>1 DEF Newer
<1>5. \A x, y, z \in S : Newer(x, y) /\ Newer(y, z) => Newer(x, z)
  BY <1>1 DEF Newer
<1> QED
  BY <1>2, <1>3, <1>4, <1>5 DEF Orders

\* A cursor stands for the row it was made of.
CursorAt(m, query) == [created |-> CreatedAt[m], id |-> m, fingerprint |-> Fingerprint(query)]

LEMMA CursorIs ==
  ASSUME NEW l \in Memories, NEW q \in Queries
  PROVE  /\ CursorAt(l, q) \in Cursors /\ CursorAt(l, q) # Null
         /\ CursorAt(l, q).fingerprint = Fingerprint(q)
         /\ \A m \in Memories : After(CursorAt(l, q), m) <=> Newer(l, m)
<1> DEFINE c == CursorAt(l, q)
<1>1. c.created = CreatedAt[l] /\ c.id = l /\ c.fingerprint = Fingerprint(q)
  BY DEF CursorAt
<1>2. c \in Cursors
  BY DEF CursorAt, Cursors
<1>3. c # Null
  BY <1>2, ReadsAssumption
<1> HIDE DEF c
<1>4. \A m \in Memories : CreatedAt[m] \in Nat /\ m \in Nat
  BY ReadsAssumption
<1>5. \A m \in Memories : After(c, m) <=> Newer(l, m)
  BY <1>1, <1>3, <1>4 DEF After, Newer
<1> QED
  BY <1>1, <1>2, <1>3, <1>5 DEF c

\* What comes after a row that comes after a cursor does so too.
LEMMA AfterNext ==
  ASSUME NEW cursor, cursor = Null \/ cursor \in Cursors, NEW l \in Memories, NEW m \in Memories,
         After(cursor, l), Newer(l, m)
  PROVE  After(cursor, m)
<1>1. CreatedAt[l] \in Nat /\ l \in Nat /\ CreatedAt[m] \in Nat /\ m \in Nat
  BY ReadsAssumption
<1>2. CASE cursor = Null
  BY <1>2 DEF After
<1>3. CASE cursor \in Cursors
  <2>1. cursor.created \in Nat /\ cursor.id \in Nat
    BY <1>3, ReadsAssumption DEF Cursors
  <2> QED
    BY <1>1, <2>1 DEF After, Newer
<1> QED
  BY <1>2, <1>3

Rows(entries, query, cursor) ==
  {m \in DOMAIN entries : Matches(query, entries[m]) /\ After(cursor, m)}

\* A page holds the first rows after the cursor, each once, and its cursor says
\* how far it got.
LEMMA PageIs ==
  ASSUME NEW entries, DOMAIN entries \in SUBSET Memories,
         NEW q \in Queries, q.limit \in 1 .. 100, NEW cursor, cursor = Null \/ cursor \in Cursors
  PROVE  LET page == Page(entries, q, cursor)
             rows == Rows(entries, q, cursor)
             n == Len(page.items)
             named == {page.items[i] : i \in 1 .. n}
         IN  /\ n \in Nat /\ DOMAIN page.items = 1 .. n
             /\ named \subseteq rows
             /\ \A i, j \in 1 .. n : page.items[i] = page.items[j] => i = j
             /\ page.next = Null => named = rows
             /\ page.next # Null =>
                  /\ page.next \in Cursors /\ page.next.fingerprint = Fingerprint(q)
                  /\ \A m \in Memories : After(page.next, m) => m \notin named /\ After(cursor, m)
                  /\ \A m \in rows : ~After(page.next, m) => m \in named
<1> DEFINE rows == Rows(entries, q, cursor)
           sorted == InOrder(rows, RowsOrder(rows))
           c == Cardinality(rows)
           most == q.limit
           k == IF c > most THEN most ELSE c
           items == SubSeq(sorted, 1, k)
           page == Page(entries, q, cursor)
<1>1. rows \in SUBSET Memories /\ \A m \in rows : After(cursor, m)
  BY DEF Rows
<1>2. IsFiniteSet(rows) /\ Orders(rows, RowsOrder(rows))
  BY <1>1, ReadsAssumption, FS_Subset, NewerOrders
<1>3. Len(sorted) = c /\ sorted \in Seq(rows)
  <2>1. /\ c \in Nat /\ DOMAIN sorted = 1 .. c
        /\ \A i \in 1 .. c : sorted[i] \in rows
    BY <1>2, InOrderIs
  <2>2. sorted = [i \in 1 .. c |-> CHOOSE x \in rows : Cardinality({y \in rows : <<y, x>> \in RowsOrder(rows)}) = i - 1]
    BY DEF InOrder
  <2>3. sorted \in [1 .. c -> rows]
    <3> DEFINE g(i) == CHOOSE x \in rows : Cardinality({y \in rows : <<y, x>> \in RowsOrder(rows)}) = i - 1
    <3>1. sorted = [i \in 1 .. c |-> g(i)]
      BY <2>2
    <3> HIDE DEF g, sorted, c, rows
    <3> QED
      BY <2>1, <3>1
  <2> HIDE DEF sorted, c, rows
  <2> QED
    BY <2>1, <2>3
<1>4. /\ c \in Nat
      /\ \A i \in 1 .. c : sorted[i] \in rows
      /\ \A x \in rows : \E i \in 1 .. c : sorted[i] = x
      /\ \A i, j \in 1 .. c : sorted[i] = sorted[j] => i = j
      /\ \A i, j \in 1 .. c : Newer(sorted[i], sorted[j]) => i < j
  <2>1. /\ c \in Nat
        /\ \A i \in 1 .. c : sorted[i] \in rows
        /\ \A x \in rows : \E i \in 1 .. c : sorted[i] = x
        /\ \A i, j \in 1 .. c : sorted[i] = sorted[j] => i = j
        /\ \A i, j \in 1 .. c : <<sorted[i], sorted[j]>> \in RowsOrder(rows) => i < j
    BY <1>2, InOrderIs
  <2> HIDE DEF sorted, c, rows
  <2>2. \A i, j \in 1 .. c : Newer(sorted[i], sorted[j]) => <<sorted[i], sorted[j]>> \in RowsOrder(rows)
    BY <2>1 DEF RowsOrder
  <2> QED
    BY <2>1, <2>2
<1>5. /\ page.items = items
      /\ page.next = IF c > most THEN CursorAt(items[most], q) ELSE Null
  <2>1. page = [items |-> SubSeq(sorted, 1, IF Len(sorted) > most THEN most ELSE Len(sorted)),
                next |-> IF Len(sorted) > most
                         THEN CursorAt(SubSeq(sorted, 1, IF Len(sorted) > most THEN most ELSE Len(sorted))[most], q)
                         ELSE Null]
    BY Zenon DEF Page, Rows, RowsOrder, CursorAt
  <2> HIDE DEF sorted, c, page
  <2> QED
    BY <1>3, <2>1
<1>a. most \in 1 .. 100
  OBVIOUS
<1> HIDE DEF sorted, rows, c, page, most
<1>6. k \in 0 .. c /\ (c > most => k = most /\ most \in 1 .. k) /\ (~(c > most) => k = c)
  BY <1>4, <1>a
<1>7. Len(items) = k /\ DOMAIN items = 1 .. k /\ \A i \in 1 .. k : items[i] = sorted[i]
  <2> HIDE DEF k
  <2> QED
    BY <1>3, <1>4, <1>6
<1> DEFINE named == {items[i] : i \in 1 .. k}
<1> HIDE DEF k, items
<1>8. \A i \in 1 .. k : i \in 1 .. c
  BY <1>4, <1>6
<1>9. named \subseteq rows /\ \A i, j \in 1 .. k : items[i] = items[j] => i = j
  BY <1>4, <1>7, <1>8
<1>10. ASSUME ~(c > most) PROVE named = rows
  <2>1. \A x \in rows : \E i \in 1 .. k : items[i] = x
    BY <1>4, <1>6, <1>7, <1>10
  <2> QED
    BY <1>9, <2>1
<1>11. ASSUME c > most
       PROVE  /\ page.next \in Cursors /\ page.next # Null /\ page.next.fingerprint = Fingerprint(q)
              /\ \A m \in Memories : After(page.next, m) => m \notin named /\ After(cursor, m)
              /\ \A m \in rows : ~After(page.next, m) => m \in named
  <2> DEFINE l == items[most]
  <2>1. most \in 1 .. k /\ k = most /\ most \in 1 .. c
    BY <1>6, <1>8, <1>11
  <2>2. l = sorted[most] /\ l \in rows /\ l \in Memories
    BY <1>1, <1>4, <1>7, <2>1
  <2>3. page.next = CursorAt(l, q)
    BY <1>5, <1>11
  <2> HIDE DEF l
  <2>4. /\ page.next \in Cursors /\ page.next # Null
        /\ page.next.fingerprint = Fingerprint(q)
        /\ \A m \in Memories : After(page.next, m) <=> Newer(l, m)
    BY <2>2, <2>3, CursorIs
  <2>5. ASSUME NEW m \in Memories, Newer(l, m) PROVE m \notin named /\ After(cursor, m)
    <3>1. After(cursor, m)
      BY <1>1, <2>2, <2>5, AfterNext
    <3>2. SUFFICES ASSUME NEW i \in 1 .. k, items[i] = m PROVE FALSE
      BY <3>1
    <3>3. i \in 1 .. c /\ sorted[i] = m
      BY <1>7, <1>8, <3>2
    <3>4. most < i
      BY <1>4, <2>1, <2>2, <2>5, <3>3
    <3> QED
      BY <1>6, <2>1, <3>2, <3>4
  <2>6. ASSUME NEW m \in rows, ~Newer(l, m) PROVE m \in named
    <3>1. PICK i \in 1 .. c : sorted[i] = m
      BY <1>4
    <3>2. m = l \/ Newer(m, l)
      <4>1. m \in Memories /\ \A x \in Memories : CreatedAt[x] \in Nat /\ x \in Nat
        BY <1>1, ReadsAssumption
      <4> QED
        BY <2>2, <2>6, <4>1 DEF Newer
    <3>3. i = most \/ i < most
      BY <1>4, <2>1, <2>2, <3>1, <3>2
    <3>4. i \in 1 .. k
      BY <1>4, <2>1, <3>3
    <3> QED
      BY <1>7, <3>1, <3>4
  <2>7. \A m \in rows : ~After(page.next, m) => m \in named
    BY <1>1, <2>4, <2>6
  <2> QED
    BY <2>4, <2>5, <2>7
<1>12. page.next = Null => ~(c > most)
  BY <1>11
<1>13. page.next # Null => c > most
  BY <1>5
<1>14. page.items = items /\ Len(items) = k /\ k \in Nat /\ DOMAIN items = 1 .. k
  BY <1>4, <1>5, <1>6, <1>7
<1> HIDE DEF named
<1>15. {page.items[i] : i \in 1 .. Len(page.items)} = named
  BY <1>14 DEF named
<1> QED
  BY <1>9, <1>10, <1>11, <1>12, <1>13, <1>14, <1>15 DEF rows, page

-----------------------------------------------------------------------------
(* The inductive invariant.                                                *)

ReaderPcs == {"idle", "prepare", "paths", "access", "finish", "policies", "summary", "tail",
              "messages", "answered"}
Paths == [state: {"todo", "gate", "done", "failed"}, ids: SUBSET Memories]
ReaderType ==
  [op: {"none", "retrieve", "context"}, pc: ReaderPcs, scope: SUBSET Levels,
   asked: SUBSET Levels, gone: SUBSET Messages, total: Nat, budget: Nat, left: Nat, hops: Nat,
   filter: {Null} \cup {r.filter : r \in Requests}, vector: Paths, graph: Paths,
   items: SUBSET Memories, served: SUBSET Parts, passed: SUBSET Parts, dropped: {{}},
   todo: SUBSET Messages,
   status: {"none", "ok", "degraded", "error", "failed", "refused"},
   reasons: SUBSET {"tail"}]

Points == [level: Levels, tags: SUBSET Tags] \cup {Null}

\* The types of what is stored and of the copies that are worked on.
StoresTyped ==
  /\ row \in [Memories -> Row] /\ tomb \in [Messages -> {"none", "soft", "redact"}]
  /\ points \in [Memories -> Points]
  /\ fresh \subseteq Memories /\ behind \subseteq Memories
  /\ sync = Null \/ sync \in [m: Memories, record: Row, vector: BOOLEAN]
  /\ edit = Null \/ edit \in [m: Memories, record: Row]
  /\ writes \in 0 .. MaxWrites

\* Whoever reads has seen every memory as it is now.
Watched ==
  /\ seen = [m \in Memories |-> seen[m]]
  /\ ~Idle => \A m \in Memories : View(m) \in seen[m]

\* What a retrieval may spend.
Share == IF reader.op = "retrieve" THEN reader.total ELSE reader.left

\* Where the call is, and what it has been granted.
GrantOK ==
  /\ reader.asked \subseteq AllowedLevels /\ reader.total <= MaxBudget
  /\ reader.pc \in {"prepare", "policies"} =>
       (IF reader.scope = {} THEN {"private"} ELSE reader.scope) \cap AllowedLevels = reader.asked
  /\ reader.pc \in {"paths", "access", "finish", "summary", "tail", "messages"} =>
       reader.scope = reader.asked
  /\ reader.pc = "answered" => reader.scope \subseteq AllowedLevels
  /\ reader.pc \notin {"idle", "answered"} => reader.op \in {"retrieve", "context"}
  /\ reader.pc \in {"policies", "summary", "tail", "messages"} => reader.op = "context"
  /\ reader.pc = "prepare" => Least(reader.budget, MaxBudget) = Share
  /\ reader.pc = "policies" => Least(reader.budget, MaxBudget) = reader.total
  /\ reader.pc \in {"paths", "access", "finish"} => reader.budget = Share

\* What is paid for: the parts served so far, then the items of the retrieval.
PaidOK ==
  /\ reader.left <= reader.total
  /\ reader.pc \in {"idle", "policies"} \/ (reader.op = "retrieve" /\ reader.pc # "answered") =>
       reader.served = {} /\ reader.left = 0
  /\ reader.pc \notin {"access", "finish", "answered"} => reader.items = {}
  /\ reader.pc \in {"idle", "policies"} \/ (reader.op = "retrieve" /\ reader.pc \in {"prepare", "paths"}) =>
       reader.passed = {}
  /\ reader.op = "context" /\ reader.pc \notin {"policies", "answered"} =>
       Cost(reader.served) + reader.left = reader.total
  /\ reader.pc \in {"summary", "tail", "messages", "prepare", "paths"} =>
       \A x \in reader.passed : Tokens[x] > reader.left
  /\ reader.pc \in {"access", "finish"} =>
       /\ Cost(reader.items) <= Share
       /\ \A x \in reader.passed : Tokens[x] > Share - Cost(reader.items)
  /\ Answered =>
       /\ Cost(reader.served) + reader.left = reader.total
       /\ \A x \in reader.passed : Tokens[x] > reader.left
  /\ reader.pc = "summary" => reader.served \subseteq Policies
  /\ reader.pc = "tail" => reader.served \subseteq Policies \cup {Summary.id}
  /\ reader.pc = "messages" =>
       reader.served \subseteq Policies \cup {Summary.id} \cup (Messages \ reader.todo)
  /\ reader.pc \in {"prepare", "paths", "access", "finish"} => reader.served \cap Memories = {}

\* What is served, or about to be, was visible and of no source forgotten before.
ServedOK ==
  /\ \A s \in reader.gone : tomb[s] # "none"
  /\ reader.served \cap reader.gone = {}
  /\ Summary.id \in reader.served => Summary.source \notin reader.gone
  /\ \A m \in (reader.items \cup reader.served) \cap Memories : \E v \in seen[m] : v.level \in reader.asked

\* Memories a complete answer has to have.
Near(m) ==
  /\ \A v \in seen[m] : /\ v.point # Null /\ v.point.level \in reader.asked
                        /\ HasTag(reader.filter, v.point.tags)
  /\ Cardinality({x \in Memories : Similarity[x] > Similarity[m]}) < MaxTopK
Linked(m) == \A v \in seen[m] : v.linked
Steady(m) == \A v \in seen[m] : v.level \in reader.asked
Filtered(m) == \A v \in seen[m] : HasTag(reader.filter, v.tags)
Wanted(m) == Steady(m) /\ Filtered(m) /\ (Near(m) \/ Linked(m))

FoundOK ==
  /\ reader.pc \in {"prepare", "policies", "summary", "tail", "messages"} =>
       reader.vector = Todo /\ reader.graph = Todo
  /\ reader.pc = "paths" =>
       /\ reader.vector.state = "done" => \A m \in Memories : Near(m) => m \in reader.vector.ids
       /\ reader.graph.state = "gate" => \A m \in Memories : Linked(m) => m \in reader.graph.ids
       /\ reader.graph.state = "done" => \A m \in Memories : Linked(m) /\ Steady(m) => m \in reader.graph.ids
  /\ reader.pc \in {"access", "finish"} /\ reader.status = "ok" =>
       \A m \in Memories : Wanted(m) => m \in reader.items \cup reader.passed
  /\ reader.pc = "answered" /\ reader.status = "ok" =>
       \A m \in Memories : Wanted(m) => m \in reader.served \/ Tokens[m] > reader.left

ListItems == [m: Memories, text: {"none", "content", "[redacted]"}]

\* A walk has listed what matched, each once, up to its cursor.
AlwaysMatched(m) == \A v \in seen[m] : Matches(walk.query, v)
WalkOK ==
  /\ walk \in [pc: {"idle", "page", "listed", "refused"}, query: {Null} \cup Queries,
               cursor: {Null} \cup Cursors,
               listed: Seq(ListItems)]
  /\ walk.pc = "idle" \/ (walk.pc = "page" /\ walk.cursor = Null) => walk.listed = <<>>
  /\ walk.pc = "listed" \/ walk.cursor # Null => walk.query \in Queries
  /\ \A i, j \in DOMAIN walk.listed : walk.listed[i].m = walk.listed[j].m => i = j
  /\ \A m \in Listed : \E v \in seen[m] : Matches(walk.query, v)
  /\ walk.pc = "page" /\ walk.cursor # Null =>
       /\ walk.cursor.fingerprint = Fingerprint(walk.query)
       /\ \A m \in Memories : After(walk.cursor, m) => m \notin Listed
       /\ \A m \in Memories : ~After(walk.cursor, m) /\ AlwaysMatched(m) => m \in Listed
  /\ walk.pc = "listed" => \A m \in Memories : AlwaysMatched(m) => m \in Listed

\* A call and a walk are not followed at once.
Apart == reader.pc = "idle" \/ walk.pc = "idle"

ReadsInv ==
  /\ Apart /\ StoresTyped /\ EdgesOK /\ Watched /\ reader \in ReaderType
  /\ GrantOK /\ PaidOK /\ ServedOK /\ FoundOK /\ WalkOK

-----------------------------------------------------------------------------
(* What a call has seen.                                                   *)

\* While a call is under way, what it has seen only grows, and it sees every memory
\* as the step leaves it.
LEMMA SeenGrows ==
  ASSUME Watched, Watch, ~Idle'
  PROVE  Watched' /\ \A m \in Memories : seen[m] \subseteq seen'[m] /\ View(m)' \in seen'[m]
<1>1. seen' = [m \in Memories |-> seen[m] \cup {View(m)'}]
  BY DEF Watch
<1>2. \A m \in Memories : seen'[m] = seen[m] \cup {View(m)'}
  BY <1>1
<1>3. seen' = [m \in Memories |-> seen'[m]]
  BY <1>1
<1>4. \A m \in Memories : seen[m] \subseteq seen'[m] /\ View(m)' \in seen'[m]
  BY <1>2
<1> QED
  BY <1>3, <1>4 DEF Watched

\* Otherwise nobody reads.
LEMMA SeenNothing == ASSUME Watch, Idle' PROVE Watched'
<1>1. seen' = [m \in Memories |-> {}]
  BY DEF Watch
<1>2. seen' = [m \in Memories |-> seen'[m]]
  BY <1>1
<1> QED
  BY <1>2 DEF Watched

\* A walk stays true to what was seen while others move.
LEMMA WalkStays ==
  ASSUME WalkOK, UNCHANGED walk, walk.pc = "idle" \/ \A m \in Memories : seen[m] \subseteq seen'[m]
  PROVE  WalkOK'
<1>1. \A m \in Memories : walk.pc # "idle" /\ AlwaysMatched(m)' => AlwaysMatched(m)
  BY DEF AlwaysMatched
<1>2. Listed' = Listed /\ Listed \subseteq Memories
  <2>1. walk.listed \in Seq(ListItems)
    BY DEF WalkOK
  <2>2. \A i \in DOMAIN walk.listed : walk.listed[i] \in ListItems
    BY <2>1
  <2>3. Listed \subseteq Memories
    BY <2>2 DEF Listed, ListItems
  <2> QED
    BY <2>3 DEF Listed
<1>3. walk.pc = "idle" => Listed = {}
  BY DEF Listed, WalkOK
<1>4. \A m \in Listed : \E v \in seen'[m] : Matches(walk.query, v)
  BY <1>2, <1>3 DEF WalkOK
<1>5. walk.pc = "page" /\ walk.cursor # Null =>
        \A m \in Memories : ~After(walk.cursor, m) /\ AlwaysMatched(m)' => m \in Listed
  BY <1>1 DEF WalkOK
<1>6. walk.pc = "listed" => \A m \in Memories : AlwaysMatched(m)' => m \in Listed
  BY <1>1 DEF WalkOK
<1> QED
  BY <1>2, <1>4, <1>5, <1>6 DEF WalkOK

\* What a call found and served stays so while others write: a forgotten source
\* stays forgotten, and what was seen is seen.
LEMMA CallStays ==
  ASSUME ServedOK, FoundOK, PaidOK, UNCHANGED reader,
         reader.pc = "idle" \/ \A m \in Memories : seen[m] \subseteq seen'[m],
         reader.gone \subseteq Messages,
         \A s \in Messages : tomb[s] # "none" => tomb'[s] # "none"
  PROVE  ServedOK' /\ FoundOK'
<1>1. reader.pc = "idle" => reader.items = {} /\ reader.served = {}
  BY DEF PaidOK
<1>2. ServedOK'
  <2>1. \A m \in (reader.items \cup reader.served) \cap Memories :
          \E v \in seen'[m] : v.level \in reader.asked
    BY <1>1 DEF ServedOK
  <2> QED
    BY <2>1 DEF ServedOK
<1>3. ASSUME NEW m \in Memories, reader.pc # "idle"
      PROVE  /\ Near(m)' => Near(m)
             /\ Linked(m)' => Linked(m)
             /\ Steady(m)' => Steady(m)
             /\ Filtered(m)' => Filtered(m)
  <2>1. Near(m)' => Near(m)
    BY <1>3 DEF Near
  <2>2. Linked(m)' => Linked(m)
    BY <1>3 DEF Linked
  <2>3. Steady(m)' => Steady(m)
    BY <1>3 DEF Steady
  <2>4. Filtered(m)' => Filtered(m)
    BY <1>3 DEF Filtered
  <2> QED
    BY <2>1, <2>2, <2>3, <2>4
<1>4. ASSUME NEW m \in Memories, reader.pc # "idle" PROVE Wanted(m)' => Wanted(m)
  BY <1>3, <1>4 DEF Wanted
<1>5. FoundOK'
  BY <1>3, <1>4 DEF FoundOK
<1> QED
  BY <1>2, <1>5

-----------------------------------------------------------------------------
(* Writers.                                                                *)

\* A step that leaves calls alone keeps what is known of them, if no source is
\* remembered again.
LEMMA OthersMove ==
  ASSUME ReadsInv, Watch, UNCHANGED <<reader, walk>>,
         \A s \in Messages : tomb[s] # "none" => tomb'[s] # "none",
         StoresTyped', EdgesOK'
  PROVE  ReadsInv'
<1>1. Watched'
  BY SeenGrows, SeenNothing DEF ReadsInv
<1>2. (reader.pc = "idle" /\ walk.pc = "idle") \/ \A m \in Memories : seen[m] \subseteq seen'[m]
  BY SeenGrows DEF ReadsInv, Idle
<1>3. WalkOK'
  BY <1>2, WalkStays DEF ReadsInv
<1>4. reader.gone \subseteq Messages
  BY DEF ReadsInv, ReaderType
<1>5. ServedOK' /\ FoundOK'
  BY <1>2, <1>4, CallStays DEF ReadsInv
<1>6. reader' \in ReaderType
  BY DEF ReadsInv
<1>7. GrantOK'
  BY DEF ReadsInv, GrantOK, Share
<1>8. PaidOK'
  BY DEF ReadsInv, PaidOK, Share, Answered
<1> QED
  BY <1>1, <1>3, <1>5, <1>6, <1>7, <1>8 DEF ReadsInv, Apart

\* What a row may hold.
LEMMA RowIs ==
  ASSUME StoresTyped, NEW m \in Memories
  PROVE  /\ row[m] \in Row /\ row[m].level \in Levels
         /\ EffectiveStatus(m) \in {"absent", "active"} \cup Inactive
         /\ Protected(m) \in Row
<1>1. row[m] \in Row
  BY DEF StoresTyped
<1>2. EffectiveStatus(m) \in {"absent", "active"} \cup Inactive
  BY <1>1 DEF EffectiveStatus, Row, Inactive
<1>3. Protected(m) \in Row
  BY <1>1, <1>2 DEF Protected, Row
<1> QED
  BY <1>1, <1>2, <1>3 DEF Row

\* Writing a record keeps the types.
LEMMA WriteTyped ==
  ASSUME StoresTyped, NEW m \in Memories, NEW record \in Row, NEW hints, Write(m, record, hints)
  PROVE  row' \in [Memories -> Row] /\ behind' \subseteq Memories /\ fresh' \subseteq Memories
  BY DEF StoresTyped, Write

LEMMA StepIngest ==
  ASSUME ReadsInv, Watch, NEW m \in Memories, Ingest(m) PROVE ReadsInv'
<1> DEFINE record(level) ==
             [status |-> "active", level |-> level, tags |-> Given[m], text |-> "content"]
<1>1. PICK level \in Levels : Write(m, record(level), Hints[m])
  BY DEF Ingest
<1>2. record(level) \in Row
  BY ReadsAssumption DEF Row
<1> HIDE DEF record
<1>3. row' \in [Memories -> Row] /\ behind' \subseteq Memories /\ fresh' \subseteq Memories
  BY <1>1, <1>2, WriteTyped DEF ReadsInv
<1>4. writes' \in 0 .. MaxWrites
  BY ReadsAssumption DEF Ingest, ReadsInv, StoresTyped
<1>5. StoresTyped'
  BY <1>3, <1>4 DEF Ingest, ReadsInv, StoresTyped
<1>6. EdgesOK'
  BY DEF Ingest, ReadsInv, EdgesOK
<1> QED
  BY <1>5, <1>6, OthersMove DEF Ingest

LEMMA StepUpdateRead ==
  ASSUME ReadsInv, Watch, NEW m \in Memories, UpdateRead(m) PROVE ReadsInv'
<1>1. PICK p \in Patches : edit' = [m |-> m, record |-> Patched(Protected(m), p)]
  BY DEF UpdateRead
<1>2. Protected(m) \in Row
  BY RowIs DEF ReadsInv
<1>3. edit' \in [m: Memories, record: Row]
  <2>1. p.level \in Levels \cup {Null} /\ p.add \subseteq Tags
    BY ReadsAssumption
  <2>2. Patched(Protected(m), p) \in Row
    BY <1>2, <2>1 DEF Patched, Row
  <2> QED
    BY <1>1, <2>2
<1>4. writes' \in 0 .. MaxWrites
  BY ReadsAssumption DEF UpdateRead, ReadsInv, StoresTyped
<1>5. StoresTyped'
  BY <1>3, <1>4 DEF UpdateRead, stores, ReadsInv, StoresTyped
<1>6. EdgesOK'
  BY DEF UpdateRead, stores, ReadsInv, EdgesOK
<1> QED
  BY <1>5, <1>6, OthersMove DEF UpdateRead, stores

LEMMA StepUpdateWrite ==
  ASSUME ReadsInv, Watch, UpdateWrite PROVE ReadsInv'
<1>1. edit.m \in Memories /\ edit.record \in Row
  BY DEF UpdateWrite, ReadsInv, StoresTyped
<1>2. row' \in [Memories -> Row] /\ behind' \subseteq Memories /\ fresh' \subseteq Memories
  <2>1. CASE Write(edit.m, edit.record, {})
    BY <1>1, <2>1, WriteTyped DEF ReadsInv
  <2>2. CASE UNCHANGED <<row, plan, behind, fresh>>
    BY <2>2 DEF ReadsInv, StoresTyped
  <2> QED
    BY <2>1, <2>2 DEF UpdateWrite
<1>3. StoresTyped'
  BY <1>2 DEF UpdateWrite, ReadsInv, StoresTyped
<1>4. EdgesOK'
  BY DEF UpdateWrite, ReadsInv, EdgesOK
<1> QED
  BY <1>3, <1>4, OthersMove DEF UpdateWrite

LEMMA StepForgetTomb ==
  ASSUME ReadsInv, Watch, NEW m \in Memories, NEW kind \in {"soft", "redact"}, ForgetTomb(m, kind)
  PROVE  ReadsInv'
<1>1. tomb \in [Messages -> {"none", "soft", "redact"}] /\ SourceOf[m] \in Messages
  BY ReadsAssumption DEF ReadsInv, StoresTyped
<1>2. tomb' = [tomb EXCEPT ![SourceOf[m]] = kind]
  BY DEF ForgetTomb
<1>3. tomb' \in [Messages -> {"none", "soft", "redact"}]
      /\ \A s \in Messages : tomb[s] # "none" => tomb'[s] # "none"
  BY <1>1, <1>2
<1>4. writes' \in 0 .. MaxWrites
  BY ReadsAssumption DEF ForgetTomb, ReadsInv, StoresTyped
<1>5. StoresTyped'
  BY <1>3, <1>4 DEF ForgetTomb, ReadsInv, StoresTyped
<1>6. EdgesOK'
  BY DEF ForgetTomb, ReadsInv, EdgesOK
<1> QED
  BY <1>3, <1>5, <1>6, OthersMove DEF ForgetTomb

LEMMA StepForgetRow ==
  ASSUME ReadsInv, Watch, NEW m \in Memories, ForgetRow(m) PROVE ReadsInv'
<1> DEFINE record == [row[m] EXCEPT
       !.status = IF tomb[SourceOf[m]] = "redact" THEN "redacted" ELSE "soft_deleted",
       !.tags = IF tomb[SourceOf[m]] = "redact" THEN {} ELSE @,
       !.text = IF tomb[SourceOf[m]] = "redact" THEN "[redacted]" ELSE @]
<1>1. Write(m, record, {})
  BY DEF ForgetRow
<1>2. record \in Row
  <2>1. row[m] \in Row
    BY RowIs DEF ReadsInv
  <2> QED
    BY <2>1 DEF Row, Inactive
<1> HIDE DEF record
<1>3. row' \in [Memories -> Row] /\ behind' \subseteq Memories /\ fresh' \subseteq Memories
  BY <1>1, <1>2, WriteTyped DEF ReadsInv
<1>4. StoresTyped'
  BY <1>3 DEF ForgetRow, ReadsInv, StoresTyped
<1>5. EdgesOK'
  BY DEF ForgetRow, ReadsInv, EdgesOK
<1> QED
  BY <1>4, <1>5, OthersMove DEF ForgetRow

LEMMA StepSyncRead ==
  ASSUME ReadsInv, Watch, NEW m \in Memories, SyncRead(m) PROVE ReadsInv'
<1>1. Protected(m) \in Row
  BY RowIs DEF ReadsInv
<1>2. sync' \in [m: Memories, record: Row, vector: BOOLEAN] /\ behind' \subseteq Memories
  BY <1>1 DEF SyncRead, ReadsInv, StoresTyped
<1>3. StoresTyped'
  BY <1>2 DEF SyncRead, ReadsInv, StoresTyped
<1>4. EdgesOK'
  BY DEF SyncRead, ReadsInv, EdgesOK
<1> QED
  BY <1>3, <1>4, OthersMove DEF SyncRead

LEMMA StepSyncVector ==
  ASSUME ReadsInv, Watch, SyncVector PROVE ReadsInv'
<1>1. sync \in [m: Memories, record: Row, vector: BOOLEAN]
  BY DEF SyncVector, ReadsInv, StoresTyped
<1>2. sync' \in [m: Memories, record: Row, vector: BOOLEAN]
  BY <1>1 DEF SyncVector
<1>3. points' \in [Memories -> Points]
  <2>1. sync.m \in Memories /\ sync.record.level \in Levels /\ sync.record.tags \in SUBSET Tags
    BY <1>1 DEF Row
  <2>2. [level |-> sync.record.level, tags |-> sync.record.tags] \in Points /\ Null \in Points
    BY <2>1 DEF Points
  <2> QED
    BY <2>1, <2>2 DEF SyncVector, ReadsInv, StoresTyped
<1>4. StoresTyped'
  BY <1>2, <1>3 DEF SyncVector, ReadsInv, StoresTyped
<1>5. EdgesOK'
  BY DEF SyncVector, ReadsInv, EdgesOK
<1> QED
  BY <1>4, <1>5, OthersMove DEF SyncVector

LEMMA StepSyncGraph ==
  ASSUME ReadsInv, Watch, SyncGraph PROVE ReadsInv'
<1>1. sync.m \in Memories
  BY DEF SyncGraph, ReadsInv, StoresTyped
<1>2. EdgesOK'
  BY <1>1, StepEdges DEF ReadsInv
<1>3. fresh' \subseteq Memories
  BY <1>1 DEF SyncGraph, ReadsInv, StoresTyped
<1>4. StoresTyped'
  BY <1>3 DEF SyncGraph, ReadsInv, StoresTyped
<1> QED
  BY <1>2, <1>4, OthersMove DEF SyncGraph

LEMMA StepWriters == ASSUME ReadsInv, Watch, Writers PROVE ReadsInv'
  BY StepIngest, StepUpdateRead, StepUpdateWrite, StepForgetTomb, StepForgetRow, StepSyncRead,
     StepSyncVector, StepSyncGraph DEF Writers

-----------------------------------------------------------------------------
(* Walks.                                                                  *)

\* A step of a walk leaves everything else alone.
LEMMA WalkMoves ==
  ASSUME ReadsInv, Watch, UNCHANGED <<stores, edit, writes, reader>>, walk'.pc # "idle",
         walk.pc # "idle" \/ Idle
  PROVE  /\ \A m \in Memories : seen[m] \subseteq seen'[m] /\ View(m)' \in seen'[m]
         /\ WalkOK' => ReadsInv'
<1>1. ~Idle'
  BY DEF Idle
<1>2. Watched' /\ \A m \in Memories : seen[m] \subseteq seen'[m] /\ View(m)' \in seen'[m]
  BY <1>1, SeenGrows DEF ReadsInv
<1>3. reader.gone \subseteq Messages
  BY DEF ReadsInv, ReaderType
<1>4. ServedOK' /\ FoundOK'
  BY <1>2, <1>3, CallStays DEF ReadsInv, stores
<1>5. reader' \in ReaderType /\ GrantOK' /\ PaidOK'
  BY DEF ReadsInv, GrantOK, PaidOK, Share, Answered
<1>6. StoresTyped' /\ EdgesOK'
  BY DEF ReadsInv, StoresTyped, EdgesOK, stores
<1>7. Apart'
  BY DEF ReadsInv, Apart, Idle
<1> QED
  BY <1>2, <1>4, <1>5, <1>6, <1>7 DEF ReadsInv

\* Before its first page a walk has listed nothing.
LEMMA StartWalk ==
  ASSUME walk' = [NoWalk EXCEPT !.pc = "page"] PROVE WalkOK'
<1>1. /\ walk'.pc = "page" /\ walk'.query = Null /\ walk'.cursor = Null /\ walk'.listed = <<>>
      /\ walk' = [pc |-> "page", query |-> Null, cursor |-> Null, listed |-> <<>>]
  BY DEF NoWalk
<1>2. << >> \in Seq(ListItems)
  OBVIOUS
<1>3. DOMAIN walk'.listed = {} /\ Listed' = {}
  BY <1>1 DEF Listed
<1> QED
  BY <1>1, <1>2, <1>3 DEF WalkOK

LEMMA StepWalkBegin == ASSUME ReadsInv, Watch, WalkBegin PROVE ReadsInv'
<1>1. walk' = [NoWalk EXCEPT !.pc = "page"]
  BY DEF WalkBegin
<1>2. walk'.pc # "idle"
  BY <1>1 DEF NoWalk
<1> QED
  BY <1>1, <1>2, StartWalk, WalkMoves DEF WalkBegin

\* What two lists without repetition name, one after the other.
LEMMA JoinedLists ==
  ASSUME NEW S, NEW s \in Seq(S), NEW t \in Seq(S)
  PROVE  /\ s \o t \in Seq(S)
         /\ \A i \in DOMAIN s : i \in DOMAIN (s \o t) /\ (s \o t)[i] = s[i]
         /\ \A i \in DOMAIN t : Len(s) + i \in DOMAIN (s \o t) /\ (s \o t)[Len(s) + i] = t[i]
         /\ \A i \in DOMAIN (s \o t) : i \in DOMAIN s \/ \E j \in DOMAIN t : i = Len(s) + j
<1>1. Len(s) \in Nat /\ Len(t) \in Nat /\ DOMAIN s = 1 .. Len(s) /\ DOMAIN t = 1 .. Len(t)
  OBVIOUS
<1>2. s \o t \in Seq(S) /\ Len(s \o t) = Len(s) + Len(t)
  OBVIOUS
<1>3. DOMAIN (s \o t) = 1 .. (Len(s) + Len(t))
  BY <1>2
<1>4. \A i \in 1 .. (Len(s) + Len(t)) : (s \o t)[i] = IF i <= Len(s) THEN s[i] ELSE t[i - Len(s)]
  OBVIOUS
<1>5. \A i \in DOMAIN s : i \in DOMAIN (s \o t) /\ (s \o t)[i] = s[i]
  BY <1>1, <1>3, <1>4
<1>6. \A i \in DOMAIN t : Len(s) + i \in DOMAIN (s \o t) /\ (s \o t)[Len(s) + i] = t[i]
  <2> SUFFICES ASSUME NEW i \in DOMAIN t
               PROVE  Len(s) + i \in DOMAIN (s \o t) /\ (s \o t)[Len(s) + i] = t[i]
    OBVIOUS
  <2>1. Len(s) + i \in 1 .. (Len(s) + Len(t)) /\ ~(Len(s) + i <= Len(s)) /\ (Len(s) + i) - Len(s) = i
    BY <1>1
  <2> QED
    BY <1>3, <1>4, <2>1
<1>7. \A i \in DOMAIN (s \o t) : i \in DOMAIN s \/ \E j \in DOMAIN t : i = Len(s) + j
  <2> SUFFICES ASSUME NEW i \in 1 .. (Len(s) + Len(t)), i \notin DOMAIN s
               PROVE  \E j \in DOMAIN t : i = Len(s) + j
    BY <1>3
  <2>1. i - Len(s) \in 1 .. Len(t) /\ i = Len(s) + (i - Len(s))
    BY <1>1
  <2> QED
    BY <1>1, <2>1
<1> QED
  BY <1>2, <1>5, <1>6, <1>7

\* One page more is listed: rows that match now and come after those listed.
LEMMA StepWalkPage == ASSUME ReadsInv, Watch, WalkPage PROVE ReadsInv'
<1> DEFINE page(q) == Page(ListedRows, q, walk.cursor)
           entry(q) == [i \in DOMAIN page(q).items |->
                          [m |-> page(q).items[i], text |-> Preview(page(q).items[i])]]
<1>1. walk.pc = "page" /\ WalkOK /\ StoresTyped
  BY DEF WalkPage, ReadsInv
<1>2. walk.cursor = Null \/ walk.cursor \in Cursors
  BY <1>1 DEF WalkOK
<1>3. DOMAIN ListedRows \in SUBSET Memories
  BY DEF ListedRows
<1>4. PICK q \in Queries :
        walk' = IF ~ValidQuery(q, walk.cursor) THEN [walk EXCEPT !.pc = "refused"]
                ELSE [query |-> IF walk.cursor = Null THEN q ELSE walk.query,
                      listed |-> walk.listed \o entry(q), cursor |-> page(q).next,
                      pc |-> IF page(q).next = Null THEN "listed" ELSE "page"]
  BY DEF WalkPage
<1>5. CASE ~ValidQuery(q, walk.cursor)
  <2>1. /\ walk'.pc = "refused" /\ walk'.query = walk.query /\ walk'.cursor = walk.cursor
        /\ walk'.listed = walk.listed
        /\ walk' \in [pc: {"idle", "page", "listed", "refused"}, query: {Null} \cup Queries,
                      cursor: {Null} \cup Cursors, listed: Seq(ListItems)]
    BY <1>1, <1>4, <1>5 DEF WalkOK
  <2>2. \A m \in Memories : seen[m] \subseteq seen'[m]
    BY <2>1, WalkMoves DEF WalkPage
  <2>3. Listed' = Listed /\ Listed \subseteq Memories
    <3>1. walk.listed \in Seq(ListItems)
      BY <1>1 DEF WalkOK
    <3>2. \A i \in DOMAIN walk.listed : walk.listed[i] \in ListItems
      BY <3>1
    <3> QED
      BY <2>1, <3>2 DEF Listed, ListItems
  <2>4. \A m \in Listed' : \E v \in seen'[m] : Matches(walk'.query, v)
    BY <1>1, <2>1, <2>2, <2>3 DEF WalkOK
  <2>5. walk'.cursor # Null => walk'.query \in Queries
    BY <1>1, <2>1 DEF WalkOK
  <2>6. WalkOK'
    BY <1>1, <2>1, <2>4, <2>5 DEF WalkOK
  <2> QED
    BY <2>1, <2>6, WalkMoves DEF WalkPage
<1>6. CASE ValidQuery(q, walk.cursor)
  <2> DEFINE items == page(q).items
             next == page(q).next
             n == Len(items)
             named == {items[i] : i \in 1 .. n}
             rows == Rows(ListedRows, q, walk.cursor)
             more == entry(q)
  <2>1. q.limit \in 1 .. 100 /\ (walk.cursor = Null \/ walk.cursor.fingerprint = Fingerprint(q))
    BY <1>6 DEF ValidQuery
  <2>2. /\ n \in Nat /\ DOMAIN items = 1 .. n
        /\ named \subseteq rows
        /\ \A i, j \in 1 .. n : items[i] = items[j] => i = j
        /\ next = Null => named = rows
        /\ next # Null =>
             /\ next \in Cursors /\ next.fingerprint = Fingerprint(q)
             /\ \A m \in Memories : After(next, m) => m \notin named /\ After(walk.cursor, m)
             /\ \A m \in rows : ~After(next, m) => m \in named
    BY <1>2, <1>3, <2>1, PageIs
  <2>3. /\ walk'.pc = IF next = Null THEN "listed" ELSE "page"
        /\ walk'.query = IF walk.cursor = Null THEN q ELSE walk.query
        /\ walk'.cursor = next /\ walk'.listed = walk.listed \o more
        /\ walk' = [query |-> walk'.query, listed |-> walk'.listed, cursor |-> walk'.cursor,
                    pc |-> walk'.pc]
    BY <1>4, <1>6
  <2>4. more = [i \in DOMAIN items |-> [m |-> items[i], text |-> Preview(items[i])]]
    OBVIOUS
  <2> HIDE DEF items, next, more
  <2>5. /\ more \in Seq(ListItems) /\ Len(more) = n /\ DOMAIN more = 1 .. n
        /\ \A i \in 1 .. n : more[i].m = items[i]
    <3>1. \A i \in 1 .. n : items[i] \in Memories
      BY <1>3, <2>2 DEF Rows
    <3>2. \A m \in Memories : Preview(m) \in {"none", "content", "[redacted]"}
      BY <1>1, RowIs DEF Preview, Row
    <3>3. \A i \in 1 .. n : [m |-> items[i], text |-> Preview(items[i])] \in ListItems
      BY <3>1, <3>2 DEF ListItems
    <3>4. more \in [1 .. n -> ListItems]
      BY <2>2, <2>4, <3>3
    <3>5. \A i \in 1 .. n : more[i].m = items[i]
      BY <2>2, <2>4
    <3> HIDE DEF n
    <3>6. more \in Seq(ListItems) /\ DOMAIN more = 1 .. n
      BY <2>2, <3>4
    <3>7. Len(more) = n
      BY <2>2, <3>6
    <3> QED
      BY <3>5, <3>6, <3>7
  <2> HIDE DEF n, named, rows
  <2>6. walk.listed \in Seq(ListItems)
    BY <1>1 DEF WalkOK
  <2> DEFINE old == walk.listed
             new == old \o more
  <2>7. /\ new \in Seq(ListItems)
        /\ \A i \in DOMAIN old : i \in DOMAIN new /\ new[i] = old[i]
        /\ \A i \in DOMAIN more : Len(old) + i \in DOMAIN new /\ new[Len(old) + i] = more[i]
        /\ \A i \in DOMAIN new : i \in DOMAIN old \/ \E j \in DOMAIN more : i = Len(old) + j
    BY <2>5, <2>6, JoinedLists
  <2>8. Listed = {old[i].m : i \in DOMAIN old} /\ named = {more[i].m : i \in DOMAIN more}
    BY <2>5 DEF Listed, named
  <2>9. Listed' = {new[i].m : i \in DOMAIN new}
    BY <2>3 DEF Listed
  <2> HIDE DEF old, new
  <2>10. Listed' = Listed \cup named
    BY <2>7, <2>8, <2>9
  \* Nothing of the page was listed before.
  <2>11. \A m \in named : m \in Memories /\ m \notin Listed
    <3>1. \A m \in named : m \in Memories /\ After(walk.cursor, m)
      BY <1>3, <2>2 DEF rows, Rows
    <3>2. CASE walk.cursor = Null
      <4>1. Listed = {}
        BY <1>1, <3>2 DEF WalkOK, Listed
      <4> QED
        BY <3>1, <4>1
    <3>3. CASE walk.cursor # Null
      BY <1>1, <3>1, <3>3 DEF WalkOK
    <3> QED
      BY <3>2, <3>3
  <2>12. \A i, j \in DOMAIN new : new[i].m = new[j].m => i = j
    <3> SUFFICES ASSUME NEW i \in DOMAIN new, NEW j \in DOMAIN new, new[i].m = new[j].m PROVE i = j
      OBVIOUS
    <3>1. \A k \in DOMAIN old : old[k].m \in Listed
      BY <2>8
    <3>2. \A k \in DOMAIN more : more[k].m \in named /\ more[k].m \notin Listed
      BY <2>8, <2>11
    <3>3. CASE i \in DOMAIN old /\ j \in DOMAIN old
      BY <1>1, <2>7, <3>3 DEF WalkOK, old
    <3>4. CASE i \in DOMAIN old /\ j \notin DOMAIN old
      BY <2>7, <3>1, <3>2, <3>4
    <3>5. CASE i \notin DOMAIN old /\ j \in DOMAIN old
      BY <2>7, <3>1, <3>2, <3>5
    <3>6. CASE i \notin DOMAIN old /\ j \notin DOMAIN old
      <4>1. PICK a \in DOMAIN more : i = Len(old) + a
        BY <2>7, <3>6
      <4>2. PICK b \in DOMAIN more : j = Len(old) + b
        BY <2>7, <3>6
      <4>3. more[a].m = more[b].m
        BY <2>7, <4>1, <4>2
      <4>4. a = b
        BY <2>2, <2>5, <4>3
      <4> QED
        BY <4>1, <4>2, <4>4
    <3> QED
      BY <3>3, <3>4, <3>5, <3>6
  <2>13. walk'.pc # "idle"
    BY <2>3
  <2>14. \A m \in Memories : seen[m] \subseteq seen'[m] /\ View(m)' \in seen'[m]
    BY <2>13, WalkMoves DEF WalkPage
  <2>15. \A m \in Memories : View(m)' = AsListed(m)
    BY <2>13 DEF WalkPage, stores, View, AsListed, EffectiveStatus, Tombed
  \* The query of the walk asks for what this page was asked for.
  <2>16. walk'.query \in Queries /\ Fingerprint(walk'.query) = Fingerprint(q)
    <3>1. CASE walk.cursor = Null
      BY <2>3, <3>1
    <3>2. CASE walk.cursor # Null
      BY <1>1, <2>1, <2>3, <3>2 DEF WalkOK
    <3> QED
      BY <3>1, <3>2
  <2>17. \A e : Matches(walk'.query, e) <=> Matches(q, e)
    BY <2>16, MatchesAlike
  <2>18. \A m \in Memories : m \in rows <=> Matches(q, AsListed(m)) /\ After(walk.cursor, m)
    <3>1. \A m \in DOMAIN ListedRows : ListedRows[m] = AsListed(m)
      BY DEF ListedRows
    <3>2. \A m \in Memories : m \notin DOMAIN ListedRows => AsListed(m).status = "absent"
      BY DEF ListedRows, AsListed, EffectiveStatus
    <3>3. \A m \in Memories : Matches(q, AsListed(m)) => AsListed(m).status # "absent"
      BY MatchesListed
    <3> QED
      BY <3>1, <3>2, <3>3 DEF rows, Rows
  <2>19. \A m \in Listed' : \E v \in seen'[m] : Matches(walk'.query, v)
    <3> SUFFICES ASSUME NEW m \in Listed'
                 PROVE  \E v \in seen'[m] : Matches(walk'.query, v)
      OBVIOUS
    <3>1. CASE m \in named
      <4>1. m \in Memories /\ Matches(q, AsListed(m))
        BY <2>2, <2>11, <2>18, <3>1
      <4>2. Matches(walk'.query, View(m)')
        BY <2>15, <2>17, <4>1
      <4> QED
        BY <2>14, <4>1, <4>2
    <3>2. CASE m \in Listed
      <4>1. m \in Memories
        <5>1. \A i \in DOMAIN old : old[i] \in ListItems
          BY <2>6 DEF old
        <5> QED
          BY <2>8, <3>2, <5>1 DEF ListItems
      <4>2. walk.cursor # Null
        BY <1>1, <3>2 DEF WalkOK, Listed
      <4>3. walk'.query = walk.query
        BY <2>3, <4>2
      <4>4. \E v \in seen[m] : Matches(walk.query, v)
        BY <1>1, <3>2 DEF WalkOK
      <4> QED
        BY <2>14, <4>1, <4>3, <4>4
    <3> QED
      BY <2>10, <3>1, <3>2
  \* What matched all along was listed before, is on the page, or comes after it.
  <2>20. ASSUME NEW m \in Memories, AlwaysMatched(m)' PROVE m \in Listed' \/ m \in rows
    <3>1. \A v \in seen'[m] : Matches(walk'.query, v)
      BY <2>20 DEF AlwaysMatched
    <3>2. Matches(q, AsListed(m))
      BY <2>14, <2>15, <2>17, <3>1
    <3>3. CASE After(walk.cursor, m)
      BY <2>18, <3>2, <3>3
    <3>4. CASE ~After(walk.cursor, m)
      <4>1. walk.cursor # Null
        BY <3>4 DEF After
      <4>2. walk'.query = walk.query
        BY <2>3, <4>1
      <4>3. AlwaysMatched(m)
        BY <2>14, <3>1, <4>2 DEF AlwaysMatched
      <4>4. m \in Listed
        BY <1>1, <3>4, <4>1, <4>3 DEF WalkOK
      <4> QED
        BY <2>10, <4>4
    <3> QED
      BY <3>3, <3>4
  <2>21. walk'.pc = "listed" => \A m \in Memories : AlwaysMatched(m)' => m \in Listed'
    BY <2>2, <2>3, <2>10, <2>20
  <2>22. walk'.pc = "page" /\ walk'.cursor # Null =>
           /\ walk'.cursor.fingerprint = Fingerprint(walk'.query)
           /\ \A m \in Memories : After(walk'.cursor, m) => m \notin Listed'
           /\ \A m \in Memories : ~After(walk'.cursor, m) /\ AlwaysMatched(m)' => m \in Listed'
    <3> SUFFICES ASSUME next # Null
                 PROVE  /\ next.fingerprint = Fingerprint(walk'.query)
                        /\ \A m \in Memories : After(next, m) => m \notin Listed'
                        /\ \A m \in Memories : ~After(next, m) /\ AlwaysMatched(m)' => m \in Listed'
      BY <2>3
    <3>1. next.fingerprint = Fingerprint(walk'.query)
      BY <2>2, <2>16
    <3>2. ASSUME NEW m \in Memories, After(next, m) PROVE m \notin Listed'
      <4>1. m \notin named /\ After(walk.cursor, m)
        BY <2>2, <3>2
      <4>2. CASE walk.cursor = Null
        BY <1>1, <2>10, <4>1, <4>2 DEF WalkOK, Listed
      <4>3. CASE walk.cursor # Null
        BY <1>1, <2>10, <4>1, <4>3 DEF WalkOK
      <4> QED
        BY <4>2, <4>3
    <3>3. ASSUME NEW m \in Memories, ~After(next, m), AlwaysMatched(m)' PROVE m \in Listed'
      BY <2>2, <2>10, <2>20, <3>3
    <3> QED
      BY <3>1, <3>2, <3>3
  <2>23. walk' \in [pc: {"idle", "page", "listed", "refused"}, query: {Null} \cup Queries,
                    cursor: {Null} \cup Cursors, listed: Seq(ListItems)]
    <3>1. walk'.cursor \in {Null} \cup Cursors
      BY <2>2, <2>3
    <3>2. walk'.listed \in Seq(ListItems)
      BY <2>3, <2>7 DEF old, new
    <3> QED
      BY <2>3, <2>16, <3>1, <3>2
  <2>24. \A i, j \in DOMAIN walk'.listed : walk'.listed[i].m = walk'.listed[j].m => i = j
    BY <2>3, <2>12 DEF old, new
  <2>25. ~(walk'.pc = "idle" \/ (walk'.pc = "page" /\ walk'.cursor = Null))
    BY <2>3
  <2>26. WalkOK'
    BY <2>16, <2>19, <2>21, <2>22, <2>23, <2>24, <2>25 DEF WalkOK
  <2> QED
    BY <2>13, <2>26, WalkMoves DEF WalkPage
<1> QED
  BY <1>5, <1>6

-----------------------------------------------------------------------------
(* Calls.                                                                  *)

CallOK == reader \in ReaderType /\ GrantOK /\ PaidOK /\ ServedOK /\ FoundOK

\* A step of a call sees every memory, and forgets nothing it has seen.
LEMMA ReaderSees ==
  ASSUME ReadsInv, Watch, reader'.pc # "idle"
  PROVE  Watched' /\ \A m \in Memories : seen[m] \subseteq seen'[m]
<1>1. ~Idle'
  BY DEF Idle
<1> QED
  BY <1>1, SeenGrows DEF ReadsInv

LEMMA ReaderSaw ==
  ASSUME ReadsInv, reader.pc # "idle" PROVE \A m \in Memories : View(m) \in seen[m]
  BY DEF ReadsInv, Watched, Idle

\* It leaves everything else alone.
LEMMA ReaderMoves ==
  ASSUME ReadsInv, Watch, UNCHANGED <<stores, edit, writes, walk>>, reader'.pc # "idle", CallOK',
         reader.pc # "idle" \/ Idle
  PROVE  ReadsInv'
<1>1. Watched' /\ \A m \in Memories : seen[m] \subseteq seen'[m]
  BY ReaderSees
<1>2. WalkOK'
  BY <1>1, WalkStays DEF ReadsInv
<1>3. StoresTyped' /\ EdgesOK'
  BY DEF ReadsInv, StoresTyped, EdgesOK, stores
<1>4. Apart'
  BY DEF ReadsInv, Apart, Idle
<1> QED
  BY <1>1, <1>2, <1>3, <1>4 DEF ReadsInv, CallOK

\* What a memory looks like shows whether it may be served and where it is found.
LEMMA ViewIs ==
  ASSUME NEW m \in Memories, Apart, reader.pc # "idle"
  PROVE  /\ \A L \in SUBSET Levels : View(m).level \in L <=> Visible(m) /\ row[m].level \in L
         /\ View(m).tags = row[m].tags /\ View(m).point = points[m]
         /\ LET all == Related(edges, QueryEntities, reader.hops)
            IN  View(m).linked = (m \in fresh /\ m \in all /\ Cardinality(all) <= MaxLinked)
<1>1. Null \notin Levels
  BY ReadsAssumption
<1>2. View(m) = AsFound(m)
  BY DEF View, Apart
<1> QED
  BY <1>1, <1>2 DEF AsFound

\* What is wanted of a call that goes on was wanted of it before.
LEMMA WantedBefore ==
  ASSUME NEW m \in Memories, seen[m] \subseteq seen'[m],
         reader'.asked = reader.asked, reader'.filter = reader.filter
  PROVE  /\ Near(m)' => Near(m)
         /\ Linked(m)' => Linked(m)
         /\ Steady(m)' => Steady(m)
         /\ Filtered(m)' => Filtered(m)
         /\ Wanted(m)' => Wanted(m)
<1>1. Near(m)' => Near(m)
  BY DEF Near
<1>2. Linked(m)' => Linked(m)
  BY DEF Linked
<1>3. Steady(m)' => Steady(m)
  BY DEF Steady
<1>4. Filtered(m)' => Filtered(m)
  BY DEF Filtered
<1> QED
  BY <1>1, <1>2, <1>3, <1>4 DEF Wanted

\* The parts of a context are finite, and each has a cost.
LEMMA PartsCost ==
  ASSUME NEW S \in SUBSET Parts
  PROVE  IsFiniteSet(S) /\ \A x \in S : Tokens[x] \in Nat
<1>1. IsFiniteSet(Memories \cup Messages)
  BY ReadsAssumption, FS_Union
<1>2. IsFiniteSet((Memories \cup Messages) \cup Policies)
  BY <1>1, ReadsAssumption, FS_Union
<1>3. IsFiniteSet({Summary.id})
  BY FS_Singleton
<1>4. IsFiniteSet(((Memories \cup Messages) \cup Policies) \cup {Summary.id})
  BY <1>2, <1>3, FS_Union
<1>5. IsFiniteSet(Parts)
  BY <1>4 DEF Parts
<1> QED
  BY <1>5, ReadsAssumption, FS_Subset

\* A call begins with what it is granted, and knows what was forgotten before.
LEMMA StepBegin == ASSUME ReadsInv, Watch, Begin PROVE ReadsInv'
<1> DEFINE asked(r) == (IF r.scope = {} THEN {"private"} ELSE r.scope) \cap AllowedLevels
<1>1. PICK r \in Requests :
        reader' = [[NoCall EXCEPT !.op = r.op, !.scope = r.scope, !.asked = asked(r),
                     !.budget = r.budget, !.hops = r.hops, !.filter = r.filter,
                     !.total = Least(r.budget, MaxBudget),
                     !.gone = {s \in Messages : tomb[s] # "none"}]
                   EXCEPT !.pc = IF r.op = "retrieve" THEN "prepare" ELSE "policies"]
  <2>1. \E r \in Requests :
          LET c == [NoCall EXCEPT !.op = r.op, !.scope = r.scope, !.asked = asked(r),
                     !.budget = r.budget, !.hops = r.hops, !.filter = r.filter,
                     !.total = Least(r.budget, MaxBudget),
                     !.gone = {s \in Messages : tomb[s] # "none"}]
          IN reader' = IF r.op = "retrieve" THEN [c EXCEPT !.pc = "prepare"]
                       ELSE [c EXCEPT !.pc = "policies"]
    BY DEF Begin
  <2> QED
    BY <2>1
<1>2. /\ r.op \in {"retrieve", "context"} /\ r.scope \in SUBSET Levels /\ r.budget \in Nat
      /\ r.hops \in Nat /\ MaxBudget \in Nat /\ AllowedLevels \subseteq Levels
  BY ReadsAssumption
<1>3. Least(r.budget, MaxBudget) \in Nat /\ Least(r.budget, MaxBudget) <= MaxBudget
  BY <1>2 DEF Least
<1>4. /\ reader'.pc = (IF r.op = "retrieve" THEN "prepare" ELSE "policies") /\ reader'.op = r.op
      /\ reader'.scope = r.scope /\ reader'.asked = asked(r) /\ reader'.budget = r.budget
      /\ reader'.filter = r.filter /\ reader'.total = Least(r.budget, MaxBudget)
      /\ reader'.gone = {s \in Messages : tomb[s] # "none"}
      /\ reader'.left = 0 /\ reader'.vector = Todo /\ reader'.graph = Todo /\ reader'.items = {}
      /\ reader'.served = {} /\ reader'.passed = {} /\ reader'.dropped = {} /\ reader'.todo = {}
      /\ reader'.status = "none" /\ reader'.reasons = {}
  BY <1>1 DEF NoCall
<1>5. reader' \in ReaderType
  <2>1. Todo \in Paths
    BY DEF Todo, Paths
  <2>2. asked(r) \in SUBSET Levels /\ {s \in Messages : tomb[s] # "none"} \in SUBSET Messages
    BY <1>2
  <2>3. r.filter \in {Null} \cup {x.filter : x \in Requests}
    OBVIOUS
  <2> HIDE DEF asked
  <2> QED
    BY <1>1, <1>2, <1>3, <2>1, <2>2, <2>3 DEF NoCall, ReaderType, ReaderPcs
<1>6. GrantOK'
  BY <1>2, <1>3, <1>4 DEF GrantOK, Share
<1>7. PaidOK'
  BY <1>2, <1>3, <1>4 DEF PaidOK, Answered
<1>8. ServedOK'
  BY <1>4 DEF ServedOK, Begin, stores
<1>9. FoundOK'
  BY <1>2, <1>4 DEF FoundOK
<1>10. reader'.pc # "idle"
  BY <1>4
<1> QED
  BY <1>5, <1>6, <1>7, <1>8, <1>9, <1>10, ReaderMoves DEF CallOK, Begin

LEMMA StepRetrievePrepare == ASSUME ReadsInv, Watch, RetrievePrepare PROVE ReadsInv'
<1>1. /\ reader \in ReaderType /\ reader.pc = "prepare"
      /\ GrantOK /\ PaidOK /\ ServedOK /\ FoundOK
  BY DEF ReadsInv, RetrievePrepare
<1>2. MaxBudget \in Nat /\ MaxHops \in Nat /\ AllowedLevels \subseteq Levels
  BY ReadsAssumption
<1>3. reader' = [reader EXCEPT !.pc = "paths",
                   !.scope = (IF @ = {} THEN {"private"} ELSE @) \cap AllowedLevels,
                   !.budget = Least(@, MaxBudget), !.hops = Least(@, MaxHops)]
  BY DEF RetrievePrepare, Prepared
<1>4. /\ reader'.pc = "paths" /\ reader'.op = reader.op /\ reader'.scope = reader.asked
      /\ reader'.asked = reader.asked /\ reader'.budget = Share /\ reader'.filter = reader.filter
      /\ reader'.total = reader.total /\ reader'.gone = reader.gone /\ reader'.left = reader.left
      /\ reader'.vector = Todo /\ reader'.graph = Todo /\ reader'.items = reader.items
      /\ reader'.served = reader.served /\ reader'.passed = reader.passed
  BY <1>1, <1>3 DEF ReaderType, GrantOK, FoundOK
<1>5. reader' \in ReaderType
  BY <1>1, <1>2, <1>3, ZenonT(60) DEF ReaderType, ReaderPcs, Least
<1>6. GrantOK'
  BY <1>1, <1>4 DEF GrantOK, Share
<1>7. PaidOK'
  BY <1>1, <1>4 DEF PaidOK, Answered, Share
<1>8. \A m \in Memories : seen[m] \subseteq seen'[m]
  BY <1>4, ReaderSees
<1>9. ServedOK'
  BY <1>1, <1>4, <1>8 DEF ServedOK, RetrievePrepare, stores
<1>10. FoundOK'
  BY <1>4 DEF FoundOK, Todo
<1> QED
  BY <1>4, <1>5, <1>6, <1>7, <1>9, <1>10, ReaderMoves DEF CallOK, RetrievePrepare

\* A step that only looks for memories keeps the call, if it finds what it has to.
LEMMA PathsMove ==
  ASSUME ReadsInv, Watch, UNCHANGED <<stores, edit, writes, walk>>, reader.pc = "paths",
         NEW v \in Paths, NEW g \in Paths, reader' = [reader EXCEPT !.vector = v, !.graph = g],
         v.state = "done" => \A m \in Memories : Near(m) => m \in v.ids,
         g.state = "gate" => \A m \in Memories : Linked(m) => m \in g.ids,
         g.state = "done" => \A m \in Memories : Linked(m) /\ Steady(m) => m \in g.ids
  PROVE  ReadsInv'
<1>1. /\ reader \in ReaderType /\ GrantOK /\ PaidOK /\ ServedOK /\ FoundOK
  BY DEF ReadsInv
<1>2. /\ reader'.pc = "paths" /\ reader'.op = reader.op /\ reader'.scope = reader.scope
      /\ reader'.asked = reader.asked /\ reader'.budget = reader.budget
      /\ reader'.filter = reader.filter /\ reader'.total = reader.total
      /\ reader'.gone = reader.gone /\ reader'.left = reader.left
      /\ reader'.vector = v /\ reader'.graph = g /\ reader'.items = reader.items
      /\ reader'.served = reader.served /\ reader'.passed = reader.passed
  BY <1>1 DEF ReaderType
<1>3. reader' \in ReaderType
  BY <1>1 DEF ReaderType
<1>4. GrantOK'
  BY <1>1, <1>2 DEF GrantOK, Share
<1>5. PaidOK'
  BY <1>1, <1>2 DEF PaidOK, Answered, Share
<1>6. \A m \in Memories : seen[m] \subseteq seen'[m]
  BY <1>2, ReaderSees
<1>7. ServedOK'
  BY <1>1, <1>2, <1>6 DEF ServedOK, stores
<1>8. FoundOK'
  <2>1. \A m \in Memories : /\ Near(m)' => Near(m)
                            /\ Linked(m)' => Linked(m)
                            /\ Steady(m)' => Steady(m)
                            /\ Filtered(m)' => Filtered(m)
    BY <1>2, <1>6, WantedBefore
  <2> QED
    BY <1>2, <2>1 DEF FoundOK
<1> QED
  BY <1>2, <1>3, <1>4, <1>5, <1>7, <1>8, ReaderMoves DEF CallOK

\* The vector store finds whatever is near in a point that matches the filter.
LEMMA HitsFound ==
  ASSUME ReadsInv, reader.pc = "paths", NEW m \in Memories, Near(m) PROVE m \in Hits
<1> DEFINE found == {x \in Memories : points[x] # Null /\ points[x].level \in reader.scope
                                       /\ HasTag(reader.filter, points[x].tags)}
           nearer == {x \in Memories : Similarity[x] > Similarity[m]}
           closest == {x \in found : Similarity[x] > Similarity[m]}
<1>1. View(m) \in seen[m] /\ View(m).point = points[m]
  BY ReaderSaw, ViewIs DEF ReadsInv
<1>2. /\ points[m] # Null /\ points[m].level \in reader.asked
      /\ HasTag(reader.filter, points[m].tags) /\ reader.asked = reader.scope
  BY <1>1 DEF Near, ReadsInv, GrantOK
<1>3. m \in found
  BY <1>2
<1>4. IsFiniteSet(nearer) /\ closest \in SUBSET nearer
  BY ReadsAssumption, FS_Subset
<1>5. Cardinality(nearer) < MaxTopK
  BY DEF Near
<1> HIDE DEF found, nearer, closest
<1>6. Cardinality(closest) <= Cardinality(nearer) /\ Cardinality(closest) \in Nat
      /\ Cardinality(nearer) \in Nat
  BY <1>4, FS_Subset, FS_CardinalityType
<1>7. Cardinality(closest) < MaxTopK
  BY <1>5, <1>6, ReadsAssumption
<1> QED
  BY <1>3, <1>7 DEF Hits, found, closest

LEMMA StepVectorPath == ASSUME ReadsInv, Watch, VectorPath PROVE ReadsInv'
<1>1. reader \in ReaderType /\ FoundOK /\ reader.pc = "paths"
  BY DEF ReadsInv, VectorPath
<1>2. reader.graph \in Paths
  BY <1>1 DEF ReaderType
<1>3. PICK v \in {[state |-> "done", ids |-> Hits], Failed} : reader' = [reader EXCEPT !.vector = v]
  BY DEF VectorPath
<1>4. v \in Paths
  <2>1. Hits \in SUBSET Memories
    BY DEF Hits
  <2> QED
    BY <2>1 DEF Paths, Failed
<1>5. v.state = "done" => v.ids = Hits
  BY DEF Failed
<1>6. reader' = [reader EXCEPT !.vector = v, !.graph = reader.graph]
  BY <1>1, <1>3 DEF ReaderType
<1>7. v.state = "done" => \A m \in Memories : Near(m) => m \in v.ids
  BY <1>1, <1>5, HitsFound
<1>8. /\ reader.graph.state = "gate" => \A m \in Memories : Linked(m) => m \in reader.graph.ids
      /\ reader.graph.state = "done" =>
           \A m \in Memories : Linked(m) /\ Steady(m) => m \in reader.graph.ids
  BY <1>1 DEF FoundOK
<1> QED
  BY <1>1, <1>2, <1>4, <1>6, <1>7, <1>8, PathsMove DEF VectorPath

LEMMA StepGraphIds == ASSUME ReadsInv, Watch, GraphIds PROVE ReadsInv'
<1> DEFINE linked == Related(edges, QueryEntities, reader.hops)
<1>1. reader \in ReaderType /\ FoundOK /\ reader.pc = "paths" /\ EdgesOK
  BY DEF ReadsInv, GraphIds
<1>2. reader.vector \in Paths
  BY <1>1 DEF ReaderType
<1>3. PICK g : /\ reader' = [reader EXCEPT !.graph = g]
               /\ g = Failed \/ \E ids \in RelatedIds(edges, QueryEntities, reader.hops) :
                                 g = [state |-> "gate", ids |-> ids]
  BY DEF GraphIds
<1>4. linked \in SUBSET Memories
  <2>1. \A r \in Relations : SourcesOfEdge(edges[r]) \subseteq Memories
    BY <1>1 DEF EdgesOK, EdgesHold, EdgeOf, SourcesOfEdge
  <2> QED
    BY <2>1 DEF Related
<1>5. \A m \in Memories : Linked(m) => m \in linked /\ Cardinality(linked) <= MaxLinked
  <2>1. \A m \in Memories :
          /\ View(m) \in seen[m]
          /\ View(m).linked = (m \in fresh /\ m \in linked /\ Cardinality(linked) <= MaxLinked)
    BY <1>1, ReaderSaw, ViewIs DEF ReadsInv
  <2> QED
    BY <2>1 DEF Linked
\* Beyond the limit nothing has to be found.
<1>a. \A ids \in RelatedIds(edges, QueryEntities, reader.hops) :
        ids \subseteq linked /\ (Cardinality(linked) <= MaxLinked => ids = linked)
  BY DEF RelatedIds
<1> HIDE DEF linked
<1>6. g \in Paths
  BY <1>3, <1>4, <1>a DEF Paths, Failed
<1>7. (g.state = "gate" /\ Cardinality(linked) <= MaxLinked => g.ids = linked) /\ g.state # "done"
  BY <1>3, <1>a DEF Failed
<1>8. reader' = [reader EXCEPT !.vector = reader.vector, !.graph = g]
  BY <1>1, <1>3 DEF ReaderType
<1>9. reader.vector.state = "done" =>
        \A m \in Memories : Near(m) => m \in reader.vector.ids
  BY <1>1 DEF FoundOK
<1>10. g.state = "gate" => \A m \in Memories : Linked(m) => m \in g.ids
  BY <1>5, <1>7
<1> QED
  BY <1>1, <1>2, <1>6, <1>7, <1>8, <1>9, <1>10, PathsMove DEF GraphIds

LEMMA StepGraphGate == ASSUME ReadsInv, Watch, GraphGate PROVE ReadsInv'
<1> DEFINE ids == {m \in reader.graph.ids : Visible(m) /\ row[m].level \in reader.scope /\ m \in fresh}
           g == [state |-> "done", ids |-> ids]
<1>1. /\ reader \in ReaderType /\ FoundOK /\ reader.pc = "paths" /\ reader.graph.state = "gate"
      /\ GrantOK
  BY DEF ReadsInv, GraphGate
<1>2. reader.vector \in Paths /\ reader.graph \in Paths /\ reader.asked \in SUBSET Levels
  BY <1>1 DEF ReaderType
<1>3. reader' = [reader EXCEPT !.graph = g]
  BY DEF GraphGate
<1>4. ids \in SUBSET Memories
  BY <1>2 DEF Paths
<1>5. ASSUME NEW m \in Memories, Linked(m), Steady(m) PROVE m \in ids
  <2>1. View(m) \in seen[m]
    BY <1>1, ReaderSaw
  <2>2. View(m).linked /\ View(m).level \in reader.asked
    BY <1>5, <2>1 DEF Linked, Steady
  <2>3. m \in fresh /\ Visible(m) /\ row[m].level \in reader.asked
    BY <1>1, <1>2, <2>2, ViewIs DEF ReadsInv
  <2>4. reader.scope = reader.asked
    BY <1>1 DEF GrantOK
  <2>5. m \in reader.graph.ids
    BY <1>1, <1>5 DEF FoundOK
  <2> QED
    BY <2>3, <2>4, <2>5
<1> HIDE DEF ids
<1>6. g \in Paths /\ g.state = "done" /\ g.ids = ids
  BY <1>4 DEF Paths
<1> HIDE DEF g
<1>7. reader' = [reader EXCEPT !.vector = reader.vector, !.graph = g]
  BY <1>1, <1>3 DEF ReaderType
<1>8. reader.vector.state = "done" =>
        \A m \in Memories : Near(m) => m \in reader.vector.ids
  BY <1>1 DEF FoundOK
<1> QED
  BY <1>1, <1>2, <1>5, <1>6, <1>7, <1>8, PathsMove DEF GraphGate

\* The ranking is an order of memories.
LEMMA RankingOrders ==
  ASSUME reader \in ReaderType, NEW S \in SUBSET Memories PROVE Orders(S, Ranking)
<1>1. \A m \in Memories : Score(m) \in Nat /\ m \in Nat
  BY ReadsAssumption DEF Score
<1>2. \A x, y \in S : <<x, y>> \in Ranking <=>
        Score(x) > Score(y) \/ (Score(x) = Score(y) /\ x < y)
  BY DEF Ranking
<1>3. \A x \in S : <<x, x>> \notin Ranking
  BY <1>1, <1>2
<1>4. \A x, y \in S : x = y \/ <<x, y>> \in Ranking \/ <<y, x>> \in Ranking
  <2> SUFFICES ASSUME NEW x \in S, NEW y \in S, x # y
               PROVE  <<x, y>> \in Ranking \/ <<y, x>> \in Ranking
    OBVIOUS
  <2>1. Score(x) \in Nat /\ Score(y) \in Nat /\ x \in Nat /\ y \in Nat
    BY <1>1
  <2>2. \/ Score(x) > Score(y) \/ (Score(x) = Score(y) /\ x < y)
        \/ Score(y) > Score(x) \/ (Score(y) = Score(x) /\ y < x)
    BY <2>1
  <2> QED
    BY <1>2, <2>2
<1>5. \A x, y, z \in S : <<x, y>> \in Ranking /\ <<y, z>> \in Ranking => <<x, z>> \in Ranking
  <2> SUFFICES ASSUME NEW x \in S, NEW y \in S, NEW z \in S,
                      <<x, y>> \in Ranking, <<y, z>> \in Ranking
               PROVE  <<x, z>> \in Ranking
    OBVIOUS
  <2>1. /\ Score(x) > Score(y) \/ (Score(x) = Score(y) /\ x < y)
        /\ Score(y) > Score(z) \/ (Score(y) = Score(z) /\ y < z)
    BY <1>2
  <2>2. Score(x) \in Nat /\ Score(y) \in Nat /\ Score(z) \in Nat /\ x \in Nat /\ y \in Nat /\ z \in Nat
    BY <1>1
  <2>3. Score(x) > Score(z) \/ (Score(x) = Score(z) /\ x < z)
    BY <2>1, <2>2
  <2> QED
    BY <1>2, <2>3
<1> QED
  BY <1>3, <1>4, <1>5 DEF Orders

\* The parts that may be served: memories are neither messages nor the summary.
LEMMA PartsApart ==
  /\ Memories \subseteq Parts /\ Messages \subseteq Parts /\ Policies \subseteq Parts
  /\ Summary.id \in Parts /\ Memories \cap Messages = {} /\ Policies \cap Memories = {}
  /\ Policies \cap Messages = {}
  /\ Summary.id \notin Memories /\ Summary.id \notin Messages /\ Summary.id \notin Policies
  BY ReadsAssumption DEF Parts

\* The candidates are what was found and is visible: each was seen so, and nothing
\* that is wanted is missing if no path failed.
LEMMA HydratedIs ==
  ASSUME ReadsInv, reader.pc = "paths"
  PROVE  /\ Hydrated \in SUBSET Memories
         /\ \A m \in Hydrated : \E v \in seen[m] : v.level \in reader.asked
         /\ PathsDone /\ DegradedReasons = {} => \A m \in Memories : Wanted(m) => m \in Hydrated
<1>1. /\ reader \in ReaderType /\ FoundOK /\ GrantOK
  BY DEF ReadsInv
<1>2. reader.vector \in Paths /\ reader.graph \in Paths /\ reader.asked \in SUBSET Levels
  BY <1>1 DEF ReaderType
<1>3. reader.scope = reader.asked
  BY <1>1 DEF GrantOK
<1>4. \A m \in Memories : /\ View(m) \in seen[m] /\ View(m).tags = row[m].tags
                          /\ View(m).level \in reader.asked
                             <=> Visible(m) /\ row[m].level \in reader.asked
  BY <1>2, ReaderSaw, ViewIs DEF ReadsInv
<1>5. Hydrated \in SUBSET Memories
  BY <1>2 DEF Hydrated, Paths
<1>6. \A m \in Hydrated : \E v \in seen[m] : v.level \in reader.asked
  BY <1>3, <1>4, <1>5 DEF Hydrated
<1>7. ASSUME PathsDone, DegradedReasons = {}, NEW m \in Memories, Wanted(m) PROVE m \in Hydrated
  <2>1. reader.vector.state = "done" /\ reader.graph.state = "done"
    <3>1. reader.vector.state \in {"done", "failed"} /\ reader.graph.state \in {"done", "failed"}
      BY <1>7 DEF PathsDone
    <3>2. reader.vector.state # "failed" /\ reader.graph.state # "failed"
      BY <1>7 DEF DegradedReasons
    <3> QED
      BY <3>1, <3>2
  <2>2. Steady(m) /\ Filtered(m) /\ (Near(m) \/ Linked(m))
    BY <1>7 DEF Wanted
  <2>3. Visible(m) /\ row[m].level \in reader.scope /\ HasTag(reader.filter, row[m].tags)
    BY <1>3, <1>4, <2>2 DEF Steady, Filtered
  <2>4. m \in reader.vector.ids \cup reader.graph.ids
    BY <1>1, <2>1, <2>2 DEF FoundOK
  <2> QED
    BY <2>3, <2>4 DEF Hydrated
<1> QED
  BY <1>5, <1>6, <1>7

LEMMA StepMerge == ASSUME ReadsInv, Watch, Merge PROVE ReadsInv'
<1> DEFINE fit == Fit(Hydrated, Ranking, reader.budget)
<1>1. /\ reader \in ReaderType /\ GrantOK /\ PaidOK /\ ServedOK /\ FoundOK
      /\ reader.pc = "paths" /\ PathsDone
  BY DEF ReadsInv, Merge
<1>2. /\ reader.budget \in Nat /\ reader.total \in Nat /\ reader.left \in Nat
      /\ reader.passed \in SUBSET Parts
  BY <1>1 DEF ReaderType
<1>3. /\ Hydrated \in SUBSET Memories
      /\ \A m \in Hydrated : \E v \in seen[m] : v.level \in reader.asked
      /\ DegradedReasons = {} => \A m \in Memories : Wanted(m) => m \in Hydrated
  BY <1>1, HydratedIs
<1>4. IsFiniteSet(Hydrated) /\ (\A x \in Hydrated : Tokens[x] \in Nat) /\ Orders(Hydrated, Ranking)
  <2>1. Hydrated \in SUBSET Parts
    BY <1>3, PartsApart
  <2> QED
    BY <1>1, <1>3, <2>1, PartsCost, RankingOrders
<1>5. /\ fit.taken \in SUBSET Hydrated /\ fit.passed = Hydrated \ fit.taken
      /\ fit.left \in Nat /\ Cost(fit.taken) + fit.left = reader.budget
      /\ Cost(fit.taken) \in Nat
      /\ \A x \in fit.passed : Tokens[x] > fit.left
  BY <1>2, <1>4, FitIs
<1>6. \A x \in reader.passed : Tokens[x] \in Nat /\ Tokens[x] > Share
  <2>1. reader.op = "retrieve" => reader.passed = {}
    BY <1>1 DEF PaidOK
  <2>2. \A x \in reader.passed : Tokens[x] > reader.left
    BY <1>1 DEF PaidOK
  <2> QED
    BY <1>2, <2>1, <2>2, PartsCost DEF Share
<1>7. reader.budget = Share /\ reader.items = {} /\ reader.served \cap Memories = {}
  BY <1>1 DEF GrantOK, PaidOK
<1> HIDE DEF fit
<1>8. CASE AllPathsFailed
  <2>1. reader' = [reader EXCEPT !.pc = "finish", !.status = "error"]
    BY <1>8 DEF Merge
  <2>2. /\ reader'.pc = "finish" /\ reader'.op = reader.op /\ reader'.scope = reader.scope
        /\ reader'.asked = reader.asked /\ reader'.budget = reader.budget
        /\ reader'.filter = reader.filter /\ reader'.total = reader.total
        /\ reader'.gone = reader.gone /\ reader'.left = reader.left
        /\ reader'.items = reader.items /\ reader'.status = "error"
        /\ reader'.served = reader.served /\ reader'.passed = reader.passed
    BY <1>1, <2>1 DEF ReaderType
  <2>3. reader' \in ReaderType
    BY <1>1, <2>1 DEF ReaderType, ReaderPcs
  <2>4. GrantOK'
    BY <1>1, <2>2 DEF GrantOK, Share
  <2>5. PaidOK'
    <3>1. Cost({}) = 0 /\ Share \in Nat /\ Share' = Share
      BY <1>2, <2>2, SumEmpty DEF Cost, Share
    <3>2. Cost(reader'.items) <= Share' /\ \A x \in reader'.passed : Tokens[x] > Share' - Cost(reader'.items)
      BY <1>6, <1>7, <2>2, <3>1
    <3> QED
      BY <1>1, <2>2, <3>2 DEF PaidOK, Answered
  <2>6. \A m \in Memories : seen[m] \subseteq seen'[m]
    BY <2>2, ReaderSees
  <2>7. ServedOK'
    BY <1>1, <2>2, <2>6 DEF ServedOK, Merge, stores
  <2>8. FoundOK'
    BY <2>2 DEF FoundOK
  <2> QED
    BY <2>2, <2>3, <2>4, <2>5, <2>7, <2>8, ReaderMoves DEF CallOK, Merge
<1>9. CASE ~AllPathsFailed
  <2>1. reader' = [reader EXCEPT !.pc = "access", !.items = fit.taken, !.passed = @ \cup fit.passed,
                    !.status = IF DegradedReasons = {} THEN "ok" ELSE "degraded"]
    BY <1>9 DEF Merge, fit
  <2>2. /\ reader'.pc = "access" /\ reader'.op = reader.op /\ reader'.scope = reader.scope
        /\ reader'.asked = reader.asked /\ reader'.budget = reader.budget
        /\ reader'.filter = reader.filter /\ reader'.total = reader.total
        /\ reader'.gone = reader.gone /\ reader'.left = reader.left
        /\ reader'.items = fit.taken /\ reader'.served = reader.served
        /\ reader'.passed = reader.passed \cup fit.passed
        /\ reader'.status = IF DegradedReasons = {} THEN "ok" ELSE "degraded"
    BY <1>1, <2>1 DEF ReaderType
  <2>3. reader' \in ReaderType
    <3>1. fit.taken \in SUBSET Memories /\ fit.passed \in SUBSET Parts
      BY <1>3, <1>5, PartsApart
    <3> QED
      BY <1>1, <2>1, <3>1 DEF ReaderType, ReaderPcs
  <2>4. GrantOK'
    BY <1>1, <2>2 DEF GrantOK, Share
  <2>5. PaidOK'
    <3>1. Share' = Share /\ Share \in Nat
      BY <1>2, <2>2 DEF Share
    <3>2. Cost(fit.taken) <= Share
      BY <1>5, <1>7, <3>1
    <3>3. \A x \in reader.passed \cup fit.passed : Tokens[x] > Share - Cost(fit.taken)
      <4>1. fit.left = Share - Cost(fit.taken) /\ fit.left <= Share
        BY <1>5, <1>7, <3>1
      <4>2. \A x \in reader.passed : Tokens[x] > fit.left
        BY <1>5, <1>6, <3>1, <4>1
      <4> QED
        BY <1>5, <4>1, <4>2
    <3> QED
      BY <1>1, <1>7, <2>2, <3>1, <3>2, <3>3 DEF PaidOK, Answered
  <2>6. \A m \in Memories : seen[m] \subseteq seen'[m]
    BY <2>2, ReaderSees
  <2>7. ServedOK'
    <3>1. \A m \in fit.taken : \E v \in seen[m] : v.level \in reader.asked
      BY <1>3, <1>5
    <3>2. \A m \in (reader'.items \cup reader'.served) \cap Memories :
            \E v \in seen'[m] : v.level \in reader'.asked
      BY <1>7, <2>2, <2>6, <3>1
    <3> QED
      BY <1>1, <2>2, <3>2 DEF ServedOK, Merge, stores
  <2>8. FoundOK'
    <3>1. ASSUME reader'.status = "ok", NEW m \in Memories, Wanted(m)'
          PROVE  m \in reader'.items \cup reader'.passed
      <4>1. DegradedReasons = {}
        BY <2>2, <3>1
      <4>2. Wanted(m)
        BY <2>2, <2>6, <3>1, WantedBefore
      <4> QED
        BY <1>3, <1>5, <2>2, <4>1, <4>2
    <3> QED
      BY <2>2, <3>1 DEF FoundOK
  <2> QED
    BY <2>2, <2>3, <2>4, <2>5, <2>7, <2>8, ReaderMoves DEF CallOK, Merge
<1> QED
  BY <1>8, <1>9

LEMMA StepRecordAccesses == ASSUME ReadsInv, Watch, RecordAccesses PROVE ReadsInv'
<1>1. /\ reader \in ReaderType /\ GrantOK /\ PaidOK /\ ServedOK /\ FoundOK /\ reader.pc = "access"
  BY DEF ReadsInv, RecordAccesses
<1>2. reader' = [reader EXCEPT !.pc = "finish"]
  BY DEF RecordAccesses
<1>3. /\ reader'.pc = "finish" /\ reader'.op = reader.op /\ reader'.scope = reader.scope
      /\ reader'.asked = reader.asked /\ reader'.budget = reader.budget
      /\ reader'.filter = reader.filter /\ reader'.total = reader.total
      /\ reader'.gone = reader.gone /\ reader'.left = reader.left
      /\ reader'.items = reader.items /\ reader'.status = reader.status
      /\ reader'.served = reader.served /\ reader'.passed = reader.passed
  BY <1>1, <1>2 DEF ReaderType
<1>4. reader' \in ReaderType
  BY <1>1, <1>2 DEF ReaderType, ReaderPcs
<1>5. GrantOK'
  BY <1>1, <1>3 DEF GrantOK, Share
<1>6. PaidOK'
  BY <1>1, <1>3 DEF PaidOK, Answered, Share
<1>7. \A m \in Memories : seen[m] \subseteq seen'[m]
  BY <1>3, ReaderSees
<1>8. ServedOK'
  BY <1>1, <1>3, <1>7 DEF ServedOK, RecordAccesses, stores
<1>9. FoundOK'
  <2>1. \A m \in Memories : Wanted(m)' => Wanted(m)
    BY <1>3, <1>7, WantedBefore
  <2> QED
    BY <1>1, <1>3, <2>1 DEF FoundOK
<1> QED
  BY <1>3, <1>4, <1>5, <1>6, <1>8, <1>9, ReaderMoves DEF CallOK, RecordAccesses

\* The items of a retrieval fit what it may spend, and cost what they cost besides
\* what was served before.
LEMMA ItemsCost ==
  ASSUME reader \in ReaderType, PaidOK, reader.pc = "finish"
  PROVE  /\ Cost(reader.items) \in Nat /\ Cost(reader.items) <= Share
         /\ reader.op = "context" =>
              /\ Fit(reader.items, Ranking, reader.left).taken = reader.items
              /\ Fit(reader.items, Ranking, reader.left).passed = {}
              /\ Fit(reader.items, Ranking, reader.left).left = reader.left - Cost(reader.items)
              /\ Cost(reader.served \cup reader.items) = Cost(reader.served) + Cost(reader.items)
              /\ Cost(reader.served) \in Nat
<1>1. /\ reader.items \in SUBSET Memories /\ reader.items \in SUBSET Parts
      /\ reader.served \in SUBSET Parts /\ reader.left \in Nat
  BY PartsApart DEF ReaderType
<1>2. IsFiniteSet(reader.items) /\ \A x \in reader.items : Tokens[x] \in Nat
  BY <1>1, PartsCost
<1>3. Cost(reader.items) \in Nat /\ Cost(reader.items) <= Share
  BY <1>2, CostFacts DEF PaidOK
<1>4. ASSUME reader.op = "context"
      PROVE  /\ Fit(reader.items, Ranking, reader.left).taken = reader.items
             /\ Fit(reader.items, Ranking, reader.left).passed = {}
             /\ Fit(reader.items, Ranking, reader.left).left = reader.left - Cost(reader.items)
  <2>1. Cost(reader.items) <= reader.left
    BY <1>3, <1>4 DEF Share
  <2>2. Orders(reader.items, Ranking)
    BY <1>1, RankingOrders
  <2> DEFINE fit == Fit(reader.items, Ranking, reader.left)
  <2>3. /\ fit.taken = reader.items /\ fit.passed = reader.items \ fit.taken /\ fit.left \in Nat
        /\ Cost(fit.taken) + fit.left = reader.left
    BY <1>1, <1>2, <2>1, <2>2, FitIs
  <2> HIDE DEF fit
  <2>4. fit.passed = {} /\ fit.left = reader.left - Cost(reader.items)
    BY <1>1, <1>3, <2>3
  <2> QED
    BY <2>3, <2>4 DEF fit
<1>5. ASSUME reader.op = "context"
      PROVE  /\ Cost(reader.served \cup reader.items) = Cost(reader.served) + Cost(reader.items)
             /\ Cost(reader.served) \in Nat
  <2> DEFINE S == reader.served \cup reader.items
  <2>1. S \in SUBSET Parts /\ reader.served \in SUBSET S
    BY <1>1
  <2>2. S \ reader.served = reader.items
    BY <1>1 DEF PaidOK
  <2>3. IsFiniteSet(S) /\ \A x \in S : Tokens[x] \in Nat
    BY <2>1, PartsCost
  <2>4. /\ \A T \in SUBSET S : Cost(T) \in Nat
        /\ \A T \in SUBSET S : Cost(S) = Cost(T) + Cost(S \ T)
    BY <2>3, CostFacts
  <2> HIDE DEF S
  <2>5. Cost(reader.served) \in Nat /\ Cost(S) = Cost(reader.served) + Cost(S \ reader.served)
    BY <2>1, <2>4
  <2> QED
    BY <2>2, <2>5 DEF S
<1> QED
  BY <1>3, <1>4, <1>5

\* An answer is what was served before and the items, for what is left after them.
LEMMA FinishIs ==
  ASSUME reader \in ReaderType, PaidOK, GrantOK, Finish
  PROVE  /\ reader'.pc = "answered" /\ reader'.op = reader.op /\ reader'.scope = reader.scope
         /\ reader'.asked = reader.asked /\ reader'.filter = reader.filter
         /\ reader'.total = reader.total /\ reader'.gone = reader.gone
         /\ reader'.items = reader.items /\ reader'.status = reader.status
         /\ reader'.passed = reader.passed /\ reader'.served = reader.served \cup reader.items
         /\ reader'.left = Share - Cost(reader.items) /\ reader' \in ReaderType
<1>1. /\ reader.pc = "finish" /\ reader.budget = Share /\ Share \in Nat
  BY DEF Finish, GrantOK, Share, ReaderType
<1>2. Cost(reader.items) \in Nat /\ Cost(reader.items) <= Share
  BY <1>1, ItemsCost
<1>3. Share - Cost(reader.items) \in Nat
  BY <1>1, <1>2
<1>4. reader.items \subseteq Parts
  BY PartsApart DEF ReaderType
<1>5. CASE reader.op = "retrieve"
  <2>1. reader.served = {}
    BY <1>1, <1>5 DEF PaidOK
  <2>2. reader' = [reader EXCEPT !.pc = "answered", !.served = reader.items,
                     !.left = reader.budget - Cost(reader.items)]
    BY <1>5 DEF Finish
  <2> QED
    BY <1>1, <1>3, <1>4, <2>1, <2>2 DEF ReaderType, ReaderPcs
<1>6. CASE reader.op # "retrieve"
  <2>1. reader.op = "context"
    BY <1>1, <1>6 DEF PaidOK, ReaderType, GrantOK
  <2> DEFINE fit == Fit(reader.items, Ranking, reader.left)
  <2>2. reader' = [reader EXCEPT !.pc = "answered", !.served = @ \cup fit.taken,
                     !.dropped = fit.passed, !.left = fit.left]
    BY <1>6 DEF Finish
  <2>3. fit.taken = reader.items /\ fit.passed = {} /\ fit.left = Share - Cost(reader.items)
    BY <1>1, <2>1, ItemsCost DEF Share
  <2> HIDE DEF fit
  <2> QED
    BY <1>1, <1>3, <1>4, <2>2, <2>3 DEF ReaderType, ReaderPcs
<1> QED
  BY <1>5, <1>6

LEMMA StepFinish == ASSUME ReadsInv, Watch, Finish PROVE ReadsInv'
<1>1. /\ reader \in ReaderType /\ GrantOK /\ PaidOK /\ ServedOK /\ FoundOK
      /\ reader.pc = "finish" /\ reader.op \in {"retrieve", "context"}
  BY DEF ReadsInv, Finish, GrantOK, ReaderType
<1>2. /\ reader'.pc = "answered" /\ reader'.op = reader.op /\ reader'.scope = reader.scope
      /\ reader'.asked = reader.asked /\ reader'.filter = reader.filter
      /\ reader'.total = reader.total /\ reader'.gone = reader.gone
      /\ reader'.items = reader.items /\ reader'.status = reader.status
      /\ reader'.passed = reader.passed /\ reader'.served = reader.served \cup reader.items
      /\ reader'.left = Share - Cost(reader.items) /\ reader' \in ReaderType
  BY <1>1, FinishIs
<1>3. /\ reader.items \subseteq Memories /\ reader.gone \subseteq Messages
      /\ reader.total \in Nat /\ reader.left \in Nat /\ reader.asked \subseteq Levels
  BY <1>1 DEF ReaderType
<1>4. GrantOK'
  BY <1>1, <1>2 DEF GrantOK
<1>5. PaidOK'
  <2>1. Cost(reader.items) \in Nat /\ Cost(reader.items) <= Share
    BY <1>1, ItemsCost
  <2>2. Cost(reader'.served) + reader'.left = reader.total
    <3>1. CASE reader.op = "retrieve"
      <4>1. reader'.served = reader.items /\ Share = reader.total
        BY <1>1, <1>2, <3>1 DEF PaidOK, Share
      <4>2. Cost(reader'.served) = Cost(reader.items) /\ reader'.left = reader.total - Cost(reader.items)
        BY <1>2, <4>1
      <4> QED
        BY <1>3, <2>1, <4>2
    <3>2. CASE reader.op = "context"
      <4>1. /\ Cost(reader'.served) = Cost(reader.served) + Cost(reader.items)
            /\ Cost(reader.served) \in Nat
        BY <1>1, <1>2, <3>2, ItemsCost
      <4>2. Cost(reader.served) + reader.left = reader.total /\ Share = reader.left
        BY <1>1, <3>2 DEF PaidOK, Share
      <4> QED
        BY <1>2, <1>3, <2>1, <4>1, <4>2
    <3> QED
      BY <1>1, <3>1, <3>2
  <2>3. reader'.left <= reader.total
    <3>1. Share <= reader.total /\ Share \in Nat
      BY <1>1, <1>3 DEF PaidOK, Share
    <3> QED
      BY <1>2, <1>3, <2>1, <3>1
  <2>4. \A x \in reader'.passed : Tokens[x] > reader'.left
    BY <1>1, <1>2 DEF PaidOK
  <2> QED
    BY <1>2, <2>2, <2>3, <2>4 DEF PaidOK
<1>6. \A m \in Memories : seen[m] \subseteq seen'[m]
  BY <1>2, ReaderSees
<1>7. ServedOK'
  <2>1. reader.items \cap reader.gone = {} /\ Summary.id \notin reader.items
    BY <1>3, PartsApart
  <2>2. \A m \in (reader'.items \cup reader'.served) \cap Memories :
          \E v \in seen'[m] : v.level \in reader'.asked
    BY <1>1, <1>2, <1>6 DEF ServedOK
  <2> QED
    BY <1>1, <1>2, <2>1, <2>2 DEF ServedOK, Finish, stores
<1>8. FoundOK'
  <2>1. ASSUME reader'.status = "ok", NEW m \in Memories, Wanted(m)'
        PROVE  m \in reader'.served \/ Tokens[m] > reader'.left
    <3>1. Wanted(m)
      BY <1>2, <1>6, <2>1, WantedBefore
    <3>2. m \in reader.items \cup reader.passed
      BY <1>1, <1>2, <2>1, <3>1 DEF FoundOK
    <3>3. \A x \in reader.passed : Tokens[x] > reader'.left
      BY <1>1, <1>2 DEF PaidOK
    <3> QED
      BY <1>2, <3>2, <3>3
  <2> QED
    BY <1>2, <2>1 DEF FoundOK
<1> QED
  BY <1>2, <1>4, <1>5, <1>7, <1>8, ReaderMoves DEF CallOK, Finish

\* A call that failed has nothing to show.
LEMMA StepStoreError == ASSUME ReadsInv, Watch, StoreError PROVE ReadsInv'
<1>1. reader' = [NoCall EXCEPT !.pc = "answered", !.status = "failed"]
  BY DEF StoreError
<1>2. /\ reader'.pc = "answered" /\ reader'.op = "none" /\ reader'.scope = {}
      /\ reader'.asked = {} /\ reader'.total = 0 /\ reader'.gone = {} /\ reader'.left = 0
      /\ reader'.items = {} /\ reader'.served = {} /\ reader'.passed = {}
      /\ reader'.status = "failed"
  BY <1>1 DEF NoCall
<1>3. reader' \in ReaderType
  <2>1. Todo \in Paths
    BY DEF Todo, Paths
  <2> QED
    BY <1>1, <2>1 DEF NoCall, ReaderType, ReaderPcs
<1>4. GrantOK'
  BY <1>2, ReadsAssumption DEF GrantOK
<1>5. PaidOK'
  BY <1>2 DEF PaidOK, Answered
<1>6. ServedOK'
  BY <1>2 DEF ServedOK
<1>7. FoundOK'
  BY <1>2 DEF FoundOK
<1> QED
  BY <1>2, <1>3, <1>4, <1>5, <1>6, <1>7, ReaderMoves DEF CallOK, StoreError

-----------------------------------------------------------------------------
(* Contexts.                                                               *)

\* A context without a budget is refused; another takes the policies that fit.
LEMMA StepContextPolicies == ASSUME ReadsInv, Watch, ContextPolicies PROVE ReadsInv'
<1> DEFINE c == Prepared(reader)
           S == {p \in Policies : PolicyLevel[p] \in c.scope}
           fit == Fit(S, Ascending(Policies), c.budget)
<1>1. /\ reader \in ReaderType /\ GrantOK /\ PaidOK /\ ServedOK /\ FoundOK
      /\ reader.pc = "policies"
  BY DEF ReadsInv, ContextPolicies
<1>2. /\ reader.op = "context" /\ reader.asked \in SUBSET Levels /\ reader.budget \in Nat
      /\ reader.hops \in Nat /\ reader.total \in Nat /\ reader.served = {} /\ reader.passed = {}
      /\ reader.left = 0 /\ reader.items = {} /\ reader.gone \subseteq Messages
      /\ reader.vector = Todo /\ reader.graph = Todo
  BY <1>1 DEF GrantOK, PaidOK, ReaderType, FoundOK
<1>3. MaxHops \in Nat
  BY ReadsAssumption
<1>4. c = [reader EXCEPT !.scope = reader.asked, !.budget = reader.total,
                         !.hops = Least(reader.hops, MaxHops)]
  <2>1. /\ reader.asked = (IF reader.scope = {} THEN {"private"} ELSE reader.scope) \cap AllowedLevels
        /\ reader.total = Least(reader.budget, MaxBudget)
    BY <1>1 DEF GrantOK
  <2> QED
    BY <1>1, <2>1 DEF Prepared, ReaderType
<1>5. Least(reader.hops, MaxHops) \in Nat
  BY <1>2, <1>3 DEF Least
<1>6. c.budget = reader.total
  BY <1>1, <1>4 DEF ReaderType
<1>7. /\ fit.taken \in SUBSET S /\ fit.passed = S \ fit.taken /\ fit.left \in Nat
      /\ Cost(fit.taken) + fit.left = reader.total /\ Cost(fit.taken) \in Nat
      /\ \A x \in fit.passed : Tokens[x] > fit.left
  <2>1. S \in SUBSET Parts /\ S \in SUBSET Policies
    BY PartsApart
  <2> HIDE DEF S
  <2>2. IsFiniteSet(S) /\ \A x \in S : Tokens[x] \in Nat
    BY <2>1, PartsCost
  <2>3. Orders(S, Ascending(Policies))
    BY <2>1, ReadsAssumption DEF Orders, Ascending
  <2> QED
    BY <1>2, <1>6, <2>2, <2>3, FitIs
<1>8. fit.taken \in SUBSET Policies /\ fit.passed \in SUBSET Policies
  BY <1>7
<1>9. reader' = IF c.budget = 0 THEN [c EXCEPT !.pc = "answered", !.status = "refused"]
                ELSE [c EXCEPT !.pc = "summary", !.left = fit.left, !.served = fit.taken,
                        !.passed = fit.passed]
  BY DEF ContextPolicies
<1> HIDE DEF c, S, fit
<1>10. CASE c.budget = 0
  <2>1. /\ reader'.pc = "answered" /\ reader'.op = "context" /\ reader'.scope = reader.asked
        /\ reader'.asked = reader.asked /\ reader'.total = reader.total
        /\ reader'.gone = reader.gone /\ reader'.left = 0 /\ reader'.items = {}
        /\ reader'.served = {} /\ reader'.passed = {} /\ reader'.status = "refused"
        /\ reader' \in ReaderType
    BY <1>1, <1>2, <1>4, <1>5, <1>9, <1>10 DEF ReaderType, ReaderPcs
  <2>2. GrantOK'
    BY <1>1, <2>1 DEF GrantOK
  <2>3. PaidOK'
    BY <1>2, <2>1 DEF PaidOK, Answered
  <2>4. ServedOK'
    BY <1>1, <2>1 DEF ServedOK, ContextPolicies, stores
  <2>5. FoundOK'
    BY <2>1 DEF FoundOK
  <2> QED
    BY <2>1, <2>2, <2>3, <2>4, <2>5, ReaderMoves DEF CallOK, ContextPolicies
<1>11. CASE c.budget # 0
  <2>1. /\ reader'.pc = "summary" /\ reader'.op = "context" /\ reader'.scope = reader.asked
        /\ reader'.asked = reader.asked /\ reader'.total = reader.total
        /\ reader'.gone = reader.gone /\ reader'.left = fit.left /\ reader'.items = {}
        /\ reader'.served = fit.taken /\ reader'.passed = fit.passed
        /\ reader'.vector = Todo /\ reader'.graph = Todo
    BY <1>1, <1>2, <1>4, <1>9, <1>11 DEF ReaderType
  <2>2. reader' \in ReaderType
    <3>1. fit.taken \in SUBSET Parts /\ fit.passed \in SUBSET Parts
      BY <1>8, PartsApart
    <3> QED
      BY <1>1, <1>2, <1>4, <1>5, <1>7, <1>9, <1>11, <3>1 DEF ReaderType, ReaderPcs
  <2>3. GrantOK'
    BY <1>1, <2>1 DEF GrantOK
  <2>4. PaidOK'
    BY <1>2, <1>7, <1>8, <2>1 DEF PaidOK, Answered
  <2>5. ServedOK'
    <3>1. fit.taken \cap Memories = {} /\ fit.taken \cap reader.gone = {} /\ Summary.id \notin fit.taken
      BY <1>2, <1>8, PartsApart
    <3> QED
      BY <1>1, <2>1, <3>1 DEF ServedOK, ContextPolicies, stores
  <2>6. FoundOK'
    BY <2>1 DEF FoundOK
  <2> QED
    BY <2>1, <2>2, <2>3, <2>4, <2>5, <2>6, ReaderMoves DEF CallOK, ContextPolicies
<1> QED
  BY <1>10, <1>11

\* What a part of a context that comes before the memories must leave behind.
LEMMA ContextMoves ==
  ASSUME ReadsInv, Watch, UNCHANGED <<stores, edit, writes, walk>>,
         reader.pc \in {"summary", "tail", "messages"}, reader' \in ReaderType,
         reader'.pc \in {"tail", "messages"}, reader'.op = reader.op, reader'.scope = reader.scope,
         reader'.asked = reader.asked, reader'.total = reader.total, reader'.gone = reader.gone,
         reader'.items = reader.items, reader'.vector = reader.vector, reader'.graph = reader.graph,
         Cost(reader'.served) + reader'.left = reader.total, reader'.left <= reader.total,
         \A x \in reader'.passed : Tokens[x] > reader'.left,
         reader'.pc = "tail" => reader'.served \subseteq Policies \cup {Summary.id},
         reader'.pc = "messages" =>
           reader'.served \subseteq Policies \cup {Summary.id} \cup (Messages \ reader'.todo),
         reader'.served \cap reader.gone = {},
         Summary.id \in reader'.served => Summary.source \notin reader.gone
  PROVE  ReadsInv'
<1>1. /\ GrantOK /\ PaidOK /\ ServedOK /\ FoundOK
  BY DEF ReadsInv
<1>2. reader.op = "context" /\ reader.items = {} /\ reader.vector = Todo /\ reader.graph = Todo
  BY <1>1 DEF GrantOK, PaidOK, FoundOK
<1>3. GrantOK'
  BY <1>1, <1>2 DEF GrantOK
<1>4. PaidOK'
  BY <1>2 DEF PaidOK, Answered
<1>5. ServedOK'
  <2>1. reader'.served \cap Memories = {}
    BY PartsApart
  <2> QED
    BY <1>1, <1>2, <2>1 DEF ServedOK, stores
<1>6. FoundOK'
  BY <1>2 DEF FoundOK
<1> QED
  BY <1>3, <1>4, <1>5, <1>6, ReaderMoves DEF CallOK

\* What was served before, which the next part may be charged to.
LEMMA ContextHas ==
  ASSUME ReadsInv, reader.pc \in {"summary", "tail", "messages"}
  PROVE  /\ reader \in ReaderType /\ reader.left \in Nat /\ reader.total \in Nat
         /\ reader.left <= reader.total
         /\ reader.served \in SUBSET Parts /\ reader.passed \in SUBSET Parts
         /\ reader.todo \in SUBSET Messages /\ reader.reasons \in SUBSET {"tail"}
         /\ Cost(reader.served) \in Nat /\ Cost(reader.served) + reader.left = reader.total
         /\ \A x \in reader.passed : Tokens[x] > reader.left
         /\ reader.served \cap reader.gone = {}
         /\ Summary.id \in reader.served => Summary.source \notin reader.gone
         /\ \A s \in reader.gone : tomb[s] # "none"
<1>1. reader \in ReaderType /\ GrantOK /\ PaidOK /\ ServedOK
  BY DEF ReadsInv
<1>2. reader.op = "context"
  BY <1>1 DEF GrantOK
<1>3. /\ reader.left \in Nat /\ reader.total \in Nat
      /\ reader.served \in SUBSET Parts /\ reader.passed \in SUBSET Parts
      /\ reader.todo \in SUBSET Messages /\ reader.reasons \in SUBSET {"tail"}
  BY <1>1 DEF ReaderType
<1>4. Cost(reader.served) \in Nat
  BY <1>3, PartsCost, CostFacts
<1>5. /\ Cost(reader.served) + reader.left = reader.total /\ reader.left <= reader.total
      /\ \A x \in reader.passed : Tokens[x] > reader.left
  BY <1>1, <1>2 DEF PaidOK
<1>6. /\ reader.served \cap reader.gone = {}
      /\ Summary.id \in reader.served => Summary.source \notin reader.gone
      /\ \A s \in reader.gone : tomb[s] # "none"
  BY <1>1 DEF ServedOK
<1> QED
  BY <1>1, <1>3, <1>4, <1>5, <1>6

\* A part that is charged is served if it fits, and passed over if it does not.
LEMMA ChargeMoves ==
  ASSUME ReadsInv, Watch, UNCHANGED <<stores, edit, writes, walk>>,
         reader.pc \in {"summary", "messages"},
         NEW pc \in {"tail", "messages"}, NEW todo \in SUBSET Messages,
         NEW x \in {Summary.id} \cup Messages, x \notin reader.served, x \notin reader.gone,
         x = Summary.id => Summary.source \notin reader.gone,
         reader' = Charge([reader EXCEPT !.pc = pc, !.todo = todo], x),
         pc = "tail" => reader.served \cup {x} \subseteq Policies \cup {Summary.id},
         pc = "messages" =>
           reader.served \cup {x} \subseteq Policies \cup {Summary.id} \cup (Messages \ todo)
  PROVE  ReadsInv'
<1> DEFINE c == [reader EXCEPT !.pc = pc, !.todo = todo]
<1>1. /\ reader \in ReaderType /\ reader.left \in Nat /\ reader.total \in Nat
      /\ reader.left <= reader.total
      /\ reader.served \in SUBSET Parts /\ reader.passed \in SUBSET Parts
      /\ reader.reasons \in SUBSET {"tail"}
      /\ Cost(reader.served) \in Nat /\ Cost(reader.served) + reader.left = reader.total
      /\ \A y \in reader.passed : Tokens[y] > reader.left
      /\ reader.served \cap reader.gone = {}
      /\ Summary.id \in reader.served => Summary.source \notin reader.gone
  BY ContextHas
<1>2. /\ c.left = reader.left /\ c.served = reader.served /\ c.passed = reader.passed
  BY <1>1 DEF ReaderType
<1>3. x \in Parts /\ Tokens[x] \in Nat
  <2>1. x \in Parts
    BY PartsApart
  <2> QED
    BY <2>1, ReadsAssumption
<1>4. \A y \in reader.passed : Tokens[y] \in Nat
  BY <1>1, PartsCost
<1>5. CASE Tokens[x] <= reader.left
  <2> DEFINE served == reader.served \cup {x}
             over == reader.left - Tokens[x]
  <2>1. reader' = [c EXCEPT !.left = @ - Tokens[x], !.served = @ \cup {x}]
    BY <1>2, <1>5 DEF Charge
  <2>3. over \in Nat /\ over <= reader.left
    BY <1>1, <1>3, <1>5
  <2>4. served \in SUBSET Parts
    BY <1>1, <1>3
  <2>5. Cost(served) + over = reader.total
    <3>1. IsFiniteSet(served) /\ \A y \in served : Tokens[y] \in Nat
      BY <2>4, PartsCost
    <3>2. Cost(served) = Tokens[x] + Cost(served \ {x})
      BY <3>1, CostFacts
    <3>3. served \ {x} = reader.served
      OBVIOUS
    <3> HIDE DEF served
    <3>4. Cost(served) = Tokens[x] + Cost(reader.served)
      BY <3>2, <3>3
    <3> QED
      BY <1>1, <1>3, <3>4
  <2>6. over <= reader.total /\ \A y \in reader.passed : Tokens[y] > over
    BY <1>1, <1>4, <2>3
  <2>7. served \cap reader.gone = {} /\ (Summary.id \in served => Summary.source \notin reader.gone)
    BY <1>1
  <2>8. /\ pc = "tail" => served \subseteq Policies \cup {Summary.id}
        /\ pc = "messages" => served \subseteq Policies \cup {Summary.id} \cup (Messages \ todo)
    OBVIOUS
  <2> HIDE DEF served, over
  <2>2. reader' = [reader EXCEPT !.pc = pc, !.todo = todo, !.left = over, !.served = served]
    BY <1>2, <2>1 DEF served, over
  <2>9. /\ reader'.pc = pc /\ reader'.op = reader.op /\ reader'.scope = reader.scope
        /\ reader'.asked = reader.asked /\ reader'.total = reader.total
        /\ reader'.gone = reader.gone /\ reader'.left = over /\ reader'.items = reader.items
        /\ reader'.served = served /\ reader'.passed = reader.passed /\ reader'.todo = todo
        /\ reader'.vector = reader.vector /\ reader'.graph = reader.graph
    BY <1>1, <2>2 DEF ReaderType
  <2>10. reader' \in ReaderType
    BY <1>1, <2>2, <2>3, <2>4, ZenonT(60) DEF ReaderType, ReaderPcs
  <2> QED
    BY <2>5, <2>6, <2>7, <2>8, <2>9, <2>10, ContextMoves
<1>6. CASE ~(Tokens[x] <= reader.left)
  <2> DEFINE passed == reader.passed \cup {x}
  <2>1. reader' = [c EXCEPT !.passed = @ \cup {x}]
    BY <1>2, <1>6 DEF Charge
  <2>3. passed \in SUBSET Parts /\ \A y \in passed : Tokens[y] > reader.left
    BY <1>1, <1>3, <1>6
  <2>4. /\ pc = "tail" => reader.served \subseteq Policies \cup {Summary.id}
        /\ pc = "messages" =>
             reader.served \subseteq Policies \cup {Summary.id} \cup (Messages \ todo)
    OBVIOUS
  <2> HIDE DEF passed
  <2>2. reader' = [reader EXCEPT !.pc = pc, !.todo = todo, !.passed = passed]
    BY <1>2, <2>1 DEF passed
  <2>5. /\ reader'.pc = pc /\ reader'.op = reader.op /\ reader'.scope = reader.scope
        /\ reader'.asked = reader.asked /\ reader'.total = reader.total
        /\ reader'.gone = reader.gone /\ reader'.left = reader.left /\ reader'.items = reader.items
        /\ reader'.served = reader.served /\ reader'.passed = passed /\ reader'.todo = todo
        /\ reader'.vector = reader.vector /\ reader'.graph = reader.graph
    BY <1>1, <2>2 DEF ReaderType
  <2>6. reader' \in ReaderType
    BY <1>1, <2>2, <2>3, ZenonT(60) DEF ReaderType, ReaderPcs
  <2> QED
    BY <1>1, <2>3, <2>4, <2>5, <2>6, ContextMoves
<1> QED
  BY <1>5, <1>6

\* A part that is not charged leaves what was served as it was.
LEMMA SkipMoves ==
  ASSUME ReadsInv, Watch, UNCHANGED <<stores, edit, writes, walk>>,
         reader.pc \in {"summary", "tail", "messages"},
         NEW pc \in {"tail", "messages"}, NEW todo \in SUBSET Messages,
         NEW reasons \in SUBSET {"tail"},
         reader' = [reader EXCEPT !.pc = pc, !.todo = todo, !.reasons = reasons],
         pc = "tail" => reader.served \subseteq Policies \cup {Summary.id},
         pc = "messages" => reader.served \subseteq Policies \cup {Summary.id} \cup (Messages \ todo)
  PROVE  ReadsInv'
<1>1. /\ reader \in ReaderType /\ reader.left \in Nat /\ reader.left <= reader.total
      /\ reader.served \in SUBSET Parts /\ reader.passed \in SUBSET Parts
      /\ Cost(reader.served) + reader.left = reader.total
      /\ \A y \in reader.passed : Tokens[y] > reader.left
      /\ reader.served \cap reader.gone = {}
      /\ Summary.id \in reader.served => Summary.source \notin reader.gone
  BY ContextHas
<1>2. /\ reader'.pc = pc /\ reader'.op = reader.op /\ reader'.scope = reader.scope
      /\ reader'.asked = reader.asked /\ reader'.total = reader.total
      /\ reader'.gone = reader.gone /\ reader'.left = reader.left /\ reader'.items = reader.items
      /\ reader'.served = reader.served /\ reader'.passed = reader.passed /\ reader'.todo = todo
      /\ reader'.vector = reader.vector /\ reader'.graph = reader.graph
  BY <1>1 DEF ReaderType
<1>3. reader' \in ReaderType
  BY <1>1 DEF ReaderType, ReaderPcs
<1> QED
  BY <1>1, <1>2, <1>3, ContextMoves

LEMMA StepContextSummary == ASSUME ReadsInv, Watch, ContextSummary PROVE ReadsInv'
<1> DEFINE todo == reader.todo
           reasons == reader.reasons
           id == Summary.id
           pc == "tail"
<1>1. /\ reader \in ReaderType /\ PaidOK /\ reader.pc = "summary"
      /\ todo \in SUBSET Messages /\ reasons \in SUBSET {"tail"}
      /\ \A s \in reader.gone : tomb[s] # "none"
  BY ContextHas DEF ReadsInv, ContextSummary
<1>2. reader.served \subseteq Policies /\ reader.gone \subseteq Messages
  BY <1>1 DEF PaidOK, ReaderType
<1>3. UNCHANGED <<stores, edit, writes, walk>>
  BY DEF ContextSummary
<1>4. /\ [reader EXCEPT !.pc = "tail"] = [reader EXCEPT !.pc = pc, !.todo = todo]
      /\ [reader EXCEPT !.pc = "tail"] = [reader EXCEPT !.pc = pc, !.todo = todo, !.reasons = reasons]
      /\ [reader EXCEPT !.pc = "tail"].scope = reader.scope
  BY <1>1 DEF ReaderType
<1>5. CASE tomb[Summary.source] = "none" /\ Summary.level \in reader.scope
  <2>1. reader' = Charge([reader EXCEPT !.pc = pc, !.todo = todo], id)
    BY <1>4, <1>5 DEF ContextSummary
  <2>2. id \notin reader.served /\ id \notin reader.gone
    BY <1>2, PartsApart
  <2>3. Summary.source \notin reader.gone
    BY <1>1, <1>5
  <2>4. reader.served \cup {id} \subseteq Policies \cup {Summary.id} /\ id \in {Summary.id} \cup Messages
    BY <1>2
  <2>5. pc \in {"tail", "messages"} /\ pc # "messages"
    OBVIOUS
  <2> HIDE DEF todo, id, pc
  <2> QED
    BY <1>1, <1>3, <2>1, <2>2, <2>3, <2>4, <2>5, ChargeMoves
<1>6. CASE ~(tomb[Summary.source] = "none" /\ Summary.level \in reader.scope)
  <2>1. reader' = [reader EXCEPT !.pc = pc, !.todo = todo, !.reasons = reasons]
    BY <1>4, <1>6 DEF ContextSummary
  <2>2. reader.served \subseteq Policies \cup {Summary.id}
    BY <1>2
  <2>3. pc \in {"tail", "messages"} /\ pc # "messages"
    OBVIOUS
  <2> HIDE DEF todo, reasons, pc
  <2> QED
    BY <1>1, <1>3, <2>1, <2>2, <2>3, SkipMoves
<1> QED
  BY <1>5, <1>6

LEMMA StepContextTail == ASSUME ReadsInv, Watch, ContextTail PROVE ReadsInv'
<1> DEFINE todo == Messages
           pc == "messages"
<1>1. PICK reasons \in SUBSET {p \in {"tail"} : StoresFail} :
        reader' = [reader EXCEPT !.pc = "messages", !.reasons = reasons, !.todo = Messages]
  BY DEF ContextTail
<1>2. /\ reader.pc = "tail" /\ reader \in ReaderType /\ PaidOK /\ reasons \in SUBSET {"tail"}
      /\ UNCHANGED <<stores, edit, writes, walk>>
  BY DEF ReadsInv, ContextTail
<1>3. reader' = [reader EXCEPT !.pc = pc, !.todo = todo, !.reasons = reasons]
  BY <1>1, <1>2 DEF ReaderType
<1>4. reader.served \subseteq Policies \cup {Summary.id} \cup (Messages \ todo)
  BY <1>2 DEF PaidOK
<1>5. pc \in {"tail", "messages"} /\ pc # "tail" /\ todo \in SUBSET Messages
  OBVIOUS
<1> HIDE DEF todo, pc
<1> QED
  BY <1>2, <1>3, <1>4, <1>5, SkipMoves

\* The newest of the messages left is one of them.
LEMMA NewestIs ==
  ASSUME NEW S \in SUBSET Messages, S # {} PROVE Max(S) \in S
<1> DEFINE R == Ascending(Messages)
<1>1. IsFiniteSet(Messages) /\ Messages \subseteq Nat
  BY ReadsAssumption
<1>2. Orders(Messages, R)
  BY <1>1, AscendingOrders
<1> HIDE DEF R
<1> DEFINE M == Messages
<1>a. IsFiniteSet(M) /\ Orders(M, R) /\ S \in SUBSET M /\ S # {}
  BY <1>1, <1>2
<1> HIDE DEF M
<1>b. \E x \in S : \A y \in S : y = x \/ <<y, x>> \in R
  BY <1>a, LastExists
<1>3. PICK x \in S : \A y \in S : y = x \/ <<y, x>> \in R
  BY <1>b
<1>4. ASSUME NEW y \in S PROVE x >= y
  <2>1. x \in Nat /\ y \in Nat
    BY <1>1
  <2>2. y = x \/ y < x
    BY <1>3 DEF R, Ascending
  <2> QED
    BY <2>1, <2>2
<1> QED
  BY <1>4 DEF Max

LEMMA StepContextMessage == ASSUME ReadsInv, Watch, ContextMessage PROVE ReadsInv'
<1> DEFINE message == Max(reader.todo)
           todo == reader.todo \ {message}
           c == [reader EXCEPT !.todo = @ \ {message}]
<1>1. /\ reader \in ReaderType /\ PaidOK /\ reader.pc = "messages"
      /\ reader.todo \in SUBSET Messages /\ reader.todo # {}
      /\ reader.reasons \in SUBSET {"tail"}
      /\ \A s \in reader.gone : tomb[s] # "none"
  BY ContextHas DEF ReadsInv, ContextMessage
<1>2. message \in reader.todo /\ message \in Messages /\ todo \in SUBSET Messages
  BY <1>1, NewestIs
<1>3. reader' = IF PolicyLevel[message] \in c.scope /\ tomb[message] = "none"
                THEN Charge(c, message) ELSE c
  BY DEF ContextMessage
<1> HIDE DEF message
<1>4. /\ reader.served \subseteq Policies \cup {Summary.id} \cup (Messages \ reader.todo)
      /\ message \notin reader.served
  <2>1. reader.served \subseteq Policies \cup {Summary.id} \cup (Messages \ reader.todo)
    BY <1>1 DEF PaidOK
  <2> QED
    BY <1>2, <2>1, PartsApart
<1>5. /\ c = [reader EXCEPT !.pc = "messages", !.todo = todo]
      /\ c = [reader EXCEPT !.pc = "messages", !.todo = todo, !.reasons = reader.reasons]
      /\ c.scope = reader.scope
  BY <1>1 DEF ReaderType
<1> HIDE DEF c, todo
<1>6. CASE PolicyLevel[message] \in c.scope /\ tomb[message] = "none"
  <2>1. reader' = Charge([reader EXCEPT !.pc = "messages", !.todo = todo], message)
    BY <1>3, <1>5, <1>6
  <2>2. message \notin reader.gone /\ message # Summary.id
    BY <1>1, <1>2, <1>6, PartsApart
  <2>3. reader.served \cup {message} \subseteq Policies \cup {Summary.id} \cup (Messages \ todo)
    BY <1>2, <1>4 DEF todo
  <2> QED
    BY <1>1, <1>2, <1>4, <2>1, <2>2, <2>3, ChargeMoves DEF ContextMessage
<1>7. CASE ~(PolicyLevel[message] \in c.scope /\ tomb[message] = "none")
  <2>1. reader' = [reader EXCEPT !.pc = "messages", !.todo = todo, !.reasons = reader.reasons]
    BY <1>3, <1>5, <1>7
  <2>2. reader.served \subseteq Policies \cup {Summary.id} \cup (Messages \ todo)
    BY <1>4 DEF todo
  <2> QED
    BY <1>1, <1>2, <2>1, <2>2, SkipMoves DEF ContextMessage
<1> QED
  BY <1>6, <1>7

\* What is left of the budget goes to a retrieval; without anything left, or without
\* a scope, no memory is wanted that would fit.
LEMMA StepContextMemories == ASSUME ReadsInv, Watch, ContextMemories PROVE ReadsInv'
<1>1. /\ reader \in ReaderType /\ GrantOK /\ PaidOK /\ ServedOK /\ FoundOK
      /\ reader.pc = "messages" /\ reader.left \in Nat /\ reader.left <= reader.total
      /\ reader.total \in Nat /\ Cost(reader.served) + reader.left = reader.total
      /\ \A x \in reader.passed : Tokens[x] > reader.left
  BY ContextHas DEF ReadsInv, ContextMemories
<1>2. /\ reader.op = "context" /\ reader.items = {} /\ reader.vector = Todo /\ reader.graph = Todo
      /\ reader.scope = reader.asked /\ reader.asked \subseteq AllowedLevels
      /\ reader.total <= MaxBudget /\ MaxBudget \in Nat
  BY <1>1, ReadsAssumption DEF GrantOK, PaidOK, FoundOK
<1>3. reader.served \cap Memories = {}
  <2>1. reader.served \subseteq Policies \cup {Summary.id} \cup (Messages \ reader.todo)
    BY <1>1 DEF PaidOK
  <2> QED
    BY <2>1, PartsApart
<1>4. UNCHANGED <<stores, edit, writes, walk>>
  BY DEF ContextMemories
<1>5. CASE MayRetrieve
  <2>1. reader' = [reader EXCEPT !.pc = "prepare", !.budget = reader.left]
    BY <1>5 DEF ContextMemories, RetrievalBudget
  <2>2. /\ reader'.pc = "prepare" /\ reader'.op = reader.op /\ reader'.scope = reader.scope
        /\ reader'.asked = reader.asked /\ reader'.total = reader.total
        /\ reader'.gone = reader.gone /\ reader'.left = reader.left
        /\ reader'.items = reader.items /\ reader'.served = reader.served
        /\ reader'.passed = reader.passed /\ reader'.budget = reader.left
        /\ reader'.vector = reader.vector /\ reader'.graph = reader.graph
    BY <1>1, <2>1 DEF ReaderType
  <2>3. reader' \in ReaderType
    BY <1>1, <2>1 DEF ReaderType, ReaderPcs
  <2>4. GrantOK'
    <3>1. reader.scope # {} /\ reader.scope \cap AllowedLevels = reader.asked
      BY <1>2, <1>5 DEF MayRetrieve
    <3>2. Least(reader.left, MaxBudget) = reader.left
      BY <1>1, <1>2 DEF Least
    <3> QED
      BY <1>1, <1>2, <2>2, <3>1, <3>2 DEF GrantOK, Share
  <2>5. PaidOK'
    BY <1>1, <1>2, <1>3, <2>2 DEF PaidOK, Answered
  <2>6. ServedOK'
    BY <1>1, <1>2, <1>3, <1>4, <2>2 DEF ServedOK, stores
  <2>7. FoundOK'
    BY <1>2, <2>2 DEF FoundOK
  <2> QED
    BY <1>1, <1>4, <2>2, <2>3, <2>4, <2>5, <2>6, <2>7, ReaderMoves DEF CallOK
<1>6. CASE ~MayRetrieve
  <2>1. reader' = [reader EXCEPT !.pc = "answered", !.status = "ok"]
    BY <1>6 DEF ContextMemories
  <2>2. /\ reader'.pc = "answered" /\ reader'.op = reader.op /\ reader'.scope = reader.scope
        /\ reader'.asked = reader.asked /\ reader'.total = reader.total
        /\ reader'.gone = reader.gone /\ reader'.left = reader.left
        /\ reader'.items = reader.items /\ reader'.served = reader.served
        /\ reader'.passed = reader.passed /\ reader'.filter = reader.filter
    BY <1>1, <2>1 DEF ReaderType
  <2>3. reader' \in ReaderType
    BY <1>1, <2>1 DEF ReaderType, ReaderPcs
  <2>4. GrantOK'
    BY <1>1, <1>2, <2>2 DEF GrantOK
  <2>5. PaidOK'
    BY <1>1, <1>2, <2>2 DEF PaidOK, Answered
  <2>6. ServedOK'
    BY <1>1, <1>2, <1>3, <1>4, <2>2 DEF ServedOK, stores
  <2>7. FoundOK'
    <3>1. ASSUME NEW m \in Memories, Wanted(m)' PROVE Tokens[m] > reader'.left
      <4>1. seen[m] \subseteq seen'[m]
        BY <2>2, ReaderSees
      <4>2. Steady(m)
        BY <2>2, <3>1, <4>1, WantedBefore DEF Wanted
      <4>3. View(m) \in seen[m]
        BY <1>1, ReaderSaw
      <4>4. reader.scope # {}
        BY <1>2, <4>2, <4>3 DEF Steady
      <4>5. reader.left = 0
        BY <1>1, <1>6, <4>4 DEF MayRetrieve
      <4> QED
        BY <2>2, <4>5, ReadsAssumption
    <3> QED
      BY <2>2, <3>1 DEF FoundOK
  <2> QED
    BY <1>1, <1>4, <2>2, <2>3, <2>4, <2>5, <2>6, <2>7, ReaderMoves DEF CallOK
<1> QED
  BY <1>5, <1>6

LEMMA StepReaders == ASSUME ReadsInv, Watch, Readers PROVE ReadsInv'
  BY StepBegin, StepRetrievePrepare, StepVectorPath, StepGraphIds, StepGraphGate, StepMerge,
     StepRecordAccesses, StepFinish, StepContextPolicies, StepContextSummary, StepContextTail,
     StepContextMessage, StepContextMemories, StepStoreError DEF Readers

-----------------------------------------------------------------------------
(* Results.                                                                *)

LEMMA InitReads == ReadsInit => ReadsInv
<1> SUFFICES ASSUME ReadsInit PROVE ReadsInv
  OBVIOUS
<1>1. StoresTyped
  <2>1. NoRow \in Row
    BY ReadsAssumption DEF NoRow, Row
  <2>2. \A m \in DOMAIN Settled :
          /\ m \in Memories /\ Settled[m] \in Levels /\ Given[m] \in SUBSET Tags
          /\ SettledRow(m) \in Row
    BY ReadsAssumption DEF SettledRow, Row
  <2>3. row \in [Memories -> Row]
    BY <2>1, <2>2 DEF ReadsInit
  <2>4. points \in [Memories -> Points]
    BY <2>2 DEF ReadsInit, Points
  <2>5. tomb \in [Messages -> {"none", "soft", "redact"}]
    BY DEF ReadsInit
  <2> QED
    BY <2>2, <2>3, <2>4, <2>5, ReadsAssumption DEF ReadsInit, StoresTyped
<1>2. EdgesOK
  BY HoldSettled DEF ReadsInit, EdgesOK
<1>3. Idle /\ reader = NoCall /\ walk = NoWalk
  BY DEF ReadsInit, Idle, NoCall, NoWalk
<1>4. Watched
  <2>1. seen = [m \in Memories |-> {}]
    BY DEF ReadsInit
  <2>2. seen = [m \in Memories |-> seen[m]]
    BY <2>1
  <2> QED
    BY <1>3, <2>2 DEF Watched
<1>5. reader \in ReaderType
  <2>1. Todo \in Paths
    BY DEF Todo, Paths
  <2> QED
    BY <1>3, <2>1 DEF NoCall, ReaderType, ReaderPcs
<1>6. /\ reader.pc = "idle" /\ reader.op = "none" /\ reader.asked = {} /\ reader.total = 0
      /\ reader.left = 0 /\ reader.served = {} /\ reader.items = {} /\ reader.passed = {}
      /\ reader.gone = {}
  BY <1>3 DEF NoCall
<1>a. Apart
  BY <1>6 DEF Apart
<1>7. GrantOK
  BY <1>6, ReadsAssumption DEF GrantOK
<1>8. PaidOK
  BY <1>6 DEF PaidOK, Answered
<1>9. ServedOK
  BY <1>6 DEF ServedOK
<1>10. FoundOK
  BY <1>6 DEF FoundOK
<1>11. WalkOK
  <2>1. /\ walk.pc = "idle" /\ walk.query = Null /\ walk.cursor = Null /\ walk.listed = <<>>
        /\ walk = [pc |-> "idle", query |-> Null, cursor |-> Null, listed |-> <<>>]
    BY <1>3 DEF NoWalk
  <2>2. << >> \in Seq(ListItems)
    OBVIOUS
  <2>3. DOMAIN walk.listed = {} /\ Listed = {}
    BY <2>1 DEF Listed
  <2> QED
    BY <2>1, <2>2, <2>3 DEF WalkOK
<1> QED
  BY <1>1, <1>2, <1>4, <1>5, <1>7, <1>8, <1>9, <1>10, <1>11, <1>a DEF ReadsInv

LEMMA NextReads == ReadsInv /\ [ReadsNext]_readsVars => ReadsInv'
<1> SUFFICES ASSUME ReadsInv, [ReadsNext]_readsVars PROVE ReadsInv'
  OBVIOUS
<1>1. CASE ReadsNext
  BY <1>1, StepWriters, StepReaders, StepWalkBegin, StepWalkPage DEF ReadsNext
<1>2. CASE UNCHANGED readsVars
  <2>1. UNCHANGED <<row, tomb, points, edges, plan, fresh, behind, sync, applied, edit, writes,
                    reader, walk, seen>>
    BY <1>2 DEF readsVars, stores
  <2>2. Apart' /\ StoresTyped' /\ EdgesOK' /\ reader' \in ReaderType /\ GrantOK' /\ PaidOK'
    BY <2>1 DEF ReadsInv, Apart, StoresTyped, EdgesOK, GrantOK, PaidOK, Share, Answered
  <2>3. Watched'
    <3>1. \A m \in Memories : View(m)' = View(m)
      BY <2>1 DEF View, AsFound, AsListed, Visible, Tombed, EffectiveStatus
    <3> QED
      BY <2>1, <3>1 DEF ReadsInv, Watched, Idle
  <2>4. WalkOK'
    BY <2>1, WalkStays DEF ReadsInv
  <2>5. reader.gone \subseteq Messages
    BY DEF ReadsInv, ReaderType
  <2>6. ServedOK' /\ FoundOK'
    BY <2>1, <2>5, CallStays DEF ReadsInv
  <2> QED
    BY <2>2, <2>3, <2>4, <2>6 DEF ReadsInv
<1> QED
  BY <1>1, <1>2

\* The inductive invariant of the readers: what a call was granted, has paid for and
\* has found is in step with what it has seen of the rows, the vectors and the graph.
THEOREM ReadsKeepTrack == ReadsSpec => []ReadsInv
  BY InitReads, NextReads, PTL DEF ReadsSpec

\* Under any interleaving of ingest, update, forget and propagation, an answer of
\* retrieval serves only what was visible in the scope asked for at some moment of
\* the call, and an answer that is not degraded lacks nothing that was visible and
\* matched the filter all along and was all along among the nearest vectors, or
\* linked to the query in a graph that links at most MaxLinked memories; beyond
\* that the traversal may leave any of them out (retrieve, related_memory_ids).
THEOREM AnswersAreTrue == ReadsSpec => []AnswersTrue
<1>1. ReadsInv => AnswersTrue
  <2> SUFFICES ASSUME ReadsInv PROVE AnswersTrue
    OBVIOUS
  <2>1. reader \in ReaderType /\ StoresTyped /\ GrantOK /\ PaidOK /\ ServedOK /\ FoundOK
    BY DEF ReadsInv
  <2>2. ReadsTypeOK
    <3>1. sync = Null \/ sync.record \in Row
      BY <2>1 DEF StoresTyped
    <3>2. edit = Null \/ edit.record \in Row
      BY <2>1 DEF StoresTyped
    <3>3. reader.scope \subseteq Levels /\ reader.left <= MaxBudget
      <4>1. reader.left \in Nat /\ reader.total \in Nat /\ MaxBudget \in Nat
            /\ reader.scope \subseteq Levels
        BY <2>1, ReadsAssumption DEF ReaderType
      <4>2. reader.left <= reader.total /\ reader.total <= MaxBudget
        BY <2>1 DEF PaidOK, GrantOK
      <4> QED
        BY <4>1, <4>2
    <3>4. reader.pc \notin {"idle", "prepare", "policies"} => reader.scope \subseteq AllowedLevels
      BY <2>1 DEF GrantOK, ReaderType, ReaderPcs
    <3> QED
      BY <2>1, <3>1, <3>2, <3>3, <3>4 DEF StoresTyped, Points, ReadsTypeOK
  <2>3. ServedWasVisible
    BY <2>1 DEF ServedWasVisible, ServedOK
  <2>4. CompleteWhenOk
    <3> SUFFICES ASSUME reader.pc = "answered", reader.status = "ok", NEW m \in Memories,
                        Steady(m), Filtered(m), Near(m) \/ Linked(m)
                 PROVE  m \in reader.served \/ Tokens[m] > reader.left
      BY DEF CompleteWhenOk, Answered, Steady, Filtered, Near, Linked
    <3> QED
      BY <2>1 DEF FoundOK, Wanted
  <2> QED
    BY <2>2, <2>3, <2>4 DEF AnswersTrue
<1> QED
  BY <1>1, ReadsKeepTrack, PTL

\* Whatever a context assembles before its memories, all of its parts are paid for
\* from one budget, nothing that was passed over would still fit, and no memory that
\* was counted as accessed is dropped (consume_budget, retrieve_impl).
THEOREM BudgetIsShared == ReadsSpec => []BudgetShared
<1>1. ReadsInv => BudgetShared
  <2> SUFFICES ASSUME ReadsInv PROVE BudgetShared
    OBVIOUS
  <2>1. reader.dropped = {}
    BY DEF ReadsInv, ReaderType
  <2> QED
    BY <2>1 DEF ReadsInv, PaidOK, BudgetShared, BudgetKept, AccessedServed
<1> QED
  BY <1>1, ReadsKeepTrack, PTL

\* A listing walked to its end with its cursors names every memory that matched its
\* scope, tag and statuses all along, none that never did, and none twice, whatever
\* is ingested, updated or forgotten between the pages (query_memories).
THEOREM WalksAreConsistent == ReadsSpec => []WalkConsistent
<1>1. ReadsInv => WalkConsistent
  <2> SUFFICES ASSUME ReadsInv, walk.pc = "listed"
               PROVE  /\ Cardinality(Listed) = Len(walk.listed)
                      /\ \A m \in Memories :
                           /\ (\A v \in seen[m] : Matches(walk.query, v)) => m \in Listed
                           /\ m \in Listed => \E v \in seen[m] : Matches(walk.query, v)
    BY DEF WalkConsistent
  <2>1. WalkOK
    BY DEF ReadsInv
  <2>2. \A m \in Memories :
          /\ (\A v \in seen[m] : Matches(walk.query, v)) => m \in Listed
          /\ m \in Listed => \E v \in seen[m] : Matches(walk.query, v)
    BY <2>1 DEF WalkOK, AlwaysMatched
  <2>3. Cardinality(Listed) = Len(walk.listed)
    <3> DEFINE s == walk.listed
               n == Len(s)
               name == [i \in 1 .. n |-> s[i].m]
    <3>1. s \in Seq(ListItems) /\ \A i, j \in DOMAIN s : s[i].m = s[j].m => i = j
      BY <2>1 DEF WalkOK
    <3>2. Listed = {s[i].m : i \in DOMAIN s}
      BY DEF Listed
    <3> HIDE DEF s
    <3>3. n \in Nat /\ DOMAIN s = 1 .. n
      BY <3>1
    <3>4. Listed = {name[i] : i \in 1 .. n} /\ \A i, j \in 1 .. n : name[i] = name[j] => i = j
      BY <3>1, <3>2, <3>3
    <3> HIDE DEF n, name
    <3>a. \A i, j \in 1 .. n : name[i] = name[j] => i = j
      BY <3>4
    <3>b. n \in Nat
      BY <3>3
    <3>5. Cardinality({name[i] : i \in 1 .. n}) = n
      BY <3>a, <3>b, DistinctCount
    <3> QED
      BY <3>4, <3>5 DEF n, s
  <2> QED
    BY <2>2, <2>3
<1> QED
  BY <1>1, ReadsKeepTrack, PTL

\* However propagations follow one another, a relationship of the graph has one entry
\* for each memory that contributes to it and the confidence of the most confident of
\* them (replace_memory_graph, redact_memory_edges).
THEOREM EdgesShowContributions == ReadsSpec => []EdgesMatchContributions
<1>1. ReadsInv => EdgesMatchContributions
  BY EdgesShow DEF ReadsInv
<1> QED
  BY <1>1, ReadsKeepTrack, PTL
=============================================================================
