--------------------- MODULE SessionConsolidationProofs ---------------------
(***************************************************************************)
(* Proofs about SessionConsolidation, for any messages, versions, callers, *)
(* crashes, failures and lapsed leases: contexts hold nothing forgotten,   *)
(* the cached tail is the one of the table, a completed consolidation and  *)
(* the archive are whole, and what was erased stays erased.                *)
(***************************************************************************)
EXTENDS SessionConsolidation, WellFoundedInduction, TLAPS

Labels == {"idle", "release"} \cup AppendPcs \cup AssemblePcs \cup WorkPcs \cup ErasePcs

\* The control points at which a caller believes it holds the lease.
Leasing == {"release"} \cup AppendPcs \cup WorkPcs \cup ErasePcs
Holds(w) == lease.live /\ lease.owner = w

\* The steps of an erasure, from the intent and from the row's being marked.
Marked == {"cascade", "flush", "purge", "purged", "scrub", "answer"}
Barring == {"mark"} \cup Marked
Intended == {"tomb"} \cup Barring

\* The steps of the upload, and those after it.
Archiving == {"manifest", "put", "stored", "archived"}
Accepting == {"candidate", "existing", "ingest", "progress", "resume_summary", "save_summary"}

MemoryOf(j, i, S) == [job |-> j, index |-> i, sources |-> S]

\* Forget will find what is or will be put under k, or has been there.
Safe(k) == object[k] = "tombstone" \/ manifest[k] \in {"pending", "stored"}

\* What a record of job j claims is so.
RecordOK(j, r) ==
  /\ r.accepted <= Len(r.plan)
  /\ \A i \in 1 .. r.accepted : MemoryOf(j, i, r.plan[i]) \in DOMAIN mem
  /\ r.archived /\ j[1] = "deep" => object[<<j, ToSet(r.input)>>] # "none"

AssembleOK(w) ==
  /\ my[w].barred \subseteq tomb
  /\ pc[w] \in {"hot", "head", "fallback", "filter", "return"} => my[w].sum \cap my[w].barred = {}
  /\ pc[w] = "return" => ToSet(my[w].tail) \cap my[w].barred = {}

\* The copy of the record a consolidation works on is as true as the row, and has gone as
\* far as the control point.
WorkOK(w) ==
  LET r == my[w].rec
  IN
  pc[w] \in WorkPcs =>
    /\ my[w].j \in Jobs /\ my[w].op = my[w].j[1]
    /\ pc[w] \notin {"read", "load"} => RecordOK(my[w].j, r)
    /\ pc[w] \in Archiving => my[w].op = "deep"
    /\ pc[w] = "put" => Safe(Key(w))
    /\ pc[w] \in {"stored", "archived"} => object[Key(w)] # "none"
    /\ pc[w] \in Accepting => r.archived \/ my[w].op = "fast"
    /\ pc[w] \in {"existing", "ingest", "progress"} => r.accepted < Len(r.plan)
    /\ pc[w] = "progress" => NextId(w) \in DOMAIN mem
    /\ pc[w] \in {"resume_summary", "save_summary"} => r.accepted = Len(r.plan)
    /\ pc[w] \in {"finish", "close"} /\ my[w].ok =>
         r.accepted = Len(r.plan) /\ (r.archived \/ my[w].op = "fast")

EraseOK(w) ==
  LET x == my[w].x
  IN
  /\ pc[w] \in ErasePcs => x \in DOMAIN mem
  /\ pc[w] \in Intended => x \in started
  /\ pc[w] = "tomb" => x.sources \subseteq tomb \cup my[w].todo
  /\ pc[w] \in Barring => x.sources \subseteq tomb
  /\ pc[w] \in Marked => mem[x] # "active" /\ x \in my[w].affected
  /\ pc[w] = "cascade" => my[w].ids \subseteq DOMAIN mem
  /\ pc[w] = "purged" => my[w].k \in Keys /\ object[my[w].k] = "tombstone"

JobOK(j) ==
  /\ RecordOK(j, job[j])
  /\ job[j].status = "none" => job[j].accepted = 0 /\ ~job[j].archived
  /\ job[j].status = "completed" =>
       job[j].accepted = Len(job[j].plan) /\ (j[1] = "deep" => job[j].archived)

Findable(k) == object[k] = "content" => manifest[k] \in {"pending", "stored"}

DoneOK(x) == x.sources \subseteq tomb /\ mem[x] # "active"

\* What holds always.
Base ==
  /\ TypeOK
  /\ \A w \in Workers : AssembleOK(w) /\ WorkOK(w) /\ EraseOK(w)
  /\ \A j \in Jobs : JobOK(j)
  /\ \A k \in Keys : Findable(k)
  /\ \A x \in done : DoneOK(x)

\* h is the tail of the first n messages of s.
IsTail(h, s, n) ==
  /\ Len(h) = IF n <= TailLimit THEN n ELSE TailLimit
  /\ \A i \in 1 .. Len(h) : h[i] = s[n - Len(h) + i]

\* h is empty, or the tail of s as it once was, nothing being erased since.
CacheOK(h, s) == h = <<>> \/ \E n \in 1 .. Len(s) : IsTail(h, s, n)

\* No text of x is left in the session.
Clean(x) == x.sources \cap (ToSet(log) \cup summary) = {}

Covers(w, y) == y.sources \subseteq my[w].covered

LeasedOK(w) ==
  LET x == my[w].x
  IN
  /\ pc[w] \in Leasing => Holds(w)
  /\ pc[w] = "insert" => my[w].m \notin tomb
  /\ pc[w] \in WorkPcs \ {"read"} => ToSet(my[w].rec.input) \cap tomb = {}
  /\ my[w].op = "retain" /\ my[w].covered # {} =>
       /\ pc[w] \in {"authorise", "intent", "tomb", "mark"} =>
            Covers(w, x) /\ \A y \in Sharers(x) : Covers(w, y)
       /\ pc[w] \in Marked => \A y \in my[w].affected : Covers(w, y)
  /\ pc[w] \in {"purge", "purged"} => \A k \in Keys : object[k] = "content" => k \in my[w].keys
  /\ pc[w] \in {"scrub", "answer"} /\ my[w].ok => \A k \in Keys : object[k] # "content"
  /\ pc[w] = "scrub" => my[w].ids \subseteq my[w].affected /\ (x \in my[w].ids \/ Clean(x))
  /\ pc[w] = "answer" /\ my[w].ok => Clean(x)

CacheLeased(w) ==
  /\ pc[w] = "replace" => CacheOK(my[w].tail, log)
  /\ pc[w] \in {"purge", "purged", "scrub"} => hot = <<>>
  /\ pc[w] = "head" => CacheOK(my[w].tail, my[w].seen) /\ IsInjective(my[w].seen)

Erased(x) == Clean(x) /\ \A k \in Keys : k[2] \cap x.sources # {} => object[k] # "content"

\* What holds besides as long as no lease lapses, and no invalidation fails.
Leased ==
  /\ \A w \in Workers : LeasedOK(w)
  /\ \A x \in done : Erased(x)

Cached == CacheOK(hot, log) /\ \A w \in Workers : CacheLeased(w)

NoLapse == count.lapses = 0
Flushed == count.lapses = 0 /\ count.unflushed = 0

IInv == Base /\ (NoLapse => Leased) /\ (Flushed => Cached)

-----------------------------------------------------------------------------
(* Induction over the naturals, from the library's well-founded order, with *)
(* the induction predicate given as a set so that no operator has to be     *)
(* instantiated.                                                            *)

\* A set of naturals has a least member.
LEMMA NatMin ==
  ASSUME NEW B, B \subseteq Nat, B # {}
  PROVE  \E m \in B : \A k \in B : ~(<<k, m>> \in OpToRel(<, Nat))
  BY NatLessThanWellFounded, WFMin, Zenon

\* Induction over the naturals, in the same form.
LEMMA NatSetInduction ==
  ASSUME NEW G, 0 \in G, \A n \in Nat : n \in G => n + 1 \in G
  PROVE  Nat \subseteq G
<1> DEFINE B == {n \in Nat : n \notin G}
<1> SUFFICES ASSUME B # {} PROVE FALSE
  OBVIOUS
<1>1. B \subseteq Nat
  OBVIOUS
<1>2. PICK m \in B : \A k \in B : ~(<<k, m>> \in OpToRel(<, Nat))
  <2> HIDE DEF B
  <2> QED
    BY <1>1, NatMin
<1>3. m # 0 /\ m - 1 \in Nat /\ m - 1 < m /\ m - 1 \in B
  OBVIOUS
<1>4. <<m - 1, m>> \in OpToRel(<, Nat)
  BY <1>3 DEF OpToRel
<1> QED
  BY <1>2, <1>3, <1>4

-----------------------------------------------------------------------------
(* Sequences.                                                              *)

\* What Without computes step by step.
Filters(f, s, S, n) ==
  f = [i \in 0 .. n |-> IF i = 0 THEN <<>>
                        ELSE IF s[i] \in S THEN f[i - 1] ELSE Append(f[i - 1], s[i])]

\* Without is the last value of that recursion.
LEMMA WithoutIs ==
  ASSUME NEW s, NEW S
  PROVE  Without(s, S) = (CHOOSE f : Filters(f, s, S, Len(s)))[Len(s)]
  BY DEF Without, Filters

\* The recursion has a solution.
LEMMA WithoutExists ==
  ASSUME NEW s, NEW S, NEW n \in Nat
  PROVE  \E f : Filters(f, s, S, n)
<1> DEFINE G == {m \in Nat : \E f : Filters(f, s, S, m)}
<1>1. 0 \in G
  <2> DEFINE f == [i \in 0 .. 0 |-> <<>>]
  <2>1. Filters(f, s, S, 0)
    BY DEF Filters
  <2> QED
    BY <2>1
<1>2. ASSUME NEW m \in Nat, m \in G PROVE m + 1 \in G
  <2>1. PICK f : Filters(f, s, S, m)
    BY <1>2
  <2> DEFINE step == IF s[m + 1] \in S THEN f[m] ELSE Append(f[m], s[m + 1])
             g == [i \in 0 .. m + 1 |-> IF i = m + 1 THEN step ELSE f[i]]
  <2>2. ASSUME NEW i \in 0 .. m
        PROVE  g[i] = f[i] /\ i # m + 1 /\ (i # 0 => i - 1 \in 0 .. m /\ g[i - 1] = f[i - 1])
    OBVIOUS
  <2>3. g[m + 1] = step /\ g[m] = f[m] /\ m + 1 # 0 /\ (m + 1) - 1 = m
    OBVIOUS
  <2>4. ASSUME NEW i \in 0 .. m + 1
        PROVE  g[i] = IF i = 0 THEN <<>>
                      ELSE IF s[i] \in S THEN g[i - 1] ELSE Append(g[i - 1], s[i])
    <3>1. CASE i = m + 1
      BY <2>3, <3>1
    <3>2. CASE i \in 0 .. m
      <4>1. f[i] = IF i = 0 THEN <<>> ELSE IF s[i] \in S THEN f[i - 1] ELSE Append(f[i - 1], s[i])
        BY <2>1, <3>2 DEF Filters
      <4> HIDE DEF g
      <4> QED
        BY <2>2, <3>2, <4>1
    <3> QED
      BY <3>1, <3>2
  <2>5. g = [i \in 0 .. m + 1 |-> g[i]]
    OBVIOUS
  <2>6. Filters(g, s, S, m + 1)
    <3> HIDE DEF g
    <3> QED
      BY <2>4, <2>5 DEF Filters
  <2> QED
    BY <2>6
<1> HIDE DEF G
<1>3. Nat \subseteq G
  BY <1>1, <1>2, NatSetInduction
<1> QED
  BY <1>3 DEF G

\* Without keeps the other messages, each once if it was there once.
LEMMA WithoutFacts ==
  ASSUME NEW M, NEW s \in Seq(M), NEW S
  PROVE  /\ Without(s, S) \in Seq(M)
         /\ ToSet(Without(s, S)) = ToSet(s) \ S
         /\ IsInjective(s) => IsInjective(Without(s, S))
<1> DEFINE n == Len(s)
           f == CHOOSE g : Filters(g, s, S, n)
           Upto(i) == {s[k] : k \in 1 .. i}
           Good(i) == /\ f[i] \in Seq(M) /\ ToSet(f[i]) = Upto(i) \ S
                      /\ IsInjective(s) => IsInjective(f[i])
           G == {i \in Nat : i <= n => Good(i)}
<1>1. n \in Nat /\ DOMAIN s = 1 .. n /\ \A i \in 1 .. n : s[i] \in M
  OBVIOUS
<1>2. Filters(f, s, S, n)
  BY <1>1, WithoutExists
<1> HIDE DEF f
<1>3. /\ f[0] = <<>>
      /\ \A i \in 1 .. n : f[i] = IF s[i] \in S THEN f[i - 1] ELSE Append(f[i - 1], s[i])
  <2>1. ASSUME NEW i \in 0 .. n
        PROVE  f[i] = IF i = 0 THEN <<>> ELSE IF s[i] \in S THEN f[i - 1] ELSE Append(f[i - 1], s[i])
    BY <1>2 DEF Filters
  <2>2. 0 \in 0 .. n /\ \A i \in 1 .. n : i \in 0 .. n /\ i # 0
    BY <1>1
  <2> HIDE DEF n
  <2> QED
    BY <2>1, <2>2
<1>4. 0 \in G
  <2>1. f[0] \in Seq(M) /\ ToSet(f[0]) = {} /\ Upto(0) = {} /\ IsInjective(f[0])
    BY <1>3 DEF ToSet, IsInjective
  <2> QED
    BY <2>1
<1>5. ASSUME NEW i \in Nat, i \in G PROVE i + 1 \in G
  <2> SUFFICES ASSUME i + 1 <= n PROVE Good(i + 1)
    OBVIOUS
  <2>1. Good(i) /\ i + 1 \in 1 .. n /\ (i + 1) - 1 = i /\ s[i + 1] \in M
    BY <1>1, <1>5
  <2>2. Upto(i + 1) = Upto(i) \cup {s[i + 1]}
    <3>1. 1 .. i + 1 = (1 .. i) \cup {i + 1}
      OBVIOUS
    <3> QED
      BY <3>1
  <2>3. CASE s[i + 1] \in S
    <3>1. f[i + 1] = f[i] /\ Upto(i + 1) \ S = Upto(i) \ S
      BY <1>3, <2>1, <2>2, <2>3
    <3> HIDE DEF Upto
    <3> QED
      BY <2>1, <3>1
  <2>4. CASE s[i + 1] \notin S
    <3>1. f[i + 1] = Append(f[i], s[i + 1])
      BY <1>3, <2>1, <2>4
    <3> DEFINE t == f[i]
               u == Append(t, s[i + 1])
    <3>2. t \in Seq(M)
      BY <2>1
    <3>3. /\ u \in Seq(M) /\ Len(u) = Len(t) + 1 /\ Len(t) \in Nat
          /\ DOMAIN t = 1 .. Len(t) /\ DOMAIN u = 1 .. Len(t) + 1
          /\ u[Len(t) + 1] = s[i + 1] /\ \A k \in 1 .. Len(t) : u[k] = t[k]
      <4> HIDE DEF t
      <4> QED
        BY <2>1, <3>2
    <3> HIDE DEF t, u
    <3>4. ToSet(u) = ToSet(t) \cup {s[i + 1]}
      <4>1. ASSUME NEW k \in DOMAIN u PROVE u[k] \in ToSet(t) \cup {s[i + 1]}
        BY <3>3 DEF ToSet
      <4>2. s[i + 1] \in ToSet(u)
        BY <3>3 DEF ToSet
      <4>3. ASSUME NEW k \in DOMAIN t PROVE t[k] \in ToSet(u)
        BY <3>3 DEF ToSet
      <4> QED
        BY <4>1, <4>2, <4>3 DEF ToSet
    <3>5. ASSUME IsInjective(s) PROVE IsInjective(u)
      <4>1. s[i + 1] \notin Upto(i)
        BY <1>1, <2>1, <3>5 DEF IsInjective
      <4>2. s[i + 1] \notin ToSet(t) /\ IsInjective(t)
        BY <2>1, <3>5, <4>1 DEF t
      <4> QED
        BY <3>3, <4>2 DEF IsInjective, ToSet
    <3>6. f[i + 1] = u /\ ToSet(t) = Upto(i) \ S
      BY <2>1, <3>1 DEF t, u
    <3>7. ToSet(u) = Upto(i + 1) \ S
      <4> HIDE DEF Upto
      <4> QED
        BY <2>2, <2>4, <3>4, <3>6
    <3> QED
      BY <3>3, <3>5, <3>6, <3>7
  <2> QED
    BY <2>3, <2>4
<1> HIDE DEF G
<1>6. n \in G
  BY <1>1, <1>4, <1>5, NatSetInduction
<1>7. Good(n)
  BY <1>1, <1>6 DEF G
<1>8. Without(s, S) = f[n] /\ Upto(n) = ToSet(s)
  <2>1. Without(s, S) = f[n]
    BY WithoutIs DEF f
  <2> QED
    BY <1>1, <2>1 DEF ToSet
<1> QED
  BY <1>7, <1>8

-----------------------------------------------------------------------------
(* Types.                                                                  *)

Object == {"none", "content", "tombstone"}
Manifest == {"none", "pending", "stored", "tombstoned"}
Counts == [calls: Nat, faults: Nat, lapses: Nat, unflushed: Nat]
Leases == [owner: Workers \cup {Nobody}, live: BOOLEAN]

MemOK == DOMAIN mem \subseteq MemoryId /\ \A x \in DOMAIN mem : mem[x] \in {"active", "soft_deleted"}

\* The types of all variables, as the conjuncts that actions change.
LEMMA TypeNext ==
  ASSUME log' \in Seq(Messages), IsInjective(log'), hot' \in Seq(Messages), activity' \in BOOLEAN,
         tomb' \subseteq Messages, summary' \subseteq Messages, job' \in [Jobs -> Record],
         MemOK', started' \subseteq DOMAIN mem', done' \subseteq started',
         manifest' \in [Keys -> Manifest], object' \in [Keys -> Object], lease' \in Leases,
         pc' \in [Workers -> Labels], my' \in [Workers -> Locals], count' \in Counts
  PROVE  TypeOK'
  BY DEF TypeOK, MemOK, Manifest, Object, Leases, Labels, Counts

\* The same, of the present state.
LEMMA TypeNow ==
  ASSUME TypeOK
  PROVE  /\ log \in Seq(Messages) /\ IsInjective(log) /\ hot \in Seq(Messages) /\ activity \in BOOLEAN
         /\ tomb \subseteq Messages /\ summary \subseteq Messages /\ job \in [Jobs -> Record]
         /\ MemOK /\ started \subseteq DOMAIN mem /\ done \subseteq started
         /\ manifest \in [Keys -> Manifest] /\ object \in [Keys -> Object] /\ lease \in Leases
         /\ pc \in [Workers -> Labels] /\ my \in [Workers -> Locals] /\ count \in Counts
  BY DEF TypeOK, MemOK, Manifest, Object, Leases, Labels, Counts

\* The fields of a record of locals.
LEMMA Fields ==
  ASSUME NEW l \in Locals
  PROVE  /\ l.op \in {"none"} \cup Operations /\ l.m \in Messages /\ l.j \in Jobs \cup {<<>>}
         /\ l.k \in Keys \cup {<<>>} /\ l.x \in MemoryId \cup {NoId} /\ l.rec \in Record
         /\ l.tail \in Seq(Messages) /\ l.seen \in Seq(Messages) /\ l.sum \subseteq Messages
         /\ l.barred \subseteq Messages /\ l.todo \subseteq Messages /\ l.keys \subseteq Keys
         /\ l.ids \subseteq MemoryId /\ l.affected \subseteq MemoryId
         /\ l.covered \subseteq Messages /\ l.ok \in BOOLEAN
  BY DEF Locals

\* The fields of a consolidation record.
LEMMA RecordFields ==
  ASSUME NEW r \in Record
  PROVE  /\ r.input \in Seq(Messages) /\ r.plan \in Seq(SUBSET Messages)
         /\ r.archived \in BOOLEAN /\ r.accepted \in Nat /\ Len(r.plan) \in Nat
         /\ r.status \in {"none", "running", "retry_pending", "completed", "failed"}
         /\ ToSet(r.input) \subseteq Messages
         /\ \A i \in 1 .. Len(r.plan) : r.plan[i] \subseteq Messages
<1>1. /\ r.input \in Seq(Messages) /\ r.plan \in Seq(SUBSET Messages)
      /\ r.archived \in BOOLEAN /\ r.accepted \in Nat
      /\ r.status \in {"none", "running", "retry_pending", "completed", "failed"}
  BY DEF Record
<1> QED
  BY <1>1 DEF ToSet

\* The locals of a caller at rest.
LEMMA NothingTyped ==
  /\ NoRecord \in Record /\ NoLocals \in Locals
  /\ NoLocals.op = "none" /\ NoLocals.barred = {} /\ NoLocals.sum = {} /\ NoLocals.ok
  /\ NoLocals.covered = {} /\ NoLocals.rec = NoRecord
<1>1. AnyMessage \in Messages
  BY SessionAssumption DEF AnyMessage
<1>2. NoRecord \in Record
  BY DEF NoRecord, Record
<1> QED
  BY <1>1, <1>2 DEF NoLocals, Locals

\* One caller moves to a label.
LEMMA GotoTyped ==
  ASSUME TypeOK, NEW w \in Workers, NEW label \in Labels, Goto(w, label)
  PROVE  /\ pc' \in [Workers -> Labels] /\ pc'[w] = label
         /\ \A v \in Workers : v # w => pc'[v] = pc[v]
  BY TypeNow DEF Goto

\* One caller has new locals.
LEMMA MyTyped ==
  ASSUME TypeOK, NEW w \in Workers, NEW l \in Locals, my' = [my EXCEPT ![w] = l]
  PROVE  /\ my' \in [Workers -> Locals] /\ my'[w] = l
         /\ \A v \in Workers : v # w => my'[v] = my[v]
  BY TypeNow

\* Faults and calls are counted, lapses and failed invalidations are not touched.
CountKept ==
  count' \in Counts /\ count'.lapses = count.lapses /\ count'.unflushed = count.unflushed

LEMMA CountTyped ==
  ASSUME TypeOK, UNCHANGED count \/ Fault \/ count' = [count EXCEPT !.calls = @ + 1]
  PROVE  CountKept
<1>1. count \in Counts
  BY TypeNow
<1>2. CASE UNCHANGED count
  BY <1>1, <1>2 DEF CountKept
<1>3. CASE Fault
  BY <1>1, <1>3 DEF CountKept, Fault, Counts
<1>4. CASE count' = [count EXCEPT !.calls = @ + 1]
  BY <1>1, <1>4 DEF CountKept, Counts
<1> QED
  BY <1>2, <1>3, <1>4

-----------------------------------------------------------------------------
(* What a step does to others.                                             *)

Others(w) == \A v \in Workers : v # w => pc'[v] = pc[v] /\ my'[v] = my[v]

\* Nothing that was recorded, forgotten or erased is undone.
Grows ==
  /\ tomb \subseteq tomb' /\ DOMAIN mem \subseteq DOMAIN mem' /\ started \subseteq started'
  /\ \A x \in DOMAIN mem : mem[x] # "active" => mem'[x] # "active"
  /\ \A k \in Keys : object[k] # "none" => object'[k] # "none"
  /\ \A k \in Keys : object[k] = "tombstone" => object'[k] = "tombstone"
  /\ \A k \in Keys : Safe(k) => Safe(k)'

\* A key of a deep consolidation is one of the keys.
LEMMA DeepKey ==
  ASSUME NEW j \in Jobs, j[1] = "deep", NEW input \in Seq(Messages)
  PROVE  <<j, ToSet(input)>> \in Keys
<1>1. ToSet(input) \in SUBSET Messages
  BY DEF ToSet
<1>2. j \in Jobs \cap ({"deep"} \X Versions)
  BY DEF Jobs
<1> QED
  BY <1>1, <1>2 DEF Keys

\* The claims of a record stay true.
LEMMA RecordGrows ==
  ASSUME Grows, NEW j \in Jobs, NEW r \in Record, RecordOK(j, r)
  PROVE  RecordOK(j, r)'
<1>1. r.accepted \in Nat /\ Len(r.plan) \in Nat /\ r.input \in Seq(Messages)
  BY RecordFields
<1>2. j[1] = "deep" => <<j, ToSet(r.input)>> \in Keys
  BY <1>1, DeepKey
<1> QED
  BY <1>1, <1>2 DEF RecordOK, Grows

\* What is always true of another caller stays true.
LEMMA OthersBase ==
  ASSUME IInv, NEW w, Others(w), Grows, NEW v \in Workers, v # w
  PROVE  AssembleOK(v)' /\ WorkOK(v)' /\ EraseOK(v)'
<1>1. /\ TypeOK /\ AssembleOK(v) /\ WorkOK(v) /\ EraseOK(v) /\ pc'[v] = pc[v] /\ my'[v] = my[v]
  BY DEF IInv, Base, Others
<1>2. AssembleOK(v)'
  BY <1>1 DEF AssembleOK, Grows
<1>3. my[v].rec \in Record /\ my[v].rec.input \in Seq(Messages)
  BY <1>1, TypeNow, Fields, RecordFields
<1>4. WorkOK(v)'
  <2> SUFFICES ASSUME pc[v] \in WorkPcs PROVE WorkOK(v)'
    BY <1>1 DEF WorkOK
  <2>1. pc[v] \notin {"read", "load"} => RecordOK(my[v].j, my[v].rec)'
    BY <1>1, <1>3, RecordGrows DEF WorkOK
  <2>2. pc[v] \in Archiving => Key(v) \in Keys
    BY <1>1, <1>3, DeepKey DEF WorkOK, Key
  <2>3. pc[v] = "put" => Safe(Key(v))'
    <3> SUFFICES ASSUME pc[v] = "put" PROVE Safe(Key(v))'
      OBVIOUS
    <3>1. Key(v) \in Keys /\ Safe(Key(v)) /\ Key(v)' = Key(v)
      BY <1>1, <2>2 DEF WorkOK, Key, Archiving
    <3>2. \A k \in Keys : Safe(k) => Safe(k)'
      BY DEF Grows
    <3> QED
      BY <3>1, <3>2 DEF Safe
  <2>4. pc[v] \in {"stored", "archived"} => object'[Key(v)'] # "none"
    BY <1>1, <2>2 DEF WorkOK, Key, Grows, Archiving
  <2>5. pc[v] = "progress" => NextId(v)' \in DOMAIN mem'
    BY <1>1 DEF WorkOK, NextId, Grows
  <2> QED
    BY <1>1, <2>1, <2>3, <2>4, <2>5 DEF WorkOK
<1>5. EraseOK(v)'
  BY <1>1 DEF EraseOK, Grows, ErasePcs, Marked
<1> QED
  BY <1>2, <1>4, <1>5

\* The rows of the jobs stay true if no one writes them.
LEMMA JobsGrow ==
  ASSUME IInv, Grows, NEW j \in Jobs, job'[j] = job[j]
  PROVE  JobOK(j)'
<1>1. JobOK(j) /\ job[j] \in Record
  BY TypeNow DEF IInv, Base
<1> QED
  BY <1>1, RecordGrows DEF JobOK, RecordOK

\* A step that changes neither stores nor the lease of another.
StoresStill == UNCHANGED <<rows, hot, forget, archive>>
Still(w) == StoresStill /\ \A v \in Workers : v # w /\ Holds(v) => Holds(v)'

\* While no lease lapses, w may change the stores only as the holder of the lease, or
\* where no one holds it.
Alone(w) == Holds(w) \/ ~lease.live

\* What another caller may rely on under the lease stays so.
LEMMA OthersLeased ==
  ASSUME Leased, NEW w, Others(w), Alone(w) \/ Still(w), NEW v \in Workers, v # w
  PROVE  LeasedOK(v)'
<1>1. LeasedOK(v) /\ pc'[v] = pc[v] /\ my'[v] = my[v]
  BY DEF Leased, Others
<1>2. CASE Alone(w)
  <2>1. pc[v] \notin Leasing
    BY <1>1, <1>2 DEF LeasedOK, Alone, Holds
  <2> QED
    BY <1>1, <2>1 DEF LeasedOK, Leasing, ErasePcs, AppendPcs, WorkPcs, Marked
<1>3. CASE Still(w)
  <2>1. Holds(v) => Holds(v)'
    BY <1>3 DEF Still
  <2>2. UNCHANGED <<log, tomb, mem, summary, object>>
    BY <1>3 DEF Still, StoresStill, rows, archive
  <2> QED
    BY <1>1, <2>1, <2>2 DEF LeasedOK, Clean, Covers, Sharers
<1> QED
  BY <1>2, <1>3

\* So does what it knows of the cached tail.
LEMMA OthersCached ==
  ASSUME Leased, Cached, NEW w, Others(w), Alone(w) \/ Still(w), NEW v \in Workers, v # w
  PROVE  CacheLeased(v)'
<1>1. LeasedOK(v) /\ CacheLeased(v) /\ pc'[v] = pc[v] /\ my'[v] = my[v]
  BY DEF Leased, Cached, Others
<1>2. CASE Alone(w)
  <2>1. pc[v] \notin Leasing
    BY <1>1, <1>2 DEF LeasedOK, Alone, Holds
  <2> QED
    BY <1>1, <2>1 DEF CacheLeased, Leasing, ErasePcs, AppendPcs
<1>3. CASE Still(w)
  <2>1. UNCHANGED <<log, hot>>
    BY <1>3 DEF Still, StoresStill, rows
  <2> QED
    BY <1>1, <2>1 DEF CacheLeased
<1> QED
  BY <1>2, <1>3

\* A step of w keeps the invariant if it keeps what is said of w and of the stores.
LEMMA StepKeeps ==
  ASSUME IInv, NEW w \in Workers, TypeOK', Others(w), Grows,
         AssembleOK(w)', WorkOK(w)', EraseOK(w)',
         \A j \in Jobs : JobOK(j)', \A k \in Keys : Findable(k)', \A x \in done' : DoneOK(x)',
         count'.lapses = count.lapses, count'.unflushed = 0 => count.unflushed = 0,
         NoLapse => /\ Alone(w) \/ Still(w)
                    /\ LeasedOK(w)' /\ \A x \in done' : Erased(x)',
         Flushed' => CacheOK(hot, log)' /\ CacheLeased(w)'
  PROVE  IInv'
<1>1. \A v \in Workers : AssembleOK(v)' /\ WorkOK(v)' /\ EraseOK(v)'
  BY OthersBase
<1>2. Base'
  BY <1>1 DEF Base
<1>3. ASSUME NoLapse' PROVE Leased'
  <2>1. NoLapse /\ Leased
    BY <1>3 DEF IInv, NoLapse
  <2>2. \A v \in Workers : LeasedOK(v)'
    BY <2>1, OthersLeased
  <2> QED
    BY <2>1, <2>2 DEF Leased
<1>4. ASSUME Flushed' PROVE Cached'
  <2>1. NoLapse /\ Leased /\ Cached
    BY <1>4 DEF IInv, NoLapse, Flushed
  <2>2. \A v \in Workers : CacheLeased(v)'
    BY <1>4, <2>1, OthersCached
  <2> QED
    BY <1>4, <2>2 DEF Cached
<1> QED
  BY <1>2, <1>3, <1>4 DEF IInv

\* The facts of a step that touches no store.
LEMMA StillGrows ==
  ASSUME IInv, StoresStill
  PROVE  /\ Grows
         /\ \A j \in Jobs : JobOK(j)'
         /\ \A k \in Keys : Findable(k)'
         /\ \A x \in done' : DoneOK(x)'
         /\ NoLapse => \A x \in done' : Erased(x)'
         /\ (Flushed => CacheOK(hot, log)')
<1>1. /\ UNCHANGED <<log, hot, activity, tomb, job, mem, summary, started, done, manifest, object>>
      /\ \A j \in Jobs : JobOK(j)
      /\ \A k \in Keys : Findable(k)
      /\ \A x \in done : DoneOK(x)
  BY DEF StoresStill, rows, forget, archive, IInv, Base
<1>2. \A j \in Jobs : JobOK(j)'
  BY <1>1 DEF JobOK, RecordOK
<1>3. \A k \in Keys : Findable(k)'
  BY <1>1 DEF Findable
<1>4. \A x \in done' : DoneOK(x)'
  BY <1>1 DEF DoneOK
<1>5. NoLapse => \A x \in done' : Erased(x)'
  BY <1>1 DEF IInv, Leased, Erased, Clean
<1>6. Flushed => CacheOK(hot, log)'
  BY <1>1 DEF IInv, Cached, CacheOK, IsTail
<1>7. Grows
  BY <1>1 DEF Grows, Safe
<1> QED
  BY <1>2, <1>3, <1>4, <1>5, <1>6, <1>7

\* A step of w that touches no store keeps the invariant if it keeps what is said of w.
LEMMA QuietKeeps ==
  ASSUME IInv, NEW w \in Workers, StoresStill, Others(w),
         pc' \in [Workers -> Labels], my' \in [Workers -> Locals], lease' \in Leases, CountKept,
         AssembleOK(w)', WorkOK(w)', EraseOK(w)',
         NoLapse => (Alone(w) \/ Still(w)) /\ LeasedOK(w)',
         Flushed => CacheLeased(w)'
  PROVE  IInv'
<1>1. TypeOK'
  <2>1. UNCHANGED <<log, hot, activity, tomb, job, mem, summary, started, done, manifest, object>>
    BY DEF StoresStill, rows, forget, archive
  <2>2. TypeOK /\ count' \in Counts
    BY DEF IInv, Base, CountKept
  <2> QED
    BY <2>1, <2>2, TypeNow, TypeNext DEF MemOK
<1>2. Flushed' => Flushed
  BY DEF Flushed, CountKept
<1> QED
  BY <1>1, <1>2, StillGrows, StepKeeps DEF CountKept

\* Nothing is said of a caller at a control point of another kind.
LEMMA Elsewhere ==
  ASSUME NEW w
  PROVE  /\ pc'[w] \notin WorkPcs => WorkOK(w)'
         /\ pc'[w] \notin ErasePcs => EraseOK(w)'
         /\ pc'[w] \notin Leasing => LeasedOK(w)'
         /\ pc'[w] \notin {"replace", "purge", "purged", "scrub", "head"} => CacheLeased(w)'
         /\ pc'[w] \notin {"hot", "head", "fallback", "filter", "return"} /\ my'[w].barred \subseteq tomb' =>
              AssembleOK(w)'
         /\ pc'[w] \in {"release", "check", "tail", "replace", "activity"} /\ Holds(w)' => LeasedOK(w)'
  BY DEF WorkOK, EraseOK, LeasedOK, CacheLeased, AssembleOK, Leasing, AppendPcs, WorkPcs, ErasePcs,
         Intended, Barring, Marked

\* A step of w that touches neither a store nor the lease.
LEMMA MoveKeeps ==
  ASSUME IInv, NEW w \in Workers, NEW label \in Labels, Goto(w, label), StoresStill, UNCHANGED lease,
         CountKept, my' \in [Workers -> Locals], \A v \in Workers : v # w => my'[v] = my[v],
         AssembleOK(w)', WorkOK(w)', EraseOK(w)', NoLapse => LeasedOK(w)', Flushed => CacheLeased(w)'
  PROVE  IInv'
<1>1. TypeOK
  BY DEF IInv, Base
<1>2. pc' \in [Workers -> Labels] /\ Others(w)
  BY <1>1, GotoTyped DEF Others
<1>3. lease' \in Leases /\ Still(w)
  BY <1>1, TypeNow DEF Still, Holds
<1> QED
  BY <1>2, <1>3, QuietKeeps

\* The facts of one caller.
LEMMA CallerFacts ==
  ASSUME IInv, NEW w \in Workers
  PROVE  /\ TypeOK /\ AssembleOK(w) /\ WorkOK(w) /\ EraseOK(w) /\ my[w] \in Locals
         /\ my[w].barred \subseteq tomb
         /\ NoLapse => LeasedOK(w) /\ (pc[w] \in Leasing => Holds(w))
         /\ Flushed => NoLapse /\ CacheLeased(w)
<1>1. TypeOK /\ AssembleOK(w) /\ WorkOK(w) /\ EraseOK(w)
  BY DEF IInv, Base
<1>2. NoLapse => LeasedOK(w) /\ (pc[w] \in Leasing => Holds(w))
  BY DEF IInv, Leased, LeasedOK
<1>3. Flushed => NoLapse /\ CacheLeased(w)
  BY DEF IInv, Cached, Flushed, NoLapse
<1> QED
  BY <1>1, <1>2, <1>3, TypeNow DEF AssembleOK

\* A caller gives up what it was doing and is about to release the lease.
LEMMA GiveUpKeeps ==
  ASSUME IInv, NEW w \in Workers, pc[w] \in Leasing, Goto(w, "release"), StoresStill,
         UNCHANGED <<lease, my>>, CountKept
  PROVE  IInv'
<1>1. /\ TypeOK /\ my[w].barred \subseteq tomb /\ tomb' = tomb /\ my' \in [Workers -> Locals]
      /\ NoLapse => Holds(w)'
  BY CallerFacts, TypeNow DEF StoresStill, rows, Holds
<1>2. "release" \in Labels /\ pc'[w] = "release"
  BY <1>1, GotoTyped DEF Labels
<1>3. /\ AssembleOK(w)' /\ WorkOK(w)' /\ EraseOK(w)' /\ CacheLeased(w)'
      /\ NoLapse => LeasedOK(w)'
  BY <1>1, <1>2, Elsewhere DEF WorkPcs, ErasePcs
<1> QED
  BY <1>1, <1>2, <1>3, MoveKeeps

\* Who claims the lease is alone, if no lease has lapsed.
LEMMA ClaimHolds ==
  ASSUME NEW w \in Workers, Claim(w)
  PROVE  Alone(w) /\ Holds(w)' /\ lease' \in Leases
  BY DEF Claim, Claimable, Alone, Holds, Leases

\* A call that begins with the lease.
LEMMA StartKeeps ==
  ASSUME IInv, NEW w \in Workers, NEW op, NEW label \in {"check", "read", "verify", "intent"},
         LeasedCall(w, op, label), NEW l \in Locals, my' = [my EXCEPT ![w] = l],
         l.barred = {}, l.covered = {},
         label = "read" => l.j \in Jobs /\ l.op = l.j[1],
         label \in {"verify", "intent"} => l.x \in DOMAIN mem
  PROVE  IInv'
<1>1. /\ TypeOK /\ Claim(w) /\ StoresStill /\ Goto(w, label) /\ label \in Labels
      /\ count' = [count EXCEPT !.calls = @ + 1]
  BY CallerFacts DEF LeasedCall, Call, StoresStill, Labels, AppendPcs, WorkPcs, ErasePcs
<1>2. CountKept
  BY <1>1, CountTyped
<1>3. /\ pc' \in [Workers -> Labels] /\ my' \in [Workers -> Locals] /\ Others(w)
      /\ pc'[w] = label /\ my'[w] = l
  <2>1. /\ pc' \in [Workers -> Labels] /\ pc'[w] = label
        /\ \A v \in Workers : v # w => pc'[v] = pc[v]
    BY <1>1, GotoTyped
  <2>2. /\ my' \in [Workers -> Locals] /\ my'[w] = l
        /\ \A v \in Workers : v # w => my'[v] = my[v]
    BY <1>1, MyTyped
  <2> QED
    BY <2>1, <2>2 DEF Others
<1>4. Alone(w) /\ Holds(w)' /\ lease' \in Leases
  BY <1>1, ClaimHolds
<1>5. mem' = mem
  BY <1>1 DEF StoresStill, rows
<1>6. AssembleOK(w)' /\ CacheLeased(w)'
  BY <1>3, Elsewhere
<1>7. WorkOK(w)'
  BY <1>3 DEF WorkOK, Archiving, Accepting, WorkPcs
<1>8. EraseOK(w)'
  BY <1>3, <1>5 DEF EraseOK, Intended, Barring, Marked, ErasePcs
<1>9. LeasedOK(w)'
  BY <1>3, <1>4 DEF LeasedOK, Marked, WorkPcs
<1> QED
  BY <1>1, <1>2, <1>3, <1>4, <1>6, <1>7, <1>8, <1>9, QuietKeeps

-----------------------------------------------------------------------------
(* append_session_message.                                                 *)

\* An append begins.
LEMMA StartAppendKeeps ==
  ASSUME IInv, NEW w \in Workers, NEW m \in Messages, StartAppend(w, m)
  PROVE  IInv'
<1> DEFINE l == [NoLocals EXCEPT !.op = "append", !.m = m]
<1>1. l \in Locals /\ l.barred = {} /\ l.covered = {}
  <2>1. "append" \in Operations
    BY DEF StartAppend, LeasedCall, Call
  <2> QED
    BY <2>1, NothingTyped DEF Locals
<1>2. LeasedCall(w, "append", "check") /\ my' = [my EXCEPT ![w] = l]
  BY DEF StartAppend
<1> HIDE DEF l
<1> QED
  BY <1>1, <1>2, StartKeeps

\* A forgotten message is refused; another is not forgotten while the lease lasts.
LEMMA CheckMessageKeeps ==
  ASSUME IInv, NEW w \in Workers, CheckMessage(w)
  PROVE  IInv'
<1>1. /\ TypeOK /\ StoresStill /\ UNCHANGED <<lease, my, count>> /\ pc[w] \in Leasing
      /\ CountKept /\ my' \in [Workers -> Locals] /\ my[w].barred \subseteq tomb
  BY CallerFacts, CountTyped, TypeNow DEF CheckMessage, StoresStill, Leasing, AppendPcs
<1>2. CASE Goto(w, "release")
  BY <1>1, <1>2, GiveUpKeeps
<1>3. CASE my[w].m \notin tomb /\ Goto(w, "insert")
  <2>1. "insert" \in Labels /\ pc'[w] = "insert" /\ tomb' = tomb
    BY <1>1, <1>3, GotoTyped DEF Labels, AppendPcs, StoresStill, rows
  <2>2. NoLapse => Holds(w)'
    BY <1>1, CallerFacts DEF Holds
  <2>3. AssembleOK(w)' /\ WorkOK(w)' /\ EraseOK(w)' /\ CacheLeased(w)'
    BY <1>1, <2>1, Elsewhere DEF WorkPcs, ErasePcs
  <2>4. NoLapse => LeasedOK(w)'
    BY <1>1, <1>3, <2>1, <2>2 DEF LeasedOK, WorkPcs, Marked
  <2> QED
    BY <1>1, <1>3, <2>1, <2>3, <2>4, MoveKeeps
<1> QED
  BY <1>2, <1>3 DEF CheckMessage

\* The holder of the lease writes a store.
LEMMA WriteKeeps ==
  ASSUME IInv, NEW w \in Workers, pc[w] \in Leasing, TypeOK', Others(w), Grows, CountKept,
         AssembleOK(w)', WorkOK(w)', EraseOK(w)',
         \A j \in Jobs : JobOK(j)', \A k \in Keys : Findable(k)', \A x \in done' : DoneOK(x)',
         NoLapse => LeasedOK(w)' /\ \A x \in done' : Erased(x)',
         Flushed => CacheOK(hot, log)' /\ CacheLeased(w)'
  PROVE  IInv'
<1>1. NoLapse => Alone(w)
  BY CallerFacts DEF Alone
<1>2. /\ Flushed' => Flushed
      /\ count'.lapses = count.lapses /\ (count'.unflushed = 0 => count.unflushed = 0)
  BY DEF Flushed, CountKept
<1> QED
  BY <1>1, <1>2, StepKeeps

\* The parts of the invariant that are about the stores alone.
LEMMA StoreFacts ==
  ASSUME IInv
  PROVE  /\ TypeOK /\ \A j \in Jobs : JobOK(j)
         /\ \A k \in Keys : Findable(k)
         /\ \A x \in done : DoneOK(x) /\ x \in DOMAIN mem /\ x \in MemoryId
         /\ NoLapse => \A x \in done : Erased(x)
         /\ Flushed => CacheOK(hot, log)
  BY TypeNow DEF IInv, Base, Leased, Cached, MemOK

\* What session_tail returns.
LEMMA TailFacts ==
  ASSUME TypeOK
  PROVE  SessionTail(TailLimit) \in Seq(Messages) /\ CacheOK(SessionTail(TailLimit), log)
<1> DEFINE t == SessionTail(TailLimit)
           n == Len(log)
<1>1. log \in Seq(Messages) /\ n \in Nat /\ TailLimit \in Nat /\ TailLimit >= 1
  BY TypeNow, SessionAssumption
<1>2. CASE n <= TailLimit
  <2>1. t = log
    BY <1>2 DEF SessionTail
  <2>2. CASE n = 0
    BY <1>1, <2>1, <2>2 DEF CacheOK
  <2>3. CASE n \in 1 .. n
    <3>1. IsTail(t, log, n)
      BY <1>1, <1>2, <2>1 DEF IsTail
    <3> QED
      BY <1>1, <2>1, <2>3, <3>1 DEF CacheOK
  <2> QED
    BY <1>1, <2>2, <2>3
<1>3. CASE ~(n <= TailLimit)
  <2>1. t = SubSeq(log, n - TailLimit + 1, n) /\ n - TailLimit + 1 \in 1 .. n /\ n \in 1 .. n
    BY <1>1, <1>3 DEF SessionTail
  <2>2. t \in Seq(Messages) /\ Len(t) = TailLimit
    BY <1>1, <1>3, <2>1
  <2>3. \A i \in 1 .. TailLimit : t[i] = log[n - TailLimit + i]
    BY <1>1, <1>3, <2>1
  <2>4. IsTail(t, log, n)
    BY <1>3, <2>2, <2>3 DEF IsTail
  <2> QED
    BY <2>1, <2>2, <2>4 DEF CacheOK
<1> QED
  BY <1>2, <1>3

\* A cached tail remains one when a message is added.
LEMMA CacheGrows ==
  ASSUME NEW h \in Seq(Messages), NEW s \in Seq(Messages), NEW m \in Messages, CacheOK(h, s)
  PROVE  CacheOK(h, Append(s, m))
<1> SUFFICES ASSUME h # <<>> PROVE \E n \in 1 .. Len(Append(s, m)) : IsTail(h, Append(s, m), n)
  BY DEF CacheOK
<1>1. PICK n \in 1 .. Len(s) : IsTail(h, s, n)
  BY DEF CacheOK
<1> DEFINE u == Append(s, m)
<1>2. /\ Len(u) = Len(s) + 1 /\ Len(s) \in Nat /\ Len(h) \in Nat /\ \A i \in 1 .. Len(s) : u[i] = s[i]
  OBVIOUS
<1>3. Len(h) <= n /\ n \in 1 .. Len(u)
  BY <1>1, <1>2, SessionAssumption DEF IsTail
<1> HIDE DEF u
<1>4. ASSUME NEW i \in 1 .. Len(h) PROVE h[i] = u[n - Len(h) + i]
  <2>1. n - Len(h) + i \in 1 .. Len(s)
    BY <1>2, <1>3
  <2> QED
    BY <1>1, <1>2, <2>1 DEF IsTail
<1>5. IsTail(h, u, n)
  BY <1>1, <1>4 DEF IsTail
<1> QED
  BY <1>3, <1>5 DEF u

\* The message is appended unless it is there already.
LEMMA InsertMessageKeeps ==
  ASSUME IInv, NEW w \in Workers, InsertMessage(w)
  PROVE  IInv'
<1> DEFINE m == my[w].m
<1>1. /\ TypeOK /\ my[w] \in Locals /\ my[w].barred \subseteq tomb /\ pc[w] = "insert" /\ m \in Messages
      /\ Goto(w, "tail") /\ log' = Inserted(m) /\ pc[w] \in Leasing /\ "tail" \in Labels
      /\ UNCHANGED <<hot, activity, tomb, job, mem, summary, started, done, manifest, object, lease, my, count>>
  BY CallerFacts, Fields DEF InsertMessage, forget, archive, Leasing, Labels, AppendPcs
<1>2. /\ pc' \in [Workers -> Labels] /\ pc'[w] = "tail" /\ Others(w)
  BY <1>1, GotoTyped DEF Others
<1>3. /\ log' = log \/ (log' = Append(log, m) /\ m \notin ToSet(log))
      /\ log \in Seq(Messages) /\ IsInjective(log)
  BY <1>1, TypeNow DEF Inserted
<1>4. log' \in Seq(Messages) /\ IsInjective(log') /\ ToSet(log') \subseteq ToSet(log) \cup {m}
  <2>1. CASE log' = log
    BY <1>3, <2>1
  <2>2. CASE log' = Append(log, m) /\ m \notin ToSet(log)
    <3>1. /\ DOMAIN log = 1 .. Len(log) /\ Len(log) \in Nat /\ DOMAIN log' = 1 .. Len(log) + 1
          /\ log' \in Seq(Messages) /\ log'[Len(log) + 1] = m
          /\ \A i \in 1 .. Len(log) : log'[i] = log[i]
      BY <1>1, <1>3, <2>2
    <3>2. ASSUME NEW i \in DOMAIN log' PROVE log'[i] \in ToSet(log) \cup {m}
      BY <3>1 DEF ToSet
    <3>3. \A i \in 1 .. Len(log) : log'[i] # m
      BY <2>2, <3>1 DEF ToSet
    <3>4. \A i, k \in 1 .. Len(log) : log'[i] = log'[k] => i = k
      BY <1>3, <3>1 DEF IsInjective
    <3>5. \A i \in DOMAIN log' : i \in 1 .. Len(log) \/ (i = Len(log) + 1 /\ log'[i] = m)
      BY <3>1
    <3> HIDE DEF m
    <3>6. ASSUME NEW i \in DOMAIN log', NEW k \in DOMAIN log', log'[i] = log'[k] PROVE i = k
      BY <3>3, <3>4, <3>5, <3>6
    <3>7. IsInjective(log')
      BY <3>6 DEF IsInjective
    <3> QED
      BY <3>1, <3>2, <3>7 DEF ToSet
  <2> QED
    BY <1>3, <2>1, <2>2
<1>5. TypeOK' /\ CountKept
  BY <1>1, <1>2, <1>4, TypeNow, TypeNext, CountTyped DEF MemOK
<1>6. Grows
  BY <1>1 DEF Grows, Safe
<1>7. /\ \A j \in Jobs : JobOK(j)'
      /\ \A k \in Keys : Findable(k)'
      /\ \A x \in done' : DoneOK(x)'
  BY <1>1, <1>6, StoreFacts, JobsGrow DEF Findable, DoneOK
<1>8. AssembleOK(w)' /\ WorkOK(w)' /\ EraseOK(w)' /\ CacheLeased(w)'
  BY <1>1, <1>2, Elsewhere DEF WorkPcs, ErasePcs
<1>9. NoLapse => LeasedOK(w)'
  BY <1>1, <1>2, CallerFacts, Elsewhere DEF Holds
<1>10. ASSUME NoLapse PROVE \A x \in done' : Erased(x)'
  <2>1. m \notin tomb
    BY <1>1, <1>10, CallerFacts DEF LeasedOK
  <2>2. ASSUME NEW x \in done PROVE x.sources \subseteq tomb /\ Erased(x)
    BY <1>10, StoreFacts DEF DoneOK
  <2> QED
    BY <1>1, <1>4, <2>1, <2>2 DEF Erased, Clean
<1>11. Flushed => CacheOK(hot, log)'
  <2>1. Flushed => CacheOK(hot, log) /\ hot \in Seq(Messages)
    BY <1>1, StoreFacts, TypeNow
  <2> HIDE DEF m
  <2>2. Flushed => CacheOK(hot, log')
    BY <1>1, <1>3, <2>1, CacheGrows
  <2> QED
    BY <1>1, <2>2 DEF CacheOK, IsTail
<1> QED
  BY <1>1, <1>2, <1>5, <1>6, <1>7, <1>8, <1>9, <1>10, <1>11, WriteKeeps

\* The tail is read under the lease.
LEMMA ReadTailKeeps ==
  ASSUME IInv, NEW w \in Workers, ReadTail(w)
  PROVE  IInv'
<1> DEFINE t == SessionTail(TailLimit)
           l == [my[w] EXCEPT !.tail = t]
<1>1. /\ TypeOK /\ my[w] \in Locals /\ my[w].barred \subseteq tomb /\ pc[w] \in Leasing
      /\ StoresStill /\ UNCHANGED <<lease, count>> /\ Goto(w, "replace") /\ "replace" \in Labels
      /\ my' = [my EXCEPT ![w] = l] /\ CountKept
  BY CallerFacts, CountTyped DEF ReadTail, StoresStill, Leasing, Labels, AppendPcs
<1>2. t \in Seq(Messages) /\ CacheOK(t, log)
  BY <1>1, TailFacts
<1> HIDE DEF t
<1>3. l \in Locals /\ l.tail = t /\ l.barred = my[w].barred
  BY <1>1, <1>2 DEF Locals
<1> HIDE DEF l
<1>4. /\ my' \in [Workers -> Locals] /\ my'[w] = l /\ \A v \in Workers : v # w => my'[v] = my[v]
      /\ pc'[w] = "replace" /\ tomb' = tomb /\ log' = log
  BY <1>1, <1>3, MyTyped, GotoTyped DEF StoresStill, rows
<1>5. AssembleOK(w)' /\ WorkOK(w)' /\ EraseOK(w)'
  BY <1>1, <1>3, <1>4, Elsewhere DEF WorkPcs, ErasePcs
<1>6. NoLapse => LeasedOK(w)'
  BY <1>1, <1>4, CallerFacts, Elsewhere DEF Holds
<1>7. CacheLeased(w)'
  BY <1>2, <1>3, <1>4 DEF CacheLeased, CacheOK, IsTail
<1> QED
  BY <1>1, <1>4, <1>5, <1>6, <1>7, MoveKeeps

\* The hot tail is replaced by the one that was read, or the failure is ignored.
LEMMA ReplaceHotTailKeeps ==
  ASSUME IInv, NEW w \in Workers, ReplaceHotTail(w)
  PROVE  IInv'
<1>1. /\ TypeOK /\ my[w] \in Locals /\ my[w].barred \subseteq tomb /\ pc[w] = "replace"
      /\ Goto(w, "activity") /\ pc[w] \in Leasing /\ "activity" \in Labels
      /\ UNCHANGED <<log, activity, tomb, job, mem, summary, started, done, manifest, object, lease, my>>
      /\ (hot' = my[w].tail /\ UNCHANGED count) \/ (Fault /\ UNCHANGED hot)
      /\ my[w].tail \in Seq(Messages)
  BY CallerFacts, Fields DEF ReplaceHotTail, rows, forget, archive, Leasing, Labels, AppendPcs
<1>2. /\ pc' \in [Workers -> Labels] /\ pc'[w] = "activity" /\ Others(w)
  BY <1>1, GotoTyped DEF Others
<1>3. TypeOK' /\ CountKept
  <2>1. CountKept
    BY <1>1, CountTyped
  <2>2. hot' \in Seq(Messages)
    BY <1>1, TypeNow
  <2> QED
    BY <1>1, <1>2, <2>1, <2>2, TypeNow, TypeNext DEF MemOK, CountKept
<1>4. Grows
  BY <1>1 DEF Grows, Safe
<1>5. /\ \A j \in Jobs : JobOK(j)'
      /\ \A k \in Keys : Findable(k)'
      /\ \A x \in done' : DoneOK(x)'
      /\ NoLapse => \A x \in done' : Erased(x)'
  BY <1>1, <1>4, StoreFacts, JobsGrow DEF Findable, DoneOK, Erased, Clean
<1>6. AssembleOK(w)' /\ WorkOK(w)' /\ EraseOK(w)' /\ CacheLeased(w)'
  BY <1>1, <1>2, Elsewhere DEF WorkPcs, ErasePcs
<1>7. NoLapse => LeasedOK(w)'
  BY <1>1, <1>2, CallerFacts, Elsewhere DEF Holds
<1>8. Flushed => CacheOK(hot, log)'
  <2>1. Flushed => CacheOK(hot, log) /\ CacheOK(my[w].tail, log)
    BY <1>1, StoreFacts, CallerFacts DEF CacheLeased
  <2>2. hot' = hot \/ hot' = my[w].tail
    BY <1>1
  <2>3. Flushed => CacheOK(hot', log)
    BY <2>1, <2>2
  <2> QED
    BY <1>1, <2>3 DEF CacheOK, IsTail
<1> QED
  BY <1>1, <1>2, <1>3, <1>4, <1>5, <1>6, <1>7, <1>8, WriteKeeps

\* The activity of the session is recorded.
LEMMA SaveActivityKeeps ==
  ASSUME IInv, NEW w \in Workers, SaveActivity(w)
  PROVE  IInv'
<1>1. /\ TypeOK /\ my[w].barred \subseteq tomb
      /\ Goto(w, "release") /\ pc[w] \in Leasing /\ "release" \in Labels /\ activity' \in BOOLEAN
      /\ UNCHANGED <<log, hot, tomb, job, mem, summary, started, done, manifest, object, lease, my, count>>
  BY CallerFacts DEF SaveActivity, forget, archive, Leasing, Labels, AppendPcs
<1>2. /\ pc' \in [Workers -> Labels] /\ pc'[w] = "release" /\ Others(w)
  BY <1>1, GotoTyped DEF Others
<1>3. TypeOK' /\ CountKept
  BY <1>1, <1>2, TypeNow, TypeNext, CountTyped DEF MemOK
<1>4. Grows
  BY <1>1 DEF Grows, Safe
<1>5. /\ \A j \in Jobs : JobOK(j)'
      /\ \A k \in Keys : Findable(k)'
      /\ \A x \in done' : DoneOK(x)'
      /\ NoLapse => \A x \in done' : Erased(x)'
      /\ Flushed => CacheOK(hot, log)'
  BY <1>1, <1>4, StoreFacts, JobsGrow DEF Findable, DoneOK, Erased, Clean, CacheOK, IsTail
<1>6. AssembleOK(w)' /\ WorkOK(w)' /\ EraseOK(w)' /\ CacheLeased(w)'
  BY <1>1, <1>2, Elsewhere DEF WorkPcs, ErasePcs
<1>7. NoLapse => LeasedOK(w)'
  BY <1>1, <1>2, CallerFacts, Elsewhere DEF Holds
<1> QED
  BY <1>1, <1>2, <1>3, <1>4, <1>5, <1>6, <1>7, WriteKeeps

-----------------------------------------------------------------------------
(* The lease, errors and crashes.                                          *)

\* A caller comes to rest, having dropped the lease or left it to no one.
LEMMA RestKeeps ==
  ASSUME IInv, NEW w \in Workers, StoresStill, Goto(w, "idle"), my' = [my EXCEPT ![w] = NoLocals],
         CountKept, lease' \in Leases, lease' = lease \/ lease.owner = w
  PROVE  IInv'
<1>1. TypeOK /\ "idle" \in Labels
  BY CallerFacts DEF Labels
<1>2. /\ pc' \in [Workers -> Labels] /\ my' \in [Workers -> Locals] /\ Others(w)
      /\ pc'[w] = "idle" /\ my'[w].barred = {}
  BY <1>1, GotoTyped, MyTyped, NothingTyped DEF Others
<1>3. /\ AssembleOK(w)' /\ WorkOK(w)' /\ EraseOK(w)' /\ CacheLeased(w)' /\ LeasedOK(w)'
  BY <1>2, Elsewhere DEF WorkPcs, ErasePcs, Leasing, AppendPcs
<1>4. Still(w)
  BY DEF Still, Holds
<1> QED
  BY <1>2, <1>3, <1>4, QuietKeeps

\* The lease is released if it is still the caller's.
LEMMA ReleaseKeeps ==
  ASSUME IInv, NEW w \in Workers, Release(w)
  PROVE  IInv'
<1>1. /\ TypeOK /\ StoresStill /\ UNCHANGED count /\ Goto(w, "idle")
      /\ my' = [my EXCEPT ![w] = NoLocals]
      /\ lease' = IF lease.owner = w THEN [owner |-> Nobody, live |-> FALSE] ELSE lease
  BY CallerFacts DEF Release, StoresStill
<1>2. CountKept /\ lease' \in Leases
  BY <1>1, CountTyped, TypeNow DEF Leases
<1> QED
  BY <1>1, <1>2, RestKeeps

\* A crash leaves the lease to no one, until it expires.
LEMMA CrashKeeps ==
  ASSUME IInv, NEW w \in Workers, Crash(w)
  PROVE  IInv'
<1>1. /\ TypeOK /\ StoresStill /\ Fault /\ Goto(w, "idle")
      /\ my' = [my EXCEPT ![w] = NoLocals]
      /\ lease' = IF lease.owner = w THEN [lease EXCEPT !.owner = Nobody] ELSE lease
  BY CallerFacts DEF Crash, StoresStill
<1>2. CountKept /\ lease' \in Leases
  BY <1>1, CountTyped, TypeNow DEF Leases
<1> QED
  BY <1>1, <1>2, RestKeeps

\* An error the caller is told of at once.
LEMMA FailCallKeeps ==
  ASSUME IInv, NEW w \in Workers, FailCall(w)
  PROVE  IInv'
<1>1. /\ TypeOK /\ StoresStill /\ Fault /\ Goto(w, "release") /\ UNCHANGED <<lease, my>>
      /\ pc[w] \in Leasing
  BY CallerFacts DEF FailCall, StoresStill, Leasing, AppendPcs, WorkPcs, ErasePcs
<1> QED
  BY <1>1, CountTyped, GiveUpKeeps

\* The lease of a dead caller expires; that of another only by a lapse.
LEMMA ExpireLeaseKeeps ==
  ASSUME IInv, ExpireLease
  PROVE  IInv'
<1>1. /\ TypeOK /\ StoresStill /\ UNCHANGED <<pc, my>> /\ lease' = [lease EXCEPT !.live = FALSE]
      /\ \/ lease.owner = Nobody /\ UNCHANGED count
         \/ count' = [count EXCEPT !.faults = @ + 1, !.lapses = @ + 1]
  BY DEF ExpireLease, StoresStill, IInv, Base
<1>2. /\ lease' \in Leases /\ count' \in Counts /\ pc \in [Workers -> Labels]
      /\ (lease.owner = Nobody /\ UNCHANGED count) \/ count'.lapses # 0
  <2>1. lease' \in Leases /\ count \in Counts /\ pc \in [Workers -> Labels]
    BY <1>1, TypeNow DEF Leases
  <2> DEFINE c == [count EXCEPT !.faults = @ + 1, !.lapses = @ + 1]
  <2>2. c \in Counts /\ c.lapses # 0
    <3>1. count.lapses \in Nat /\ count.faults \in Nat
      BY <2>1 DEF Counts
    <3>2. c.lapses = count.lapses + 1
      BY <2>1 DEF Counts
    <3>3. c \in Counts
      <4> DEFINE b == [count EXCEPT !.faults = @ + 1]
      <4>1. b \in Counts /\ count.lapses + 1 \in Nat
        BY <2>1, <3>1 DEF Counts
      <4>2. c = [b EXCEPT !.lapses = count.lapses + 1]
        OBVIOUS
      <4> HIDE DEF b
      <4> QED
        BY <4>1, <4>2 DEF Counts
    <3> QED
      BY <3>1, <3>2, <3>3
  <2>3. (lease.owner = Nobody /\ UNCHANGED count) \/ count' = c
    BY <1>1
  <2> HIDE DEF c
  <2> QED
    BY <2>1, <2>2, <2>3
<1>3. UNCHANGED <<log, hot, activity, tomb, job, mem, summary, started, done, manifest, object>>
  BY <1>1 DEF StoresStill, rows, forget, archive
<1>4. TypeOK'
  BY <1>1, <1>2, <1>3, TypeNow, TypeNext DEF MemOK
<1>5. \A w \in Workers : AssembleOK(w)' /\ WorkOK(w)' /\ EraseOK(w)'
  <2> SUFFICES ASSUME NEW w \in Workers PROVE AssembleOK(w)' /\ WorkOK(w)' /\ EraseOK(w)'
    OBVIOUS
  <2>1. AssembleOK(w) /\ WorkOK(w) /\ EraseOK(w)
    BY CallerFacts
  <2>2. AssembleOK(w)' /\ EraseOK(w)'
    BY <1>1, <1>3, <2>1 DEF AssembleOK, EraseOK
  <2>3. WorkOK(w)'
    BY <1>1, <1>3, <2>1 DEF WorkOK, RecordOK, Safe, Key, NextId
  <2> QED
    BY <2>2, <2>3
<1>6. Base'
  BY <1>1, <1>4, <1>5, StillGrows DEF Base
<1>7. ASSUME NoLapse'
      PROVE  NoLapse /\ (Flushed' => Flushed) /\ lease.owner = Nobody
  BY <1>2, <1>7 DEF NoLapse, Flushed
<1>8. ASSUME NoLapse' PROVE Leased'
  <2>1. ASSUME NEW w \in Workers PROVE LeasedOK(w)'
    <3>1. LeasedOK(w) /\ ~Holds(w)
      BY <1>7, <1>8, CallerFacts, SessionAssumption DEF Holds
    <3>2. pc'[w] \notin Leasing
      BY <1>1, <3>1 DEF LeasedOK
    <3> QED
      BY <3>2, Elsewhere
  <2> QED
    BY <1>1, <1>7, <1>8, <2>1, StillGrows DEF Leased
<1>9. ASSUME Flushed' PROVE Cached'
  <2>1. Flushed /\ NoLapse'
    <3>1. NoLapse'
      BY <1>9 DEF Flushed, NoLapse
    <3> QED
      BY <1>7, <1>9, <3>1
  <2>2. ASSUME NEW w \in Workers PROVE CacheLeased(w)'
    BY <1>1, <1>3, <2>1, CallerFacts DEF CacheLeased
  <2> QED
    BY <1>1, <2>1, <2>2, StillGrows DEF Cached
<1> QED
  BY <1>6, <1>8, <1>9 DEF IInv

-----------------------------------------------------------------------------
(* assemble_working_context.                                               *)

\* An assembly moves on without the lease.
LEMMA AssembleKeeps ==
  ASSUME IInv, NEW w \in Workers, NEW label \in AssemblePcs, Goto(w, label), StoresStill,
         UNCHANGED lease, CountKept, NEW l \in Locals, my' = [my EXCEPT ![w] = l],
         l.barred \subseteq tomb, label # "summary" => l.sum \cap l.barred = {},
         label = "return" => ToSet(l.tail) \cap l.barred = {},
         Flushed /\ label = "head" => CacheOK(l.tail, l.seen) /\ IsInjective(l.seen)
  PROVE  IInv'
<1>1. TypeOK /\ label \in Labels /\ tomb' = tomb
  BY CallerFacts DEF Labels, StoresStill, rows
<1>2. /\ my' \in [Workers -> Locals] /\ my'[w] = l /\ \A v \in Workers : v # w => my'[v] = my[v]
  BY <1>1, MyTyped
<1>3. pc'[w] = label
  BY <1>1, GotoTyped
<1>4. WorkOK(w)' /\ EraseOK(w)' /\ LeasedOK(w)'
  BY <1>3, Elsewhere DEF AssemblePcs, WorkPcs, ErasePcs, Leasing, AppendPcs
<1>5. AssembleOK(w)'
  BY <1>1, <1>2, <1>3 DEF AssembleOK
<1>6. Flushed => CacheLeased(w)'
  <2>1. CASE label = "head"
    <3>1. Flushed => CacheOK(l.tail, l.seen) /\ IsInjective(l.seen)
      BY <2>1
    <3>2. my'[w].tail = l.tail /\ my'[w].seen = l.seen /\ pc'[w] = "head"
      BY <1>2, <1>3, <2>1
    <3>3. Flushed => CacheOK(my'[w].tail, my'[w].seen) /\ IsInjective(my'[w].seen)
      BY <3>1, <3>2
    <3>4. CacheOK(my[w].tail, my[w].seen)' = CacheOK(my'[w].tail, my'[w].seen)
      BY DEF CacheOK, IsTail
    <3>5. IsInjective(my[w].seen)' = IsInjective(my'[w].seen)
      BY DEF IsInjective
    <3> QED
      BY <3>2, <3>3, <3>4, <3>5 DEF CacheLeased
  <2>2. CASE label # "head"
    BY <1>3, <2>2, Elsewhere DEF AssemblePcs
  <2> QED
    BY <2>1, <2>2
<1> QED
  BY <1>1, <1>2, <1>4, <1>5, <1>6, MoveKeeps

\* An assembly begins.
LEMMA StartAssembleKeeps ==
  ASSUME IInv, NEW w \in Workers, StartAssemble(w)
  PROVE  IInv'
<1> DEFINE l == [NoLocals EXCEPT !.op = "assemble", !.barred = tomb]
<1>1. /\ TypeOK /\ StoresStill /\ UNCHANGED lease /\ Goto(w, "summary") /\ "assemble" \in Operations
      /\ count' = [count EXCEPT !.calls = @ + 1] /\ my' = [my EXCEPT ![w] = l]
  BY CallerFacts DEF StartAssemble, Call, StoresStill
<1>2. l \in Locals /\ l.barred = tomb
  BY <1>1, NothingTyped, TypeNow DEF Locals
<1> HIDE DEF l
<1> QED
  BY <1>1, <1>2, CountTyped, AssembleKeeps DEF AssemblePcs

\* The summary is left out if one of its messages is forgotten.
LEMMA ReadSummaryKeeps ==
  ASSUME IInv, NEW w \in Workers, ReadSummary(w)
  PROVE  IInv'
<1> DEFINE s == IF summary \cap tomb = {} THEN summary ELSE {}
           l == [my[w] EXCEPT !.sum = s]
<1>1. /\ TypeOK /\ StoresStill /\ UNCHANGED <<lease, count>> /\ Goto(w, "hot")
      /\ my' = [my EXCEPT ![w] = l] /\ my[w] \in Locals /\ my[w].barred \subseteq tomb
  BY CallerFacts DEF ReadSummary, StoresStill
<1>2. s \subseteq Messages /\ s \cap tomb = {}
  BY <1>1, TypeNow
<1> HIDE DEF s
<1>3. l \in Locals /\ l.barred = my[w].barred /\ l.sum = s
  BY <1>1, <1>2 DEF Locals
<1> HIDE DEF l
<1>4. l.sum \cap l.barred = {}
  BY <1>1, <1>2, <1>3
<1> QED
  BY <1>1, <1>3, <1>4, CountTyped, AssembleKeeps DEF AssemblePcs

\* Redis gives the tail that was cached, or an error.
LEMMA ReadHotTailKeeps ==
  ASSUME IInv, NEW w \in Workers, ReadHotTail(w)
  PROVE  IInv'
<1> DEFINE l == [my[w] EXCEPT !.tail = hot, !.seen = log]
<1>1. /\ TypeOK /\ StoresStill /\ UNCHANGED lease /\ my[w] \in Locals
      /\ my[w].barred \subseteq tomb /\ my[w].sum \cap my[w].barred = {}
      /\ \/ my' = [my EXCEPT ![w] = l] /\ Goto(w, "head") /\ UNCHANGED count
         \/ Fault /\ UNCHANGED my /\ Goto(w, "fallback")
  BY CallerFacts DEF ReadHotTail, StoresStill, AssembleOK
<1>2. CASE my' = [my EXCEPT ![w] = l] /\ Goto(w, "head") /\ UNCHANGED count
  <2>1. hot \in Seq(Messages) /\ log \in Seq(Messages) /\ IsInjective(log)
    BY <1>1, TypeNow
  <2>2. l \in Locals /\ l.barred = my[w].barred /\ l.sum = my[w].sum /\ l.tail = hot /\ l.seen = log
    BY <1>1, <2>1 DEF Locals
  <2> HIDE DEF l
  <2>3. Flushed => CacheOK(hot, log)
    BY StoreFacts
  <2> QED
    BY <1>1, <1>2, <2>1, <2>2, <2>3, CountTyped, AssembleKeeps DEF AssemblePcs
<1>3. CASE Fault /\ UNCHANGED my /\ Goto(w, "fallback")
  <2>1. my' = [my EXCEPT ![w] = my[w]]
    BY <1>1, <1>3, TypeNow
  <2> QED
    BY <1>1, <1>3, <2>1, CountTyped, AssembleKeeps DEF AssemblePcs
<1> QED
  BY <1>1, <1>2, <1>3

\* The head of the table decides whether the cached tail is used.
LEMMA ReadHeadKeeps ==
  ASSUME IInv, NEW w \in Workers, ReadHead(w)
  PROVE  IInv'
<1>1. /\ TypeOK /\ StoresStill /\ UNCHANGED <<lease, count, my>> /\ my[w] \in Locals
      /\ my[w].barred \subseteq tomb /\ my[w].sum \cap my[w].barred = {}
      /\ Goto(w, "filter") \/ Goto(w, "fallback")
  BY CallerFacts DEF ReadHead, StoresStill, AssembleOK
<1>2. my' = [my EXCEPT ![w] = my[w]]
  BY <1>1, TypeNow
<1> QED
  BY <1>1, <1>2, CountTyped, AssembleKeeps DEF AssemblePcs

\* Otherwise the tail is read from the table.
LEMMA ReadWarmTailKeeps ==
  ASSUME IInv, NEW w \in Workers, ReadWarmTail(w)
  PROVE  IInv'
<1> DEFINE t == SessionTail(TailLimit)
           l == [my[w] EXCEPT !.tail = t]
<1>1. /\ TypeOK /\ StoresStill /\ UNCHANGED <<lease, count>> /\ my[w] \in Locals
      /\ my[w].barred \subseteq tomb /\ my[w].sum \cap my[w].barred = {}
      /\ my' = [my EXCEPT ![w] = l] /\ Goto(w, "filter")
  BY CallerFacts DEF ReadWarmTail, StoresStill, AssembleOK
<1>2. t \in Seq(Messages)
  BY <1>1, TailFacts
<1> HIDE DEF t
<1>3. l \in Locals /\ l.barred = my[w].barred /\ l.sum = my[w].sum
  BY <1>1, <1>2 DEF Locals
<1> HIDE DEF l
<1> QED
  BY <1>1, <1>3, CountTyped, AssembleKeeps DEF AssemblePcs

\* What is forgotten by now is left out.
LEMMA FilterTailKeeps ==
  ASSUME IInv, NEW w \in Workers, FilterTail(w)
  PROVE  IInv'
<1> DEFINE t == Unforgotten(my[w].tail)
           l == [my[w] EXCEPT !.tail = t]
<1>1. /\ TypeOK /\ StoresStill /\ UNCHANGED <<lease, count>> /\ my[w] \in Locals
      /\ my[w].barred \subseteq tomb /\ my[w].sum \cap my[w].barred = {}
      /\ my' = [my EXCEPT ![w] = l] /\ Goto(w, "return") /\ my[w].tail \in Seq(Messages)
  BY CallerFacts, Fields DEF FilterTail, StoresStill, AssembleOK
<1>2. t \in Seq(Messages) /\ ToSet(t) \cap tomb = {}
  BY <1>1, WithoutFacts DEF Unforgotten
<1> HIDE DEF t
<1>3. l \in Locals /\ l.barred = my[w].barred /\ l.sum = my[w].sum /\ l.tail = t
  BY <1>1, <1>2 DEF Locals
<1> HIDE DEF l
<1>4. ToSet(l.tail) \cap l.barred = {}
  BY <1>1, <1>2, <1>3
<1> QED
  BY <1>1, <1>3, <1>4, CountTyped, AssembleKeeps DEF AssemblePcs

\* The context is answered.
LEMMA ReturnContextKeeps ==
  ASSUME IInv, NEW w \in Workers, ReturnContext(w)
  PROVE  IInv'
<1>1. /\ TypeOK /\ StoresStill /\ UNCHANGED <<lease, count>> /\ Goto(w, "idle")
      /\ my' = [my EXCEPT ![w] = NoLocals]
  BY CallerFacts DEF ReturnContext, StoresStill
<1> QED
  BY <1>1, CountTyped, TypeNow, RestKeeps

-----------------------------------------------------------------------------
(* consolidate_session.                                                    *)

\* What is known at a control point of a consolidation.
LEMMA WorkFacts ==
  ASSUME IInv, NEW w \in Workers, pc[w] \in WorkPcs
  PROVE  /\ TypeOK /\ my[w] \in Locals /\ my[w].rec \in Record /\ my[w].barred \subseteq tomb
         /\ my[w].j \in Jobs /\ my[w].op = my[w].j[1] /\ my[w].op \in {"fast", "deep"}
         /\ WorkOK(w) /\ pc[w] \in Leasing
         /\ pc[w] \notin {"read", "load"} => RecordOK(my[w].j, my[w].rec)
         /\ my[w].op = "deep" => Key(w) \in Keys
         /\ NoLapse => /\ Holds(w)
                       /\ pc[w] # "read" => ToSet(my[w].rec.input) \cap tomb = {}
<1>1. /\ TypeOK /\ my[w] \in Locals /\ my[w].rec \in Record /\ my[w].barred \subseteq tomb
      /\ WorkOK(w) /\ pc[w] \in Leasing /\ my[w].rec.input \in Seq(Messages)
  BY CallerFacts, Fields, RecordFields DEF Leasing
<1>2. my[w].j \in Jobs /\ my[w].op = my[w].j[1]
  BY <1>1 DEF WorkOK
<1>3. my[w].op \in {"fast", "deep"}
  BY <1>2 DEF Jobs, Lanes
<1>4. pc[w] \notin {"read", "load"} => RecordOK(my[w].j, my[w].rec)
  BY <1>1 DEF WorkOK
<1>5. my[w].op = "deep" => Key(w) \in Keys
  BY <1>1, <1>2, DeepKey DEF Key
<1>6. NoLapse => Holds(w) /\ (pc[w] # "read" => ToSet(my[w].rec.input) \cap tomb = {})
  BY <1>1, CallerFacts DEF LeasedOK
<1> QED
  BY <1>1, <1>2, <1>3, <1>4, <1>5, <1>6

\* A consolidation moves on with the same transcript.
LEMMA WorkStays ==
  ASSUME IInv, NEW w \in Workers, pc[w] \in WorkPcs \ {"read"}, NEW label \in WorkPcs \ {"read"},
         Goto(w, label), NEW l \in Locals, my' = [my EXCEPT ![w] = l],
         l.barred = my[w].barred, l.rec.input = my[w].rec.input, UNCHANGED tomb
  PROVE  /\ pc' \in [Workers -> Labels] /\ pc'[w] = label
         /\ my' \in [Workers -> Locals] /\ my'[w] = l /\ Others(w)
         /\ AssembleOK(w)' /\ EraseOK(w)' /\ CacheLeased(w)'
         /\ NoLapse /\ Holds(w)' => LeasedOK(w)'
<1>1. TypeOK /\ label \in Labels /\ my[w].barred \subseteq tomb
  BY WorkFacts DEF Labels
<1>2. /\ pc' \in [Workers -> Labels] /\ pc'[w] = label
      /\ my' \in [Workers -> Locals] /\ my'[w] = l /\ Others(w)
  <2>1. /\ pc' \in [Workers -> Labels] /\ pc'[w] = label
        /\ \A v \in Workers : v # w => pc'[v] = pc[v]
    BY <1>1, GotoTyped
  <2>2. /\ my' \in [Workers -> Locals] /\ my'[w] = l
        /\ \A v \in Workers : v # w => my'[v] = my[v]
    BY <1>1, MyTyped
  <2> QED
    BY <2>1, <2>2 DEF Others
<1>3. AssembleOK(w)' /\ EraseOK(w)' /\ CacheLeased(w)'
  BY <1>1, <1>2, Elsewhere DEF WorkPcs, ErasePcs
<1>4. NoLapse /\ Holds(w)' => LeasedOK(w)'
  BY <1>2, WorkFacts DEF LeasedOK, WorkPcs, Marked
<1> QED
  BY <1>2, <1>3, <1>4

\* The same, with nothing new in the locals.
LEMMA WorkStands ==
  ASSUME IInv, NEW w \in Workers, pc[w] \in WorkPcs \ {"read"}, NEW label \in WorkPcs \ {"read"},
         Goto(w, label), UNCHANGED <<my, tomb>>
  PROVE  /\ pc' \in [Workers -> Labels] /\ pc'[w] = label
         /\ my' \in [Workers -> Locals] /\ my'[w] = my[w] /\ Others(w)
         /\ AssembleOK(w)' /\ EraseOK(w)' /\ CacheLeased(w)'
         /\ NoLapse /\ Holds(w)' => LeasedOK(w)'
<1>1. my[w] \in Locals /\ my' = [my EXCEPT ![w] = my[w]]
  BY WorkFacts, TypeNow
<1> QED
  BY <1>1, WorkStays

\* A consolidation moves on, with no store written.
LEMMA WorkMoves ==
  ASSUME IInv, NEW w \in Workers, pc[w] \in WorkPcs \ {"read"}, NEW label \in WorkPcs \ {"read"},
         Goto(w, label), NEW l \in Locals, my' = [my EXCEPT ![w] = l],
         l.barred = my[w].barred, l.rec.input = my[w].rec.input,
         StoresStill, UNCHANGED lease \/ Claim(w), CountKept, WorkOK(w)'
  PROVE  IInv'
<1>1. tomb' = tomb /\ TypeOK
  BY CallerFacts DEF StoresStill, rows
<1>2. /\ pc' \in [Workers -> Labels] /\ my' \in [Workers -> Locals] /\ Others(w)
      /\ AssembleOK(w)' /\ EraseOK(w)' /\ CacheLeased(w)'
      /\ NoLapse /\ Holds(w)' => LeasedOK(w)'
  BY <1>1, WorkStays
<1>3. lease' \in Leases /\ (Alone(w) \/ Still(w)) /\ (NoLapse => Holds(w)')
  <2>1. CASE UNCHANGED lease
    BY <1>1, <2>1, TypeNow, WorkFacts DEF Still, Holds
  <2>2. CASE Claim(w)
    BY <2>2, ClaimHolds
  <2> QED
    BY <2>1, <2>2
<1> QED
  BY <1>2, <1>3, QuietKeeps

\* The work failed, whatever has been stored of it.
LEMMA WorkFailsFacts ==
  ASSUME IInv, NEW w \in Workers, pc[w] \in WorkPcs \ {"read", "load"}, WorkFails(w),
         UNCHANGED tomb, Grows
  PROVE  /\ \E l \in Locals : /\ my' = [my EXCEPT ![w] = l]
                              /\ l.barred = my[w].barred /\ l.rec = my[w].rec
         /\ Goto(w, "finish") /\ "finish" \in WorkPcs \ {"read"}
         /\ pc' \in [Workers -> Labels] /\ my' \in [Workers -> Locals] /\ Others(w)
         /\ WorkOK(w)' /\ AssembleOK(w)' /\ EraseOK(w)' /\ CacheLeased(w)'
         /\ NoLapse /\ Holds(w)' => LeasedOK(w)'
<1> DEFINE l == [my[w] EXCEPT !.ok = FALSE]
<1>1. /\ my' = [my EXCEPT ![w] = l] /\ Goto(w, "finish") /\ "finish" \in WorkPcs \ {"read"}
      /\ my[w] \in Locals
  BY WorkFacts DEF WorkFails, WorkPcs
<1>2. /\ l \in Locals /\ l.barred = my[w].barred /\ l.rec = my[w].rec /\ ~l.ok
      /\ l.j = my[w].j /\ l.op = my[w].op
  BY <1>1 DEF Locals
<1> HIDE DEF l
<1>3. /\ pc' \in [Workers -> Labels] /\ my' \in [Workers -> Locals] /\ Others(w)
      /\ AssembleOK(w)' /\ EraseOK(w)' /\ CacheLeased(w)'
      /\ NoLapse /\ Holds(w)' => LeasedOK(w)'
      /\ pc'[w] = "finish" /\ my'[w] = l
  BY <1>1, <1>2, WorkStays
<1>4. WorkOK(w)'
  <2>1. my[w].j \in Jobs /\ my[w].rec \in Record /\ RecordOK(my[w].j, my[w].rec) /\ my[w].op = my[w].j[1]
    BY WorkFacts
  <2>2. my'[w].j = my[w].j /\ my'[w].rec = my[w].rec /\ my'[w].op = my[w].op /\ ~my'[w].ok
    BY <1>2, <1>3
  <2>3. RecordOK(my[w].j, my[w].rec)'
    BY <2>1, <2>2, RecordGrows
  <2> QED
    BY <1>3, <2>1, <2>2, <2>3 DEF WorkOK, Archiving, Accepting
<1> QED
  BY <1>1, <1>2, <1>3, <1>4

\* What was true of the work is still true if only the control point has changed.
LEMMA WorkSame ==
  ASSUME IInv, NEW w \in Workers, pc[w] \in WorkPcs \ {"read", "load"}, my'[w] = my[w], Grows
  PROVE  /\ RecordOK(my[w].j, my[w].rec)' /\ my'[w].j \in Jobs /\ my'[w].op = my'[w].j[1]
         /\ my[w].rec.accepted \in Nat /\ Len(my[w].rec.plan) \in Nat
         /\ my[w].rec.accepted <= Len(my[w].rec.plan)
<1>1. /\ my[w].j \in Jobs /\ my[w].rec \in Record /\ my[w].op = my[w].j[1]
      /\ RecordOK(my[w].j, my[w].rec)
  BY WorkFacts
<1>2. RecordOK(my[w].j, my[w].rec)'
  BY <1>1, RecordGrows
<1>3. /\ my[w].rec.accepted \in Nat /\ Len(my[w].rec.plan) \in Nat
      /\ my[w].rec.accepted <= Len(my[w].rec.plan)
  BY <1>1, RecordFields DEF RecordOK
<1> QED
  BY <1>1, <1>2, <1>3

\* The consolidation goes to its next control point.
LEMMA WorkGoes ==
  ASSUME IInv, NEW w \in Workers, pc[w] \in WorkPcs \ {"read", "load"},
         NEW label \in WorkPcs \ {"read", "load"}, Goto(w, label), UNCHANGED my,
         StoresStill, UNCHANGED lease \/ Claim(w), UNCHANGED count,
         pc'[w] = label /\ UNCHANGED my => WorkOK(w)'
  PROVE  IInv'
<1>1. TypeOK /\ my[w] \in Locals /\ CountKept /\ label \in Labels
  BY CallerFacts, CountTyped DEF Labels
<1>2. my' = [my EXCEPT ![w] = my[w]]
  BY <1>1, TypeNow
<1>3. pc'[w] = label
  BY <1>1, GotoTyped
<1> QED
  BY <1>1, <1>2, <1>3, WorkMoves

\* The lease is renewed before an effect, or the work fails.
LEMMA RenewingKeeps ==
  ASSUME IInv, NEW w \in Workers, NEW from \in WorkPcs \ {"read", "load"},
         NEW to \in WorkPcs \ {"read", "load"}, Renewing(w, from, to),
         pc'[w] = to /\ UNCHANGED my => WorkOK(w)'
  PROVE  IInv'
<1>1. /\ TypeOK /\ pc[w] = from /\ StoresStill /\ UNCHANGED count /\ CountKept /\ tomb' = tomb
  BY CallerFacts, CountTyped DEF Renewing, StoresStill, rows
<1>2. CASE Claim(w) /\ Goto(w, to) /\ UNCHANGED my
  BY <1>1, <1>2, WorkGoes
<1>3. CASE WorkFails(w) /\ UNCHANGED lease
  <2>1. Grows
    BY <1>1, StillGrows
  <2> QED
    BY <1>1, <1>3, <2>1, WorkFailsFacts, WorkMoves
<1> QED
  BY <1>2, <1>3 DEF Renewing

\* A consolidation begins.
LEMMA StartConsolidateKeeps ==
  ASSUME IInv, NEW w \in Workers, NEW j \in Jobs, StartConsolidate(w, j)
  PROVE  IInv'
<1> DEFINE l == [NoLocals EXCEPT !.op = j[1], !.j = j]
<1>1. l \in Locals /\ l.barred = {} /\ l.covered = {} /\ l.j = j /\ l.op = j[1]
  <2>1. j[1] \in Operations
    BY DEF StartConsolidate, LeasedCall, Call
  <2>2. /\ l = [[NoLocals EXCEPT !.op = j[1]] EXCEPT !.j = j]
        /\ [NoLocals EXCEPT !.op = j[1]] \in Locals
        /\ [NoLocals EXCEPT !.op = j[1]].barred = {}
        /\ [NoLocals EXCEPT !.op = j[1]].covered = {}
    BY <2>1, NothingTyped DEF Locals
  <2> DEFINE b == [NoLocals EXCEPT !.op = j[1]]
  <2>3. b.op = j[1]
    BY NothingTyped DEF Locals
  <2> HIDE DEF b
  <2> QED
    BY <2>2, <2>3 DEF b, Locals
<1>2. LeasedCall(w, j[1], "read") /\ my' = [my EXCEPT ![w] = l]
  BY DEF StartConsolidate
<1> HIDE DEF l
<1> QED
  BY <1>1, <1>2, StartKeeps

\* The chunks of a transcript.
LEMMA ChunksTyped ==
  ASSUME NEW s \in Seq(Messages), NEW plan \in Candidates("deep", s) \cup Candidates("fast", s)
  PROVE  plan \in Seq(SUBSET Messages)
<1>1. /\ ChunkSize \in Nat /\ ChunkSize >= 1 /\ Len(s) \in Nat /\ DOMAIN s = 1 .. Len(s)
      /\ \A p \in 1 .. Len(s) : s[p] \in Messages
  BY SessionAssumption
<1> DEFINE n == (Len(s) + ChunkSize - 1) \div ChunkSize
<1>2. n \in Nat
  BY <1>1
<1>3. CASE plan = TranscriptChunks(s, ChunkSize)
  <2>1. plan \in [1 .. n -> SUBSET Messages]
    BY <1>1, <1>3 DEF TranscriptChunks
  <2> HIDE DEF n
  <2> QED
    BY <1>2, <2>1
<1>4. CASE plan \in {<<S>> : S \in SUBSET ToSet(s) \ {{}}}
  <2>1. PICK S \in SUBSET ToSet(s) : plan = <<S>>
    BY <1>4
  <2>2. S \in SUBSET Messages
    BY <1>1, <2>1 DEF ToSet
  <2> QED
    BY <2>1, <2>2
<1> QED
  BY <1>3, <1>4 DEF Candidates

\* The transcript is read, free of forgotten messages.
LEMMA ReadTranscriptKeeps ==
  ASSUME IInv, NEW w \in Workers, ReadTranscript(w)
  PROVE  IInv'
<1>1. /\ pc[w] = "read" /\ pc[w] \in WorkPcs /\ StoresStill /\ UNCHANGED <<lease, count>> /\ tomb' = tomb
  BY DEF ReadTranscript, WorkPcs, StoresStill, rows
<1>2. /\ TypeOK /\ my[w] \in Locals /\ my[w].barred \subseteq tomb /\ my[w].rec \in Record
      /\ my[w].j \in Jobs /\ my[w].op = my[w].j[1] /\ my[w].op \in {"fast", "deep"}
      /\ pc[w] \in Leasing /\ (NoLapse => Holds(w)) /\ CountKept
      /\ log \in Seq(Messages)
  BY <1>1, WorkFacts, CountTyped, TypeNow
<1>3. CASE Goto(w, "release") /\ UNCHANGED my
  BY <1>1, <1>2, <1>3, GiveUpKeeps
<1>4. ASSUME ToSet(log) \cap tomb = {}, NEW plan \in Candidates(my[w].op, log), Goto(w, "load"),
             my' = [my EXCEPT ![w].rec.input = log, ![w].rec.plan = plan]
      PROVE  IInv'
  <2> DEFINE r == [my[w].rec EXCEPT !.input = log, !.plan = plan]
             l == [my[w] EXCEPT !.rec = r]
  <2>1. plan \in Seq(SUBSET Messages)
    BY <1>2, <1>4, ChunksTyped
  <2>2. r \in Record /\ r.input = log
    <3> DEFINE b == [my[w].rec EXCEPT !.input = log]
    <3>1. b \in Record /\ b.input = log
      BY <1>2 DEF Record
    <3>2. r = [b EXCEPT !.plan = plan]
      OBVIOUS
    <3> HIDE DEF b
    <3> QED
      BY <2>1, <3>1, <3>2 DEF Record
  <2>3. my' = [my EXCEPT ![w] = l]
    BY <1>2, <1>4, TypeNow DEF Locals
  <2> HIDE DEF r
  <2>4. l \in Locals /\ l.barred = my[w].barred /\ l.rec = r /\ l.j = my[w].j /\ l.op = my[w].op
    BY <1>2, <2>2 DEF Locals
  <2> HIDE DEF l
  <2>5. "load" \in Labels /\ my' \in [Workers -> Locals] /\ my'[w] = l
        /\ \A v \in Workers : v # w => my'[v] = my[v]
    BY <1>2, <2>3, <2>4, MyTyped DEF Labels, WorkPcs
  <2>6. pc'[w] = "load"
    BY <1>2, <1>4, <2>5, GotoTyped
  <2>7. AssembleOK(w)' /\ EraseOK(w)' /\ CacheLeased(w)'
    BY <1>1, <1>2, <2>4, <2>5, <2>6, Elsewhere DEF ErasePcs
  <2>8. WorkOK(w)'
    BY <1>2, <2>4, <2>5, <2>6 DEF WorkOK, Archiving, Accepting
  <2>9. NoLapse => LeasedOK(w)'
    BY <1>1, <1>2, <1>4, <2>2, <2>4, <2>5, <2>6 DEF LeasedOK, Marked, Holds
  <2> QED
    BY <1>1, <1>2, <1>4, <2>5, <2>7, <2>8, <2>9, MoveKeeps
<1> QED
  BY <1>3, <1>4 DEF ReadTranscript

\* The work resumes where the record of the same input left it.
LEMMA LoadRecordKeeps ==
  ASSUME IInv, NEW w \in Workers, LoadRecord(w)
  PROVE  IInv'
<1> DEFINE j == my[w].j
           prev == job[j]
           same == prev.input = my[w].rec.input /\ prev.plan = my[w].rec.plan
           r == [my[w].rec EXCEPT !.archived = prev.archived, !.accepted = prev.accepted]
           l == [my[w] EXCEPT !.rec = r]
<1>1. /\ pc[w] = "load" /\ pc[w] \in WorkPcs \ {"read"} /\ StoresStill /\ UNCHANGED <<lease, count>>
  BY DEF LoadRecord, WorkPcs, StoresStill
<1>2. /\ TypeOK /\ my[w] \in Locals /\ my[w].rec \in Record /\ j \in Jobs /\ my[w].op = j[1]
      /\ pc[w] \in Leasing /\ CountKept /\ JobOK(j) /\ prev \in Record
  BY <1>1, WorkFacts, CountTyped, TypeNow, StoreFacts
<1>3. CASE Goto(w, "release") /\ UNCHANGED my
  BY <1>1, <1>2, <1>3, GiveUpKeeps
<1>4. ASSUME Goto(w, "begin"), prev.status = "none" \/ same,
             my' = [my EXCEPT ![w].rec.archived = prev.archived, ![w].rec.accepted = prev.accepted]
      PROVE  IInv'
  <2>1. /\ r \in Record /\ r.input = my[w].rec.input /\ r.plan = my[w].rec.plan
        /\ r.archived = prev.archived /\ r.accepted = prev.accepted
    <3>1. prev.archived \in BOOLEAN /\ prev.accepted \in Nat
      BY <1>2, RecordFields
    <3> DEFINE b == [my[w].rec EXCEPT !.archived = prev.archived]
    <3>2. b \in Record /\ b.input = my[w].rec.input /\ b.plan = my[w].rec.plan /\ b.archived = prev.archived
      BY <1>2, <3>1 DEF Record
    <3>3. r = [b EXCEPT !.accepted = prev.accepted]
      OBVIOUS
    <3> HIDE DEF b
    <3> QED
      BY <3>1, <3>2, <3>3 DEF Record
  <2>2. my' = [my EXCEPT ![w] = l]
    BY <1>2, <1>4, TypeNow DEF Locals
  <2>3. RecordOK(j, prev) /\ (prev.status = "none" => prev.accepted = 0 /\ ~prev.archived)
    BY <1>2 DEF JobOK
  <2>4. RecordOK(j, r)
    <3>1. Len(my[w].rec.plan) \in Nat
      BY <1>2, RecordFields
    <3>2. CASE prev.status = "none"
      <4>1. r.accepted = 0 /\ ~r.archived /\ 0 <= Len(r.plan) /\ 1 .. 0 = {}
        BY <2>1, <2>3, <3>1, <3>2
      <4> QED
        BY <4>1 DEF RecordOK
    <3>3. CASE same
      BY <2>1, <2>3, <3>3 DEF RecordOK
    <3> QED
      BY <1>4, <3>2, <3>3
  <2> HIDE DEF r
  <2>5. l \in Locals /\ l.barred = my[w].barred /\ l.rec = r /\ l.j = j /\ l.op = my[w].op
    BY <1>2, <2>1 DEF Locals
  <2> HIDE DEF l
  <2>6. my'[w] = l /\ pc'[w] = "begin" /\ "begin" \in WorkPcs \ {"read"}
    <3>1. "begin" \in WorkPcs \ {"read"} /\ "begin" \in Labels
      BY DEF WorkPcs, Labels
    <3>2. pc'[w] = "begin"
      BY <1>2, <1>4, <3>1, GotoTyped
    <3>3. my'[w] = l
      BY <1>2, <2>2, <2>5, MyTyped
    <3> QED
      BY <3>1, <3>2, <3>3
  <2>7. Grows
    BY <1>1, StillGrows
  <2>8. \A i \in Jobs, q \in Record : RecordOK(i, q) => RecordOK(i, q)'
    BY <2>7, RecordGrows
  <2>9. WorkOK(w)'
    BY <1>2, <2>1, <2>4, <2>5, <2>6, <2>8 DEF WorkOK, Archiving, Accepting
  <2> QED
    BY <1>1, <1>2, <1>4, <2>1, <2>2, <2>5, <2>6, <2>9, WorkMoves
<1> QED
  BY <1>3, <1>4 DEF LoadRecord

\* A deep consolidation archives the transcript first.
LEMMA StartArchiveKeeps ==
  ASSUME IInv, NEW w \in Workers, StartArchive(w)
  PROVE  IInv'
<1>1. CASE my[w].op = "deep" /\ ~my[w].rec.archived /\ Renewing(w, "archive", "manifest")
  <2>1. /\ pc[w] = "archive" /\ {"archive", "manifest"} \subseteq WorkPcs \ {"read", "load"}
        /\ StoresStill
    BY <1>1 DEF Renewing, WorkPcs, StoresStill
  <2>2. ASSUME pc'[w] = "manifest" /\ UNCHANGED my PROVE WorkOK(w)'
    BY <1>1, <2>1, <2>2, StillGrows, WorkSame DEF WorkOK, Archiving, Accepting
  <2> QED
    BY <1>1, <2>1, <2>2, RenewingKeeps
<1>2. CASE /\ pc[w] = "archive" /\ (my[w].op = "fast" \/ my[w].rec.archived)
           /\ Goto(w, "candidate") /\ StoresStill /\ UNCHANGED <<lease, my, count>>
  <2>1. {"archive", "candidate"} \subseteq WorkPcs \ {"read", "load"}
    BY DEF WorkPcs
  <2>2. ASSUME pc'[w] = "candidate" PROVE WorkOK(w)'
    BY <1>2, <2>1, <2>2, StillGrows, WorkSame DEF WorkOK, Archiving, Accepting
  <2> QED
    BY <1>2, <2>1, <2>2, WorkGoes
<1> QED
  BY <1>1, <1>2 DEF StartArchive, StoresStill

\* The next candidate, or the summary after the last.
LEMMA NextCandidateKeeps ==
  ASSUME IInv, NEW w \in Workers, NextCandidate(w)
  PROVE  IInv'
<1>1. /\ pc[w] = "candidate" /\ StoresStill
      /\ {"candidate", "existing", "resume_summary"} \subseteq WorkPcs \ {"read", "load"}
  BY DEF NextCandidate, Renewing, WorkPcs, StoresStill
<1>2. WorkOK(w) /\ (my[w].rec.archived \/ my[w].op = "fast")
  BY <1>1, CallerFacts DEF WorkOK, Accepting
<1>3. CASE my[w].rec.accepted = Len(my[w].rec.plan)
  <2>1. Goto(w, "resume_summary") /\ UNCHANGED <<lease, my, count>>
    BY <1>3 DEF NextCandidate
  <2>2. ASSUME pc'[w] = "resume_summary" PROVE WorkOK(w)'
    BY <1>1, <1>2, <1>3, <2>1, <2>2, StillGrows, WorkSame DEF WorkOK, Archiving, Accepting
  <2> QED
    BY <1>1, <2>1, <2>2, WorkGoes
<1>4. CASE my[w].rec.accepted # Len(my[w].rec.plan)
  <2>1. Renewing(w, "candidate", "existing")
    BY <1>4 DEF NextCandidate
  <2>2. ASSUME pc'[w] = "existing" /\ UNCHANGED my PROVE WorkOK(w)'
    BY <1>1, <1>2, <1>4, <2>2, StillGrows, WorkSame DEF WorkOK, Archiving, Accepting
  <2> QED
    BY <1>1, <2>1, <2>2, RenewingKeeps
<1> QED
  BY <1>3, <1>4

\* An output that was forgotten ends the work.
LEMMA CheckExistingKeeps ==
  ASSUME IInv, NEW w \in Workers, CheckExisting(w)
  PROVE  IInv'
<1>1. /\ TypeOK /\ pc[w] = "existing" /\ StoresStill /\ UNCHANGED <<lease, count>> /\ tomb' = tomb
      /\ {"existing", "ingest"} \subseteq WorkPcs \ {"read", "load"} /\ CountKept
  BY CallerFacts, CountTyped DEF CheckExisting, WorkPcs, StoresStill, rows
<1>2. /\ WorkOK(w) /\ (my[w].rec.archived \/ my[w].op = "fast")
      /\ my[w].rec.accepted < Len(my[w].rec.plan)
  BY <1>1, CallerFacts DEF WorkOK, Accepting
<1>3. CASE WorkFails(w)
  <2>1. Grows
    BY <1>1, StillGrows
  <2> QED
    BY <1>1, <1>3, <2>1, WorkFailsFacts, WorkMoves
<1>4. CASE Goto(w, "ingest") /\ UNCHANGED my
  <2>1. ASSUME pc'[w] = "ingest" PROVE WorkOK(w)'
    BY <1>1, <1>2, <1>4, <2>1, StillGrows, WorkSame DEF WorkOK, Archiving, Accepting
  <2> QED
    BY <1>1, <1>4, <2>1, WorkGoes
<1> QED
  BY <1>3, <1>4 DEF CheckExisting

\* The summary follows the last candidate; a deep consolidation may have none.
LEMMA StartSummaryKeeps ==
  ASSUME IInv, NEW w \in Workers, StartSummary(w)
  PROVE  IInv'
<1>1. /\ pc[w] = "resume_summary" /\ StoresStill
      /\ {"resume_summary", "save_summary", "finish"} \subseteq WorkPcs \ {"read", "load"}
  BY DEF StartSummary, Renewing, WorkPcs, StoresStill
<1>2. /\ WorkOK(w) /\ (my[w].rec.archived \/ my[w].op = "fast")
      /\ my[w].rec.accepted = Len(my[w].rec.plan)
  BY <1>1, CallerFacts DEF WorkOK, Accepting
<1>3. CASE Renewing(w, "resume_summary", "save_summary")
  <2>1. ASSUME pc'[w] = "save_summary" /\ UNCHANGED my PROVE WorkOK(w)'
    BY <1>1, <1>2, <2>1, StillGrows, WorkSame DEF WorkOK, Archiving, Accepting
  <2> QED
    BY <1>1, <1>3, <2>1, RenewingKeeps
<1>4. CASE Goto(w, "finish") /\ UNCHANGED <<lease, my, count>>
  <2>1. ASSUME pc'[w] = "finish" PROVE WorkOK(w)'
    BY <1>1, <1>2, <1>4, <2>1, StillGrows, WorkSame DEF WorkOK, Archiving, Accepting
  <2> QED
    BY <1>1, <1>4, <2>1, WorkGoes
<1> QED
  BY <1>3, <1>4 DEF StartSummary

\* The last renewal of the lease, without which nothing more is saved.
LEMMA FinishJobKeeps ==
  ASSUME IInv, NEW w \in Workers, FinishJob(w)
  PROVE  IInv'
<1>1. /\ TypeOK /\ pc[w] = "finish" /\ StoresStill /\ UNCHANGED <<my, count>> /\ CountKept
      /\ {"finish", "close"} \subseteq WorkPcs \ {"read", "load"} /\ pc[w] \in Leasing
  BY CallerFacts, CountTyped DEF FinishJob, WorkPcs, StoresStill, Leasing
<1>2. WorkOK(w)
  BY CallerFacts
<1>3. CASE Claim(w) /\ Goto(w, "close")
  <2>1. ASSUME pc'[w] = "close" PROVE WorkOK(w)'
    BY <1>1, <1>2, <2>1, StillGrows, WorkSame DEF WorkOK, Archiving, Accepting
  <2> QED
    BY <1>1, <1>3, <2>1, WorkGoes
<1>4. CASE Goto(w, "release") /\ UNCHANGED lease
  BY <1>1, <1>4, GiveUpKeeps
<1> QED
  BY <1>3, <1>4 DEF FinishJob

\* The manifest of a transcript is written by the one who archives it.
LEMMA SetManifestKeeps ==
  ASSUME IInv, NEW w \in Workers, pc[w] \in {"manifest", "stored"}, NEW status \in {"pending", "stored"},
         NEW label \in {"put", "archived"}, SetManifest(w, status, label),
         label = "archived" => pc[w] = "stored"
  PROVE  IInv'
<1>1. /\ pc[w] \in WorkPcs \ {"read", "load"} /\ label \in WorkPcs \ {"read", "load"}
      /\ pc[w] \in Archiving
  BY DEF WorkPcs, Archiving
<1>2. /\ TypeOK /\ WorkOK(w) /\ pc[w] \in Leasing /\ my[w] \in Locals
      /\ my[w].op = "deep" /\ Key(w) \in Keys /\ (NoLapse => Holds(w))
      /\ (pc[w] = "stored" => object[Key(w)] # "none")
  BY <1>1, WorkFacts DEF WorkOK
<1>3. /\ manifest' = [manifest EXCEPT ![Key(w)] = status] /\ Goto(w, label)
      /\ UNCHANGED <<log, hot, activity, tomb, job, mem, summary, started, done, object, lease, my, count>>
      /\ Key(w)' = Key(w)
  BY DEF SetManifest, rows, forget, Key
<1>4. /\ manifest' \in [Keys -> Manifest] /\ manifest'[Key(w)] \in {"pending", "stored"}
      /\ \A k \in Keys : k # Key(w) => manifest'[k] = manifest[k]
  BY <1>2, <1>3, TypeNow DEF Manifest
<1>5. Grows
  BY <1>3, <1>4 DEF Grows, Safe
<1>6. /\ pc' \in [Workers -> Labels] /\ my' \in [Workers -> Locals] /\ Others(w) /\ pc'[w] = label
      /\ AssembleOK(w)' /\ EraseOK(w)' /\ CacheLeased(w)'
      /\ NoLapse /\ Holds(w)' => LeasedOK(w)'
  BY <1>1, <1>3, WorkStands
<1>7. TypeOK' /\ CountKept
  BY <1>2, <1>3, <1>4, <1>6, TypeNow, TypeNext, CountTyped DEF MemOK
<1>8. WorkOK(w)'
  <2>1. pc'[w] = "put" => Safe(Key(w))'
    BY <1>3, <1>4 DEF Safe
  <2>2. pc'[w] = "archived" => object'[Key(w)'] # "none"
    BY <1>2, <1>3, <1>6
  <2> QED
    BY <1>1, <1>2, <1>3, <1>5, <1>6, <2>1, <2>2, WorkSame DEF WorkOK, Archiving, Accepting
<1>9. /\ \A j \in Jobs : JobOK(j)'
      /\ \A k \in Keys : Findable(k)'
      /\ \A x \in done' : DoneOK(x)'
      /\ NoLapse => \A x \in done' : Erased(x)'
      /\ Flushed => CacheOK(hot, log)'
  BY <1>3, <1>4, <1>5, StoreFacts, JobsGrow DEF Findable, DoneOK, Erased, Clean, CacheOK, IsTail
<1>10. NoLapse => LeasedOK(w)'
  BY <1>2, <1>3, <1>6 DEF Holds
<1> QED
  BY <1>2, <1>5, <1>6, <1>7, <1>8, <1>9, <1>10, WriteKeeps

\* The manifest comes before the object, and is marked stored after it.
LEMMA ManifestKeeps ==
  ASSUME IInv, NEW w \in Workers, PendManifest(w) \/ StoreManifest(w)
  PROVE  IInv'
  BY SetManifestKeeps DEF PendManifest, StoreManifest

\* An upload neither replaces a tombstone nor escapes forget.
LEMMA PutObjectKeeps ==
  ASSUME IInv, NEW w \in Workers, PutObject(w)
  PROVE  IInv'
<1>1. pc[w] = "put" /\ pc[w] \in WorkPcs \ {"read", "load"} /\ pc[w] \in Archiving
  BY DEF PutObject, WorkPcs, Archiving
<1> DEFINE K == Key(w)
<1>2. /\ TypeOK /\ WorkOK(w) /\ pc[w] \in Leasing /\ my[w] \in Locals
      /\ K \in Keys /\ Safe(K) /\ my[w].op = "deep"
      /\ NoLapse => Holds(w) /\ ToSet(my[w].rec.input) \cap tomb = {}
  BY <1>1, WorkFacts DEF WorkOK
<1>3. /\ UNCHANGED <<log, hot, activity, tomb, job, mem, summary, started, done, manifest, lease>>
      /\ UNCHANGED count \/ Fault
      /\ Put(K) \/ UNCHANGED object
      /\ \/ object'[K] = "content" /\ Put(K) /\ Goto(w, "stored") /\ UNCHANGED my
         \/ WorkFails(w)
  BY DEF PutObject, rows, forget
<1>4. /\ object' \in [Keys -> Object]
      /\ object'[K] = object[K] \/ (object[K] = "none" /\ object'[K] = "content")
      /\ \A k \in Keys : k # K => object'[k] = object[k]
  <2>1. object \in [Keys -> Object]
    BY <1>2, TypeNow
  <2> HIDE DEF K
  <2> QED
    BY <1>2, <1>3, <2>1 DEF Put, Object
<1>5. Grows
  BY <1>3, <1>4 DEF Grows, Safe
<1>6. /\ pc' \in [Workers -> Labels] /\ my' \in [Workers -> Locals] /\ Others(w)
      /\ WorkOK(w)' /\ AssembleOK(w)' /\ EraseOK(w)' /\ CacheLeased(w)'
      /\ NoLapse /\ Holds(w)' => LeasedOK(w)'
  <2>1. CASE WorkFails(w)
    BY <1>1, <1>3, <1>5, <2>1, WorkFailsFacts
  <2>2. CASE object'[K] = "content" /\ Goto(w, "stored") /\ UNCHANGED my
    <3>1. "stored" \in WorkPcs \ {"read", "load"} /\ Key(w)' = K
      BY <2>2 DEF WorkPcs, Key
    <3>2. /\ pc' \in [Workers -> Labels] /\ my' \in [Workers -> Locals] /\ Others(w) /\ pc'[w] = "stored"
          /\ AssembleOK(w)' /\ EraseOK(w)' /\ CacheLeased(w)'
          /\ NoLapse /\ Holds(w)' => LeasedOK(w)'
      BY <1>1, <1>3, <2>2, <3>1, WorkStands
    <3>3. object'[Key(w)'] # "none"
      BY <2>2, <3>1
    <3>4. WorkOK(w)'
      BY <1>1, <1>2, <1>5, <2>2, <3>2, <3>3, WorkSame DEF WorkOK, Archiving, Accepting
    <3> QED
      BY <3>2, <3>4
  <2> QED
    BY <1>3, <2>1, <2>2
<1>7. TypeOK' /\ CountKept
  <2>1. CountKept
    BY <1>2, <1>3, CountTyped
  <2> QED
    BY <1>2, <1>3, <1>4, <1>6, <2>1, TypeNow, TypeNext DEF MemOK, CountKept
<1>8. /\ \A j \in Jobs : JobOK(j)'
      /\ \A x \in done' : DoneOK(x)'
      /\ Flushed => CacheOK(hot, log)'
  BY <1>3, <1>5, StoreFacts, JobsGrow DEF DoneOK, CacheOK, IsTail
<1>9. \A k \in Keys : Findable(k)'
  BY <1>2, <1>3, <1>4, StoreFacts DEF Findable, Safe
<1>10. ASSUME NoLapse, NEW x \in done' PROVE Erased(x)'
  <2>1. x \in done /\ Erased(x) /\ x.sources \subseteq tomb
    BY <1>3, <1>10, StoreFacts DEF DoneOK
  <2>2. K[2] \cap x.sources = {}
    BY <1>2, <1>10, <2>1 DEF Key
  <2> HIDE DEF K
  <2>3. ASSUME NEW k \in Keys, k[2] \cap x.sources # {} PROVE object'[k] # "content"
    BY <1>4, <2>1, <2>2, <2>3 DEF Erased
  <2> QED
    BY <1>3, <2>1, <2>3 DEF Erased, Clean
<1>11. NoLapse => LeasedOK(w)'
  BY <1>2, <1>3, <1>6 DEF Holds
<1> QED
  BY <1>2, <1>5, <1>6, <1>7, <1>8, <1>9, <1>10, <1>11, WriteKeeps

\* The record is saved whole, with what is true of it.
LEMMA SaveKeeps ==
  ASSUME IInv, NEW w \in Workers, pc[w] \in WorkPcs \ {"read", "load"},
         NEW status \in {"running", "retry_pending", "completed"}, NEW rec \in Record,
         rec.input = my[w].rec.input, RecordOK(my[w].j, rec),
         status = "completed" => /\ rec.accepted = Len(rec.plan)
                                 /\ my[w].j[1] = "deep" => rec.archived,
         NEW label \in {"archive", "candidate", "release"}, SaveProgress(w, status, rec, label),
         label = "candidate" => rec.archived \/ my[w].op = "fast"
  PROVE  IInv'
<1> DEFINE l == [my[w] EXCEPT !.rec = rec]
           r == [rec EXCEPT !.status = status]
<1>1. /\ TypeOK /\ pc[w] \in Leasing /\ my[w] \in Locals /\ my[w].barred \subseteq tomb
      /\ my[w].j \in Jobs /\ my[w].op = my[w].j[1] /\ (NoLapse => Holds(w))
  BY WorkFacts
<1>2. /\ job' = [job EXCEPT ![my[w].j] = r] /\ Goto(w, label)
      /\ UNCHANGED <<log, hot, activity, tomb, mem, summary, started, done, manifest, object, lease, count>>
      /\ my' = [my EXCEPT ![w] = l]
  BY <1>1, TypeNow DEF SaveProgress, forget, archive, Locals
<1>3. l \in Locals /\ l.barred = my[w].barred /\ l.rec = rec /\ l.j = my[w].j /\ l.op = my[w].op
  BY <1>1 DEF Locals
<1>4. /\ r \in Record /\ r.input = rec.input /\ r.plan = rec.plan /\ r.accepted = rec.accepted
      /\ r.archived = rec.archived /\ r.status = status
  BY DEF Record
<1> HIDE DEF l, r
<1>5. /\ job' \in [Jobs -> Record] /\ job'[my[w].j] = r
      /\ \A j \in Jobs : j # my[w].j => job'[j] = job[j]
  BY <1>1, <1>2, <1>4, TypeNow
<1>6. Grows
  BY <1>2 DEF Grows, Safe
<1>7. /\ pc' \in [Workers -> Labels] /\ my' \in [Workers -> Locals] /\ Others(w)
      /\ pc'[w] = label /\ my'[w] = l
      /\ AssembleOK(w)' /\ EraseOK(w)' /\ CacheLeased(w)'
      /\ NoLapse /\ Holds(w)' => LeasedOK(w)'
  <2>1. CASE label = "release"
    <3>1. label \in Labels
      BY <2>1 DEF Labels
    <3>2. /\ pc' \in [Workers -> Labels] /\ pc'[w] = label
          /\ \A v \in Workers : v # w => pc'[v] = pc[v]
      BY <1>1, <1>2, <3>1, GotoTyped
    <3>3. /\ my' \in [Workers -> Locals] /\ my'[w] = l
          /\ \A v \in Workers : v # w => my'[v] = my[v]
      BY <1>1, <1>2, <1>3, MyTyped
    <3>4. AssembleOK(w)' /\ EraseOK(w)' /\ CacheLeased(w)' /\ (Holds(w)' => LeasedOK(w)')
      BY <1>1, <1>2, <1>3, <2>1, <3>2, <3>3, Elsewhere DEF ErasePcs
    <3> QED
      BY <3>2, <3>3, <3>4 DEF Others
  <2>2. CASE label \in WorkPcs \ {"read"}
    BY <1>2, <1>3, <2>2, WorkStays
  <2> QED
    BY <2>1, <2>2 DEF WorkPcs
<1>8. TypeOK' /\ CountKept
  BY <1>1, <1>2, <1>5, <1>7, TypeNow, TypeNext, CountTyped DEF MemOK
<1>9. \A i \in Jobs, q \in Record : RecordOK(i, q) => RecordOK(i, q)'
  BY <1>6, RecordGrows
<1>10. WorkOK(w)'
  BY <1>1, <1>3, <1>7, <1>9 DEF WorkOK, Archiving, Accepting, WorkPcs
<1>11. \A j \in Jobs : JobOK(j)'
  <2> SUFFICES ASSUME NEW j \in Jobs PROVE JobOK(j)'
    OBVIOUS
  <2>1. CASE j # my[w].j
    BY <1>5, <1>6, <2>1, JobsGrow
  <2>2. CASE j = my[w].j
    <3>1. job'[j] = r /\ RecordOK(j, rec) /\ (status = "completed" => rec.accepted = Len(rec.plan) /\ (j[1] = "deep" => rec.archived))
      BY <1>5, <2>2
    <3>2. RecordOK(j, r)
      BY <1>4, <3>1 DEF RecordOK
    <3>3. RecordOK(j, job[j])'
      BY <1>4, <1>9, <3>1, <3>2
    <3> QED
      BY <1>4, <3>1, <3>3 DEF JobOK
  <2> QED
    BY <2>1, <2>2
<1>12. /\ \A k \in Keys : Findable(k)'
       /\ \A x \in done' : DoneOK(x)'
       /\ NoLapse => \A x \in done' : Erased(x)'
       /\ Flushed => CacheOK(hot, log)'
  BY <1>2, StoreFacts DEF Findable, DoneOK, Erased, Clean, CacheOK, IsTail
<1>13. NoLapse => LeasedOK(w)'
  BY <1>1, <1>2, <1>7 DEF Holds
<1> QED
  BY <1>1, <1>6, <1>7, <1>8, <1>10, <1>11, <1>12, <1>13, WriteKeeps

\* The record says that the work is under way.
LEMMA BeginJobKeeps ==
  ASSUME IInv, NEW w \in Workers, BeginJob(w)
  PROVE  IInv'
<1>1. pc[w] \in WorkPcs \ {"read", "load"} /\ SaveProgress(w, "running", my[w].rec, "archive")
  BY DEF BeginJob, WorkPcs
<1>2. my[w].rec \in Record /\ RecordOK(my[w].j, my[w].rec)
  BY <1>1, WorkFacts
<1> QED
  BY <1>1, <1>2, SaveKeeps

\* The record says that the transcript is archived, which it is.
LEMMA RecordArchiveKeeps ==
  ASSUME IInv, NEW w \in Workers, RecordArchive(w)
  PROVE  IInv'
<1> DEFINE r == [my[w].rec EXCEPT !.archived = TRUE]
<1>1. /\ pc[w] = "archived" /\ pc[w] \in WorkPcs \ {"read", "load"}
      /\ SaveProgress(w, "running", r, "candidate")
  BY DEF RecordArchive, WorkPcs
<1>2. /\ my[w].rec \in Record /\ RecordOK(my[w].j, my[w].rec) /\ object[Key(w)] # "none"
  BY <1>1, WorkFacts DEF WorkOK
<1>3. /\ r \in Record /\ r.input = my[w].rec.input /\ r.archived
      /\ r.plan = my[w].rec.plan /\ r.accepted = my[w].rec.accepted
  BY <1>2 DEF Record
<1> HIDE DEF r
<1>4. RecordOK(my[w].j, r)
  BY <1>2, <1>3 DEF RecordOK, Key
<1> QED
  BY <1>1, <1>3, <1>4, SaveKeeps

\* The record counts the candidate whose memory is there.
LEMMA RecordCandidateKeeps ==
  ASSUME IInv, NEW w \in Workers, RecordCandidate(w)
  PROVE  IInv'
<1> DEFINE n == my[w].rec.accepted
           r == [my[w].rec EXCEPT !.accepted = @ + 1]
<1>1. /\ pc[w] = "progress" /\ pc[w] \in WorkPcs \ {"read", "load"}
      /\ SaveProgress(w, "running", r, "candidate")
  BY DEF RecordCandidate, WorkPcs
<1>2. /\ my[w].rec \in Record /\ RecordOK(my[w].j, my[w].rec)
      /\ NextId(w) \in DOMAIN mem /\ n < Len(my[w].rec.plan)
      /\ my[w].rec.archived \/ my[w].op = "fast"
      /\ n \in Nat /\ Len(my[w].rec.plan) \in Nat
  BY <1>1, WorkFacts, RecordFields DEF WorkOK, Accepting
<1>3. /\ r \in Record /\ r.input = my[w].rec.input /\ r.archived = my[w].rec.archived
      /\ r.plan = my[w].rec.plan /\ r.accepted = n + 1
  BY <1>2 DEF Record
<1>4. MemoryOf(my[w].j, n + 1, my[w].rec.plan[n + 1]) \in DOMAIN mem
  BY <1>2 DEF MemoryOf, NextId
<1> HIDE DEF r
<1>5. ASSUME NEW i \in 1 .. r.accepted PROVE MemoryOf(my[w].j, i, r.plan[i]) \in DOMAIN mem
  <2>1. i \in 1 .. n \/ i = n + 1
    BY <1>2, <1>3
  <2> QED
    BY <1>2, <1>3, <1>4, <2>1 DEF RecordOK
<1>6. RecordOK(my[w].j, r)
  BY <1>2, <1>3, <1>5 DEF RecordOK
<1> QED
  BY <1>1, <1>2, <1>3, <1>6, SaveKeeps

\* The record says completed only of work that was done.
LEMMA CloseJobKeeps ==
  ASSUME IInv, NEW w \in Workers, CloseJob(w)
  PROVE  IInv'
<1> DEFINE status == IF my[w].ok THEN "completed" ELSE "retry_pending"
<1>1. /\ pc[w] = "close" /\ pc[w] \in WorkPcs \ {"read", "load"}
      /\ SaveProgress(w, status, my[w].rec, "release")
  BY DEF CloseJob, WorkPcs
<1>2. /\ my[w].rec \in Record /\ RecordOK(my[w].j, my[w].rec) /\ my[w].op = my[w].j[1]
      /\ my[w].ok => /\ my[w].rec.accepted = Len(my[w].rec.plan)
                     /\ my[w].rec.archived \/ my[w].op = "fast"
  BY <1>1, WorkFacts DEF WorkOK
<1>3. /\ status \in {"running", "retry_pending", "completed"}
      /\ status = "completed" => my[w].ok
  OBVIOUS
<1> HIDE DEF status
<1>4. status = "completed" => /\ my[w].rec.accepted = Len(my[w].rec.plan)
                              /\ my[w].j[1] = "deep" => my[w].rec.archived
  BY <1>2, <1>3
<1> QED
  BY <1>1, <1>2, <1>3, <1>4, SaveKeeps

\* A memory is made, unless it was forgotten or one of its sources is.
LEMMA IngestCandidateKeeps ==
  ASSUME IInv, NEW w \in Workers, IngestCandidate(w)
  PROVE  IInv'
<1> DEFINE n == my[w].rec.accepted
           x == NextId(w)
<1>1. pc[w] = "ingest" /\ pc[w] \in WorkPcs \ {"read", "load"}
  BY DEF IngestCandidate, WorkPcs
<1>2. /\ TypeOK /\ WorkOK(w) /\ pc[w] \in Leasing /\ my[w] \in Locals /\ my[w].rec \in Record
      /\ n < Len(my[w].rec.plan) /\ my[w].j \in Jobs /\ (NoLapse => Holds(w))
      /\ my[w].rec.archived \/ my[w].op = "fast"
  BY <1>1, WorkFacts DEF WorkOK, Accepting
<1>3. x \in MemoryId
  <2>1. n + 1 \in Nat /\ my[w].rec.plan[n + 1] \subseteq Messages
    <3>1. n \in Nat /\ n + 1 \in 1 .. Len(my[w].rec.plan)
      BY <1>2, RecordFields
    <3> QED
      BY <1>2, <3>1, RecordFields
  <2> QED
    BY <1>2, <2>1 DEF NextId, MemoryId
<1>4. /\ UNCHANGED <<log, hot, activity, tomb, job, summary, started, done, manifest, object, lease>>
      /\ \/ WorkFails(w) /\ UNCHANGED <<mem, count>>
         \/ /\ ~Refused(x)
            /\ mem' = [y \in DOMAIN mem \cup {x} |-> IF y = x THEN "active" ELSE mem[y]]
            /\ (Goto(w, "progress") /\ UNCHANGED <<my, count>>) \/ (Fault /\ WorkFails(w))
  BY DEF IngestCandidate, forget, archive
<1>5. /\ MemOK' /\ DOMAIN mem \subseteq DOMAIN mem'
      /\ \A y \in DOMAIN mem : mem[y] # "active" => mem'[y] # "active"
      /\ UNCHANGED mem \/ x \in DOMAIN mem'
  <2>1. MemOK
    BY <1>2, TypeNow
  <2>2. CASE UNCHANGED mem
    BY <2>1, <2>2 DEF MemOK
  <2>3. CASE /\ ~Refused(x)
             /\ mem' = [y \in DOMAIN mem \cup {x} |-> IF y = x THEN "active" ELSE mem[y]]
    <3> HIDE DEF x
    <3>1. x \in DOMAIN mem => mem[x] = "active"
      BY <2>3 DEF Refused, Inactive
    <3>2. /\ DOMAIN mem' = DOMAIN mem \cup {x}
          /\ \A y \in DOMAIN mem' : mem'[y] = IF y = x THEN "active" ELSE mem[y]
      BY <2>3
    <3> QED
      BY <1>3, <2>1, <3>1, <3>2 DEF MemOK
  <2> QED
    BY <1>4, <2>2, <2>3
<1>6. Grows
  BY <1>4, <1>5 DEF Grows, Safe
<1>7. /\ pc' \in [Workers -> Labels] /\ my' \in [Workers -> Locals] /\ Others(w)
      /\ WorkOK(w)' /\ AssembleOK(w)' /\ EraseOK(w)' /\ CacheLeased(w)'
      /\ NoLapse /\ Holds(w)' => LeasedOK(w)'
  <2>1. CASE WorkFails(w)
    BY <1>1, <1>4, <1>6, <2>1, WorkFailsFacts
  <2>2. CASE x \in DOMAIN mem' /\ Goto(w, "progress") /\ UNCHANGED my
    <3>1. "progress" \in WorkPcs \ {"read", "load"} /\ NextId(w)' = x
      BY <2>2 DEF WorkPcs, NextId
    <3>2. /\ pc' \in [Workers -> Labels] /\ my' \in [Workers -> Locals] /\ Others(w) /\ pc'[w] = "progress"
          /\ AssembleOK(w)' /\ EraseOK(w)' /\ CacheLeased(w)'
          /\ NoLapse /\ Holds(w)' => LeasedOK(w)'
      BY <1>1, <1>4, <2>2, <3>1, WorkStands
    <3>3. NextId(w)' \in DOMAIN mem'
      BY <2>2, <3>1
    <3> HIDE DEF x
    <3>4. WorkOK(w)'
      BY <1>1, <1>2, <1>6, <2>2, <3>2, <3>3, WorkSame DEF WorkOK, Archiving, Accepting
    <3> QED
      BY <3>2, <3>4
  <2>3. ~WorkFails(w) => x \in DOMAIN mem' /\ Goto(w, "progress") /\ UNCHANGED my
    <3>1. x \in DOMAIN [y \in DOMAIN mem \cup {x} |-> IF y = x THEN "active" ELSE mem[y]]
      OBVIOUS
    <3> QED
      BY <1>4, <3>1
  <2> QED
    BY <2>1, <2>2, <2>3
<1>8. TypeOK' /\ CountKept
  <2>1. CountKept
    BY <1>2, <1>4, CountTyped
  <2>2. started' \subseteq DOMAIN mem'
    BY <1>2, <1>4, <1>5, TypeNow
  <2> QED
    BY <1>2, <1>4, <1>5, <1>7, <2>1, <2>2, TypeNow, TypeNext DEF CountKept
<1>9. \A y \in done' : DoneOK(y)'
  BY <1>4, <1>5, StoreFacts DEF DoneOK
<1>10. /\ \A j \in Jobs : JobOK(j)'
       /\ \A k \in Keys : Findable(k)'
       /\ NoLapse => \A y \in done' : Erased(y)'
       /\ Flushed => CacheOK(hot, log)'
  BY <1>4, <1>6, StoreFacts, JobsGrow DEF Findable, Erased, Clean, CacheOK, IsTail
<1>11. NoLapse => LeasedOK(w)'
  BY <1>2, <1>4, <1>7 DEF Holds
<1> QED
  BY <1>2, <1>6, <1>7, <1>8, <1>9, <1>10, <1>11, WriteKeeps

\* The summary is made of a transcript of which nothing is forgotten.
LEMMA SaveSummaryKeeps ==
  ASSUME IInv, NEW w \in Workers, SaveSummary(w)
  PROVE  IInv'
<1> DEFINE S == ToSet(my[w].rec.input)
<1>1. /\ pc[w] = "save_summary" /\ {"save_summary", "finish"} \subseteq WorkPcs \ {"read", "load"}
      /\ Goto(w, "finish") /\ summary' = S
      /\ UNCHANGED <<log, hot, activity, tomb, job, mem, started, done, manifest, object, lease, my, count>>
  BY DEF SaveSummary, WorkPcs, forget, archive
<1>2. /\ TypeOK /\ WorkOK(w) /\ pc[w] \in Leasing /\ my[w].rec \in Record
      /\ my[w].rec.accepted = Len(my[w].rec.plan)
      /\ my[w].rec.archived \/ my[w].op = "fast"
      /\ NoLapse => Holds(w) /\ S \cap tomb = {}
  BY <1>1, WorkFacts DEF WorkOK, Accepting
<1>3. S \subseteq Messages
  BY <1>2, RecordFields
<1> HIDE DEF S
<1>4. Grows
  BY <1>1 DEF Grows, Safe
<1>5. /\ pc' \in [Workers -> Labels] /\ my' \in [Workers -> Locals] /\ Others(w) /\ pc'[w] = "finish"
      /\ AssembleOK(w)' /\ EraseOK(w)' /\ CacheLeased(w)'
      /\ NoLapse /\ Holds(w)' => LeasedOK(w)'
  BY <1>1, WorkStands
<1>6. WorkOK(w)'
  BY <1>1, <1>2, <1>4, <1>5, WorkSame DEF WorkOK, Archiving, Accepting
<1>7. TypeOK' /\ CountKept
  BY <1>1, <1>2, <1>3, <1>5, TypeNow, TypeNext, CountTyped DEF MemOK
<1>8. /\ \A j \in Jobs : JobOK(j)'
      /\ \A k \in Keys : Findable(k)'
      /\ \A x \in done' : DoneOK(x)'
      /\ Flushed => CacheOK(hot, log)'
  BY <1>1, <1>4, StoreFacts, JobsGrow DEF Findable, DoneOK, CacheOK, IsTail
<1>9. ASSUME NoLapse, NEW x \in done' PROVE Erased(x)'
  <2>1. x.sources \subseteq tomb /\ Erased(x)
    BY <1>1, <1>9, StoreFacts DEF DoneOK
  <2> QED
    BY <1>1, <1>2, <1>9, <2>1 DEF Erased, Clean
<1>10. NoLapse => LeasedOK(w)'
  BY <1>1, <1>2, <1>5 DEF Holds
<1> QED
  BY <1>1, <1>2, <1>4, <1>5, <1>6, <1>7, <1>8, <1>9, <1>10, WriteKeeps

-----------------------------------------------------------------------------
(* forget_memory and retain_memory.                                        *)

\* What is known at a control point of an erasure.
LEMMA EraseFacts ==
  ASSUME IInv, NEW w \in Workers, pc[w] \in ErasePcs
  PROVE  /\ TypeOK /\ my[w] \in Locals /\ my[w].barred \subseteq tomb /\ pc[w] \in Leasing
         /\ EraseOK(w) /\ my[w].x \in DOMAIN mem /\ my[w].x \in MemoryId
         /\ my[w].x.sources \subseteq Messages
         /\ NoLapse => Holds(w) /\ LeasedOK(w)
         /\ Flushed => NoLapse /\ CacheLeased(w)
<1>1. /\ TypeOK /\ my[w] \in Locals /\ my[w].barred \subseteq tomb /\ pc[w] \in Leasing
      /\ EraseOK(w) /\ my[w].x \in DOMAIN mem
      /\ NoLapse => Holds(w) /\ LeasedOK(w)
      /\ Flushed => NoLapse /\ CacheLeased(w)
  BY CallerFacts DEF EraseOK, Leasing
<1>2. my[w].x \in MemoryId
  BY <1>1, TypeNow DEF MemOK
<1> QED
  BY <1>1, <1>2 DEF MemoryId

\* An erasure moves on, or repeats its step for the next item.
LEMMA EraseStays ==
  ASSUME IInv, NEW w \in Workers, pc[w] \in ErasePcs, NEW label \in ErasePcs,
         Goto(w, label) \/ (UNCHANGED pc /\ label = pc[w]),
         NEW l \in Locals, my' = [my EXCEPT ![w] = l], l.barred = my[w].barred, tomb \subseteq tomb'
  PROVE  /\ pc' \in [Workers -> Labels] /\ pc'[w] = label
         /\ my' \in [Workers -> Locals] /\ my'[w] = l /\ Others(w)
         /\ AssembleOK(w)' /\ WorkOK(w)'
<1>1. TypeOK /\ label \in Labels /\ my[w].barred \subseteq tomb'
  BY EraseFacts DEF Labels
<1>2. /\ pc' \in [Workers -> Labels] /\ pc'[w] = label
      /\ \A v \in Workers : v # w => pc'[v] = pc[v]
  BY <1>1, GotoTyped, TypeNow
<1>3. /\ my' \in [Workers -> Locals] /\ my'[w] = l
      /\ \A v \in Workers : v # w => my'[v] = my[v]
  BY <1>1, MyTyped
<1>4. AssembleOK(w)' /\ WorkOK(w)'
  BY <1>1, <1>2, <1>3, Elsewhere DEF WorkPcs, ErasePcs
<1> QED
  BY <1>2, <1>3, <1>4 DEF Others

\* A forget or a retention begins.
LEMMA StartForgetKeeps ==
  ASSUME IInv, NEW w \in Workers, NEW op \in {"forget", "retain"}, NEW x \in DOMAIN mem,
         StartForget(w, op, x)
  PROVE  IInv'
<1> DEFINE l == [NoLocals EXCEPT !.op = op, !.x = x]
           label == IF op = "retain" THEN "verify" ELSE "intent"
<1>1. /\ LeasedCall(w, op, label) /\ my' = [my EXCEPT ![w] = l] /\ op \in Operations /\ TypeOK
      /\ label \in {"verify", "intent"}
  BY CallerFacts DEF StartForget, LeasedCall, Call
<1>2. l \in Locals /\ l.barred = {} /\ l.covered = {} /\ l.x = x
  <2>1. x \in MemoryId
    BY <1>1, TypeNow DEF MemOK
  <2> QED
    BY <1>1, <2>1, NothingTyped DEF Locals
<1> HIDE DEF l, label
<1> QED
  BY <1>1, <1>2, StartKeeps

\* Retention goes on if all that it would erase is in a verified transcript.
LEMMA VerifyArchiveKeeps ==
  ASSUME IInv, NEW w \in Workers, VerifyArchive(w)
  PROVE  IInv'
<1> DEFINE x == my[w].x
           R == Required(x)
           C == UNION {k[2] : k \in Listed(R)}
           cov == IF ErasureStarted(x) THEN {} ELSE C
           l == [my[w] EXCEPT !.covered = cov]
<1>1. /\ pc[w] = "verify" /\ pc[w] \in ErasePcs /\ StoresStill /\ UNCHANGED lease
      /\ \/ /\ ErasureStarted(x) \/ R \subseteq C
            /\ my' = [my EXCEPT ![w] = l] /\ Goto(w, "authorise") /\ UNCHANGED count
         \/ (Fault \/ UNCHANGED count) /\ Goto(w, "release") /\ UNCHANGED my
  BY DEF VerifyArchive, ErasePcs, StoresStill
<1>2. /\ TypeOK /\ my[w] \in Locals /\ pc[w] \in Leasing /\ x \in DOMAIN mem
      /\ (NoLapse => Holds(w)) /\ tomb' = tomb /\ mem' = mem /\ lease' \in Leases
  BY <1>1, EraseFacts, TypeNow DEF StoresStill, rows
<1>3. CASE (Fault \/ UNCHANGED count) /\ Goto(w, "release") /\ UNCHANGED my
  <2>1. CountKept
    BY <1>2, <1>3, CountTyped
  <2> QED
    BY <1>1, <1>2, <1>3, <2>1, GiveUpKeeps
<1>4. CASE /\ ErasureStarted(x) \/ R \subseteq C
           /\ my' = [my EXCEPT ![w] = l] /\ Goto(w, "authorise") /\ UNCHANGED count
  <2>1. cov \subseteq Messages
    <3>1. \A k \in Keys : k[2] \subseteq Messages
      BY DEF Keys
    <3> QED
      BY <3>1 DEF Listed
  <2>2. cov # {} => x.sources \subseteq cov /\ \A y \in Sharers(x) : y.sources \subseteq cov
    <3>1. x.sources \subseteq R /\ \A y \in Sharers(x) : y.sources \subseteq R
      BY DEF Required
    <3>2. cov # {} => cov = C /\ R \subseteq C
      BY <1>4
    <3> HIDE DEF R, C, cov
    <3> QED
      BY <3>1, <3>2
  <2> HIDE DEF cov
  <2>3. l \in Locals /\ l.barred = my[w].barred /\ l.x = x /\ l.covered = cov
    BY <1>2, <2>1 DEF Locals
  <2> HIDE DEF l
  <2>4. "authorise" \in ErasePcs /\ CountKept
    BY <1>2, <1>4, CountTyped DEF ErasePcs
  <2>5. /\ pc' \in [Workers -> Labels] /\ pc'[w] = "authorise"
        /\ my' \in [Workers -> Locals] /\ my'[w] = l /\ Others(w)
        /\ AssembleOK(w)' /\ WorkOK(w)'
    BY <1>1, <1>2, <1>4, <2>3, <2>4, EraseStays
  <2>6. CacheLeased(w)'
    BY <2>5, Elsewhere
  <2>7. EraseOK(w)'
    BY <1>2, <2>3, <2>5 DEF EraseOK, Intended, Barring, Marked
  <2>8. NoLapse => LeasedOK(w)'
    BY <1>1, <1>2, <2>2, <2>3, <2>5 DEF LeasedOK, Covers, Sharers, Marked, Holds, WorkPcs
  <2>9. Still(w)
    BY <1>1 DEF Still, Holds
  <2> QED
    BY <1>1, <1>2, <2>4, <2>5, <2>6, <2>7, <2>8, <2>9, QuietKeeps
<1> QED
  BY <1>1, <1>3, <1>4

\* The lease is renewed before the intent is written.
LEMMA AuthoriseKeeps ==
  ASSUME IInv, NEW w \in Workers, Authorise(w)
  PROVE  IInv'
<1>1. /\ pc[w] = "authorise" /\ {"authorise", "intent"} \subseteq ErasePcs /\ StoresStill
      /\ UNCHANGED <<my, count>>
  BY DEF Authorise, ErasePcs, StoresStill
<1>2. /\ TypeOK /\ my[w] \in Locals /\ pc[w] \in Leasing /\ EraseOK(w) /\ CountKept
      /\ (NoLapse => LeasedOK(w)) /\ tomb' = tomb /\ mem' = mem /\ my' = [my EXCEPT ![w] = my[w]]
  BY <1>1, EraseFacts, TypeNow, CountTyped DEF StoresStill, rows
<1>3. CASE Goto(w, "release") /\ UNCHANGED lease
  BY <1>1, <1>2, <1>3, GiveUpKeeps
<1>4. CASE Claim(w) /\ Goto(w, "intent")
  <2>1. /\ pc' \in [Workers -> Labels] /\ pc'[w] = "intent"
        /\ my' \in [Workers -> Locals] /\ my'[w] = my[w] /\ Others(w)
        /\ AssembleOK(w)' /\ WorkOK(w)'
    BY <1>1, <1>2, <1>4, EraseStays
  <2>2. CacheLeased(w)'
    BY <2>1, Elsewhere
  <2>3. EraseOK(w)'
    BY <1>1, <1>2, <2>1 DEF EraseOK, Intended, Barring, Marked, ErasePcs
  <2>4. Alone(w) /\ Holds(w)' /\ lease' \in Leases
    BY <1>4, ClaimHolds
  <2>5. NoLapse => LeasedOK(w)'
    BY <1>1, <1>2, <2>1, <2>4 DEF LeasedOK, Covers, Sharers, Marked, WorkPcs
  <2> QED
    BY <1>1, <1>2, <2>1, <2>2, <2>3, <2>4, <2>5, QuietKeeps
<1> QED
  BY <1>3, <1>4 DEF Authorise

\* The intent is saved before anything is forgotten.
LEMMA SaveIntentKeeps ==
  ASSUME IInv, NEW w \in Workers, SaveIntent(w)
  PROVE  IInv'
<1> DEFINE x == my[w].x
           l == [my[w] EXCEPT !.todo = x.sources]
<1>1. /\ pc[w] = "intent" /\ {"intent", "tomb"} \subseteq ErasePcs
      /\ UNCHANGED <<log, hot, activity, tomb, job, mem, summary, done, manifest, object, lease, count>>
      /\ \/ Goto(w, "release") /\ UNCHANGED <<started, my>>
         \/ started' = started \cup {x} /\ my' = [my EXCEPT ![w] = l] /\ Goto(w, "tomb")
  BY DEF SaveIntent, ErasePcs, rows, archive
<1>2. /\ TypeOK /\ my[w] \in Locals /\ pc[w] \in Leasing /\ CountKept /\ x \in DOMAIN mem
      /\ x.sources \subseteq Messages /\ (NoLapse => Holds(w) /\ LeasedOK(w))
  BY <1>1, EraseFacts, CountTyped
<1>3. CASE Goto(w, "release") /\ UNCHANGED <<started, my>>
  <2>1. StoresStill
    BY <1>1, <1>3 DEF StoresStill, rows, forget, archive
  <2> QED
    BY <1>1, <1>2, <1>3, <2>1, GiveUpKeeps
<1>4. CASE started' = started \cup {x} /\ my' = [my EXCEPT ![w] = l] /\ Goto(w, "tomb")
  <2>1. /\ l \in Locals /\ l.barred = my[w].barred /\ l.x = x /\ l.todo = x.sources
        /\ l.op = my[w].op /\ l.covered = my[w].covered
    BY <1>2 DEF Locals
  <2> HIDE DEF l
  <2>2. /\ pc' \in [Workers -> Labels] /\ pc'[w] = "tomb"
        /\ my' \in [Workers -> Locals] /\ my'[w] = l /\ Others(w)
        /\ AssembleOK(w)' /\ WorkOK(w)'
    BY <1>1, <1>4, <2>1, EraseStays
  <2>3. TypeOK'
    BY <1>1, <1>2, <1>4, <2>2, TypeNow, TypeNext DEF MemOK
  <2>4. Grows
    BY <1>1, <1>4 DEF Grows, Safe
  <2>5. CacheLeased(w)'
    BY <2>2, Elsewhere
  <2>6. EraseOK(w)'
    BY <1>1, <1>2, <1>4, <2>1, <2>2 DEF EraseOK, Intended, Barring, Marked
  <2>7. NoLapse => LeasedOK(w)'
    BY <1>1, <1>2, <2>1, <2>2 DEF LeasedOK, Covers, Sharers, Marked, WorkPcs, Holds
  <2>8. /\ \A j \in Jobs : JobOK(j)'
        /\ \A k \in Keys : Findable(k)'
        /\ \A y \in done' : DoneOK(y)'
        /\ NoLapse => \A y \in done' : Erased(y)'
        /\ Flushed => CacheOK(hot, log)'
    BY <1>1, <2>4, StoreFacts, JobsGrow DEF Findable, DoneOK, Erased, Clean, CacheOK, IsTail
  <2> QED
    BY <1>2, <2>2, <2>3, <2>4, <2>5, <2>6, <2>7, <2>8, WriteKeeps
<1> QED
  BY <1>1, <1>3, <1>4

\* The sources are forgotten one by one.
LEMMA TombstoneKeeps ==
  ASSUME IInv, NEW w \in Workers, Tombstone(w)
  PROVE  IInv'
<1> DEFINE x == my[w].x
           Going(l, label) ==
             /\ my' = [my EXCEPT ![w] = l] /\ l.barred = my[w].barred /\ l.x = x
             /\ l.op = my[w].op /\ l.covered = my[w].covered
             /\ Goto(w, label) \/ (UNCHANGED pc /\ label = pc[w])
             /\ label = "tomb" => x.sources \subseteq tomb' \cup l.todo
             /\ label = "mark" => x.sources \subseteq tomb'
<1>1. /\ pc[w] = "tomb" /\ {"tomb", "mark"} \subseteq ErasePcs
      /\ UNCHANGED <<log, hot, activity, job, mem, summary, started, done, manifest, object, lease, count>>
      /\ \/ my[w].todo = {} /\ Goto(w, "mark") /\ UNCHANGED <<tomb, my>>
         \/ \E s \in my[w].todo : /\ tomb' = tomb \cup {s} /\ UNCHANGED pc
                                  /\ my' = [my EXCEPT ![w].todo = @ \ {s}]
  BY DEF Tombstone, ErasePcs, forget, archive
<1>2. /\ TypeOK /\ my[w] \in Locals /\ pc[w] \in Leasing /\ CountKept /\ x \in DOMAIN mem
      /\ my[w].todo \subseteq Messages /\ EraseOK(w) /\ x \in started
      /\ x.sources \subseteq tomb \cup my[w].todo /\ (NoLapse => Holds(w) /\ LeasedOK(w))
  BY <1>1, EraseFacts, CountTyped, Fields DEF EraseOK, Intended
<1>3. tomb \subseteq tomb' /\ tomb' \subseteq Messages
  BY <1>1, <1>2, TypeNow
<1>4. Grows
  BY <1>1, <1>3 DEF Grows, Safe
<1>5. \E l \in Locals, label \in {"tomb", "mark"} : Going(l, label)
  <2>1. CASE my[w].todo = {} /\ Goto(w, "mark") /\ UNCHANGED <<tomb, my>>
    <3>1. my' = [my EXCEPT ![w] = my[w]]
      BY <1>2, <2>1, TypeNow
    <3> QED
      BY <1>2, <2>1, <3>1
  <2>2. ASSUME NEW s \in my[w].todo, tomb' = tomb \cup {s}, UNCHANGED pc,
               my' = [my EXCEPT ![w].todo = @ \ {s}]
        PROVE  \E l \in Locals, label \in {"tomb", "mark"} : Going(l, label)
    <3> DEFINE rest == my[w].todo \ {s}
               l == [my[w] EXCEPT !.todo = rest]
    <3>1. my' = [my EXCEPT ![w] = l]
      BY <1>2, <2>2, TypeNow DEF Locals
    <3>2. rest \subseteq Messages /\ x.sources \subseteq tomb' \cup rest
      BY <1>2, <2>2
    <3> HIDE DEF rest
    <3>3. /\ l \in Locals /\ l.barred = my[w].barred /\ l.x = x
          /\ l.op = my[w].op /\ l.covered = my[w].covered /\ l.todo = rest
      BY <1>2, <3>2 DEF Locals
    <3> HIDE DEF l
    <3> QED
      BY <1>1, <2>2, <3>1, <3>2, <3>3
  <2> QED
    BY <1>1, <2>1, <2>2
<1>6. PICK l \in Locals, label \in {"tomb", "mark"} : Going(l, label)
  BY <1>5
<1>7. /\ pc' \in [Workers -> Labels] /\ pc'[w] = label
      /\ my' \in [Workers -> Locals] /\ my'[w] = l /\ Others(w)
      /\ AssembleOK(w)' /\ WorkOK(w)'
  BY <1>1, <1>3, <1>6, EraseStays
<1>8. TypeOK'
  BY <1>1, <1>2, <1>3, <1>7, TypeNow, TypeNext DEF MemOK
<1>9. CacheLeased(w)'
  BY <1>7, Elsewhere
<1>10. EraseOK(w)'
  BY <1>1, <1>2, <1>6, <1>7 DEF EraseOK, Intended, Barring, Marked
<1>11. NoLapse => LeasedOK(w)'
  BY <1>1, <1>2, <1>6, <1>7 DEF LeasedOK, Covers, Sharers, Marked, WorkPcs, Holds
<1>12. /\ \A j \in Jobs : JobOK(j)'
       /\ \A k \in Keys : Findable(k)'
       /\ \A y \in done' : DoneOK(y)'
       /\ NoLapse => \A y \in done' : Erased(y)'
       /\ Flushed => CacheOK(hot, log)'
  BY <1>1, <1>3, <1>4, StoreFacts, JobsGrow DEF Findable, DoneOK, Erased, Clean, CacheOK, IsTail
<1> QED
  BY <1>2, <1>4, <1>7, <1>8, <1>9, <1>10, <1>11, <1>12, WriteKeeps

\* A memory that is set aside is active no more, the others are as they were.
LEMMA SetAside ==
  ASSUME TypeOK, NEW x \in DOMAIN mem, mem' = [mem EXCEPT ![x] = "soft_deleted"]
  PROVE  /\ MemOK' /\ DOMAIN mem' = DOMAIN mem /\ mem'[x] # "active"
         /\ \A y \in DOMAIN mem : mem[y] # "active" => mem'[y] # "active"
  BY TypeNow DEF MemOK

\* The memory is forgotten, and those that share a source are listed.
LEMMA MarkForgottenKeeps ==
  ASSUME IInv, NEW w \in Workers, MarkForgotten(w)
  PROVE  IInv'
<1> DEFINE x == my[w].x
           others == Sharers(x)
           aff == Sharers(x) \cup {x}
           l == [my[w] EXCEPT !.ids = others, !.affected = aff]
<1>1. /\ pc[w] = "mark" /\ {"mark", "cascade"} \subseteq ErasePcs /\ mem' = [mem EXCEPT ![x] = "soft_deleted"]
      /\ UNCHANGED <<log, hot, activity, tomb, job, summary, started, done, manifest, object, lease, count>>
      /\ my' = [my EXCEPT ![w] = l] /\ Goto(w, "cascade")
  <2>1. TypeOK /\ my[w] \in Locals
    BY CallerFacts
  <2> QED
    BY <2>1, TypeNow DEF MarkForgotten, ErasePcs, forget, archive, Locals
<1>2. /\ TypeOK /\ my[w] \in Locals /\ pc[w] \in Leasing /\ CountKept /\ x \in DOMAIN mem /\ x \in MemoryId
      /\ EraseOK(w) /\ x \in started /\ x.sources \subseteq tomb /\ (NoLapse => Holds(w) /\ LeasedOK(w))
  BY <1>1, EraseFacts, CountTyped DEF EraseOK, Intended, Barring
<1>3. others \subseteq DOMAIN mem /\ others \subseteq MemoryId /\ aff \subseteq MemoryId /\ x \in aff
  BY <1>2, TypeNow DEF Sharers, MemOK
<1>4. NoLapse /\ my[w].op = "retain" /\ my[w].covered # {} => \A y \in aff : Covers(w, y)
  BY <1>1, <1>2 DEF LeasedOK
<1> HIDE DEF others, aff
<1>5. /\ l \in Locals /\ l.barred = my[w].barred /\ l.x = x /\ l.ids = others /\ l.affected = aff
      /\ l.op = my[w].op /\ l.covered = my[w].covered
  <2> DEFINE b == [my[w] EXCEPT !.ids = others]
  <2>1. /\ b \in Locals /\ b.barred = my[w].barred /\ b.x = x /\ b.ids = others
        /\ b.op = my[w].op /\ b.covered = my[w].covered
    BY <1>2, <1>3 DEF Locals
  <2>2. l = [b EXCEPT !.affected = aff]
    OBVIOUS
  <2> HIDE DEF b
  <2> QED
    BY <1>3, <2>1, <2>2 DEF Locals
<1> HIDE DEF l
<1>6. /\ pc' \in [Workers -> Labels] /\ pc'[w] = "cascade"
      /\ my' \in [Workers -> Locals] /\ my'[w] = l /\ Others(w)
      /\ AssembleOK(w)' /\ WorkOK(w)'
  BY <1>1, <1>5, EraseStays
<1>7. /\ MemOK' /\ DOMAIN mem' = DOMAIN mem /\ mem'[x] # "active"
      /\ \A y \in DOMAIN mem : mem[y] # "active" => mem'[y] # "active"
  BY <1>1, <1>2, SetAside
<1>8. TypeOK'
  BY <1>1, <1>2, <1>6, <1>7, TypeNow, TypeNext
<1>9. Grows
  BY <1>1, <1>7 DEF Grows, Safe
<1>10. CacheLeased(w)'
  BY <1>6, Elsewhere
<1>11. EraseOK(w)'
  BY <1>1, <1>2, <1>3, <1>5, <1>6, <1>7 DEF EraseOK, Intended, Barring, Marked
<1>12. NoLapse => LeasedOK(w)'
  BY <1>1, <1>2, <1>4, <1>5, <1>6 DEF LeasedOK, Covers, Marked, WorkPcs, Holds
<1>13. /\ \A j \in Jobs : JobOK(j)'
       /\ \A k \in Keys : Findable(k)'
       /\ \A y \in done' : DoneOK(y)'
       /\ NoLapse => \A y \in done' : Erased(y)'
       /\ Flushed => CacheOK(hot, log)'
  BY <1>1, <1>7, <1>9, StoreFacts, JobsGrow DEF Findable, DoneOK, Erased, Clean, CacheOK, IsTail
<1> QED
  BY <1>2, <1>6, <1>8, <1>9, <1>10, <1>11, <1>12, <1>13, WriteKeeps

\* The memories that share a source are set aside one by one; a failure is remembered.
LEMMA CascadeKeeps ==
  ASSUME IInv, NEW w \in Workers, Cascade(w)
  PROVE  IInv'
<1> DEFINE x == my[w].x
           Going(l, label) ==
             /\ my' = [my EXCEPT ![w] = l] /\ l.barred = my[w].barred /\ l.x = x
             /\ l.op = my[w].op /\ l.covered = my[w].covered /\ l.affected = my[w].affected
             /\ l.ids \subseteq my[w].ids
             /\ Goto(w, label) \/ (UNCHANGED pc /\ label = pc[w])
<1>1. /\ pc[w] = "cascade" /\ {"cascade", "flush"} \subseteq ErasePcs
      /\ UNCHANGED <<log, hot, activity, tomb, job, summary, started, done, manifest, object, lease>>
      /\ \/ my[w].ids = {} /\ Goto(w, "flush") /\ UNCHANGED <<mem, my, count>>
         \/ \E y \in my[w].ids, stored \in BOOLEAN :
              /\ \/ mem' = [mem EXCEPT ![y] = "soft_deleted"] /\ UNCHANGED count
                 \/ Fault /\ UNCHANGED mem
              /\ my' = [my EXCEPT ![w].ids = @ \ {y}, ![w].ok = @ /\ stored]
              /\ UNCHANGED pc
  BY DEF Cascade, ErasePcs, forget, archive
<1>2. /\ TypeOK /\ my[w] \in Locals /\ pc[w] \in Leasing /\ x \in DOMAIN mem
      /\ my[w].ids \subseteq MemoryId /\ my[w].ids \subseteq DOMAIN mem /\ my[w].ok \in BOOLEAN
      /\ x \in started /\ x.sources \subseteq tomb /\ mem[x] # "active" /\ x \in my[w].affected
      /\ (NoLapse => Holds(w) /\ LeasedOK(w))
  BY <1>1, EraseFacts, Fields DEF EraseOK, Intended, Barring, Marked
<1>3. /\ CountKept /\ MemOK' /\ DOMAIN mem' = DOMAIN mem
      /\ \A y \in DOMAIN mem : mem[y] # "active" => mem'[y] # "active"
      /\ \E l \in Locals, label \in {"cascade", "flush"} : Going(l, label)
  <2>1. CASE my[w].ids = {} /\ Goto(w, "flush") /\ UNCHANGED <<mem, my, count>>
    <3>1. my' = [my EXCEPT ![w] = my[w]] /\ CountKept /\ MemOK'
      BY <1>2, <2>1, TypeNow, CountTyped DEF MemOK
    <3>2. Going(my[w], "flush")
      BY <2>1, <3>1
    <3> HIDE DEF Going
    <3> QED
      BY <1>2, <2>1, <3>1, <3>2
  <2>2. ASSUME NEW y \in my[w].ids, NEW stored \in BOOLEAN, UNCHANGED pc,
               \/ mem' = [mem EXCEPT ![y] = "soft_deleted"] /\ UNCHANGED count
               \/ Fault /\ UNCHANGED mem,
               my' = [my EXCEPT ![w].ids = @ \ {y}, ![w].ok = @ /\ stored]
        PROVE  /\ CountKept /\ MemOK' /\ DOMAIN mem' = DOMAIN mem
               /\ \A z \in DOMAIN mem : mem[z] # "active" => mem'[z] # "active"
               /\ \E l \in Locals, label \in {"cascade", "flush"} : Going(l, label)
    <3> DEFINE rest == my[w].ids \ {y}
               ok == my[w].ok /\ stored
               b == [my[w] EXCEPT !.ids = rest]
               l == [b EXCEPT !.ok = ok]
    <3>1. my' = [my EXCEPT ![w] = l]
      BY <1>2, <2>2, TypeNow DEF Locals
    <3>2. rest \subseteq MemoryId /\ rest \subseteq my[w].ids /\ ok \in BOOLEAN
      BY <1>2, <2>2
    <3> HIDE DEF rest, ok
    <3>3. /\ b \in Locals /\ b.barred = my[w].barred /\ b.x = x /\ b.ids = rest
          /\ b.op = my[w].op /\ b.covered = my[w].covered /\ b.affected = my[w].affected
      BY <1>2, <3>2 DEF Locals
    <3> HIDE DEF b
    <3>4. /\ l \in Locals /\ l.barred = my[w].barred /\ l.x = x /\ l.ids = rest
          /\ l.op = my[w].op /\ l.covered = my[w].covered /\ l.affected = my[w].affected
      BY <3>2, <3>3 DEF Locals
    <3> HIDE DEF l
    <3>5. Going(l, "cascade")
      BY <1>1, <2>2, <3>1, <3>2, <3>4
    <3>6. CountKept
      BY <1>2, <2>2, CountTyped
    <3>7. /\ MemOK' /\ DOMAIN mem' = DOMAIN mem
          /\ \A z \in DOMAIN mem : mem[z] # "active" => mem'[z] # "active"
      <4>1. y \in DOMAIN mem
        BY <1>2, <2>2
      <4>2. CASE UNCHANGED mem
        BY <1>2, <4>2, TypeNow DEF MemOK
      <4> QED
        BY <1>2, <2>2, <4>1, <4>2, SetAside
    <3> HIDE DEF Going
    <3> QED
      BY <3>4, <3>5, <3>6, <3>7
  <2> QED
    BY <1>1, <2>1, <2>2
<1>4. PICK l \in Locals, label \in {"cascade", "flush"} : Going(l, label)
  BY <1>3
<1>5. /\ pc' \in [Workers -> Labels] /\ pc'[w] = label
      /\ my' \in [Workers -> Locals] /\ my'[w] = l /\ Others(w)
      /\ AssembleOK(w)' /\ WorkOK(w)'
  <2>1. /\ my' = [my EXCEPT ![w] = l] /\ l.barred = my[w].barred
        /\ Goto(w, label) \/ (UNCHANGED pc /\ label = pc[w])
        /\ label \in ErasePcs /\ tomb \subseteq tomb' /\ pc[w] \in ErasePcs
    BY <1>1, <1>4
  <2> HIDE DEF Going
  <2> QED
    BY <2>1, EraseStays
<1>6. TypeOK'
  BY <1>1, <1>2, <1>3, <1>5, TypeNow, TypeNext DEF CountKept
<1>7. Grows
  BY <1>1, <1>3 DEF Grows, Safe
<1>8. CacheLeased(w)'
  BY <1>5, Elsewhere
<1>9. EraseOK(w)'
  BY <1>1, <1>2, <1>3, <1>4, <1>5 DEF EraseOK, Intended, Barring, Marked
<1>10. NoLapse => LeasedOK(w)'
  BY <1>1, <1>2, <1>4, <1>5 DEF LeasedOK, Covers, Marked, WorkPcs, Holds
<1>11. /\ \A j \in Jobs : JobOK(j)'
       /\ \A k \in Keys : Findable(k)'
       /\ \A y \in done' : DoneOK(y)'
       /\ NoLapse => \A y \in done' : Erased(y)'
       /\ Flushed => CacheOK(hot, log)'
  BY <1>1, <1>3, <1>7, StoreFacts, JobsGrow DEF Findable, DoneOK, Erased, Clean, CacheOK, IsTail
<1> QED
  BY <1>2, <1>3, <1>5, <1>6, <1>7, <1>8, <1>9, <1>10, <1>11, WriteKeeps

\* The cached keys are dropped, or it is counted that they were not; the archive is listed.
LEMMA InvalidateScopeKeeps ==
  ASSUME IInv, NEW w \in Workers, InvalidateScope(w)
  PROVE  IInv'
<1> DEFINE x == my[w].x
           live == {k \in Keys : manifest[k] \in {"pending", "stored"}}
           lost == [count EXCEPT !.faults = @ + 1, !.unflushed = @ + 1]
           Going(l) == /\ my' = [my EXCEPT ![w] = l] /\ l.barred = my[w].barred /\ l.x = x
                       /\ l.op = my[w].op /\ l.covered = my[w].covered
                       /\ l.affected = my[w].affected /\ l.keys = live
<1>1. /\ pc[w] = "flush" /\ {"flush", "purge"} \subseteq ErasePcs /\ Goto(w, "purge")
      /\ UNCHANGED <<log, activity, tomb, job, mem, summary, started, done, manifest, object, lease>>
      /\ \/ /\ hot' = <<>> /\ UNCHANGED count
            /\ my' = [my EXCEPT ![w].keys = live]
         \/ /\ UNCHANGED hot /\ count' = lost
            /\ my' = [my EXCEPT ![w].keys = live, ![w].ok = FALSE]
  BY DEF InvalidateScope, Flush, ErasePcs, rows, forget, archive
<1>2. /\ TypeOK /\ my[w] \in Locals /\ pc[w] \in Leasing /\ x \in DOMAIN mem
      /\ x \in started /\ x.sources \subseteq tomb /\ mem[x] # "active" /\ x \in my[w].affected
      /\ (NoLapse => Holds(w) /\ LeasedOK(w))
  BY <1>1, EraseFacts DEF EraseOK, Intended, Barring, Marked
<1>3. live \subseteq Keys /\ \A k \in Keys : object[k] = "content" => k \in live
  BY StoreFacts DEF Findable
<1> HIDE DEF live
<1>4. PICK l \in Locals : Going(l)
  <2> DEFINE b == [my[w] EXCEPT !.keys = live]
             c == [b EXCEPT !.ok = FALSE]
  <2>1. my' = [my EXCEPT ![w] = b] \/ my' = [my EXCEPT ![w] = c]
    BY <1>1, <1>2, TypeNow DEF Locals
  <2>2. /\ b \in Locals /\ b.barred = my[w].barred /\ b.x = x /\ b.keys = live
        /\ b.op = my[w].op /\ b.covered = my[w].covered /\ b.affected = my[w].affected
    BY <1>2, <1>3 DEF Locals
  <2> HIDE DEF b
  <2>3. /\ c \in Locals /\ c.barred = my[w].barred /\ c.x = x /\ c.keys = live
        /\ c.op = my[w].op /\ c.covered = my[w].covered /\ c.affected = my[w].affected
    BY <2>2 DEF Locals
  <2> HIDE DEF c
  <2> QED
    BY <2>1, <2>2, <2>3
<1>5. /\ count' \in Counts /\ count'.lapses = count.lapses
      /\ (hot' = <<>> /\ UNCHANGED count) \/ (UNCHANGED hot /\ count'.unflushed # 0)
  <2>1. count \in Counts
    BY <1>2, TypeNow
  <2> DEFINE b == [count EXCEPT !.faults = @ + 1]
             c == [b EXCEPT !.unflushed = @ + 1]
  <2>2. b \in Counts /\ b.lapses = count.lapses
    BY <2>1 DEF Counts
  <2>3. lost = c
    BY <2>1 DEF Counts
  <2> HIDE DEF b
  <2>4. c \in Counts /\ c.lapses = count.lapses /\ c.unflushed = b.unflushed + 1 /\ b.unflushed \in Nat
    BY <2>2 DEF Counts
  <2> HIDE DEF c
  <2>5. (hot' = <<>> /\ UNCHANGED count) \/ (UNCHANGED hot /\ count' = c)
    BY <1>1, <2>3
  <2> QED
    BY <2>1, <2>4, <2>5
<1> HIDE DEF lost
<1>6. /\ pc' \in [Workers -> Labels] /\ pc'[w] = "purge"
      /\ my' \in [Workers -> Locals] /\ my'[w] = l /\ Others(w)
      /\ AssembleOK(w)' /\ WorkOK(w)'
  BY <1>1, <1>4, EraseStays
<1>7. TypeOK'
  <2>1. hot \in Seq(Messages) /\ <<>> \in Seq(Messages)
    BY <1>2, TypeNow
  <2>2. hot' = <<>> \/ hot' = hot
    BY <1>5
  <2>3. hot' \in Seq(Messages)
    BY <2>1, <2>2
  <2> QED
    BY <1>1, <1>2, <1>5, <1>6, <2>3, TypeNow, TypeNext DEF MemOK
<1>8. Grows
  BY <1>1 DEF Grows, Safe
<1>9. Flushed' => hot' = <<>>
  BY <1>5 DEF Flushed
<1>10. Flushed' => CacheOK(hot, log)' /\ CacheLeased(w)'
  BY <1>6, <1>9 DEF CacheOK, CacheLeased
<1>11. EraseOK(w)'
  BY <1>1, <1>2, <1>4, <1>6 DEF EraseOK, Intended, Barring, Marked
<1>12. NoLapse => LeasedOK(w)'
  BY <1>1, <1>2, <1>3, <1>4, <1>6 DEF LeasedOK, Covers, Marked, WorkPcs, Holds
<1>13. /\ \A j \in Jobs : JobOK(j)'
       /\ \A k \in Keys : Findable(k)'
       /\ \A y \in done' : DoneOK(y)'
       /\ NoLapse => \A y \in done' : Erased(y)'
  BY <1>1, <1>8, StoreFacts, JobsGrow DEF Findable, DoneOK, Erased, Clean
<1>14. NoLapse => Alone(w)
  BY <1>2 DEF Alone
<1>15. count'.unflushed = 0 => count.unflushed = 0
  BY <1>5
<1> QED
  BY <1>5, <1>6, <1>7, <1>8, <1>10, <1>11, <1>12, <1>13, <1>14, <1>15, StepKeeps

\* A transcript is replaced by its tombstone; when none is left, or one fails, the texts are next.
LEMMA TombstoneObjectKeeps ==
  ASSUME IInv, NEW w \in Workers, TombstoneObject(w)
  PROVE  IInv'
<1> DEFINE x == my[w].x
           Going(l, label) ==
             /\ my' = [my EXCEPT ![w] = l] /\ l.barred = my[w].barred /\ l.x = x
             /\ l.op = my[w].op /\ l.covered = my[w].covered /\ l.affected = my[w].affected
             /\ l.keys = my[w].keys /\ Goto(w, label)
             /\ label = "purged" => l.k \in Keys /\ object'[l.k] = "tombstone"
             /\ label = "scrub" => /\ l.ids = my[w].affected /\ UNCHANGED object
                                   /\ l.ok => my[w].keys = {}
<1>1. /\ pc[w] = "purge" /\ {"purge", "purged", "scrub"} \subseteq ErasePcs
      /\ UNCHANGED <<log, hot, activity, tomb, job, mem, summary, started, done, manifest, lease>>
      /\ \/ /\ my[w].keys = {} /\ my' = [my EXCEPT ![w].ids = my[w].affected] /\ Goto(w, "scrub")
            /\ UNCHANGED <<object, count>>
         \/ \E k \in my[w].keys : /\ object' = [object EXCEPT ![k] = "tombstone"]
                                  /\ my' = [my EXCEPT ![w].k = k] /\ Goto(w, "purged") /\ UNCHANGED count
         \/ /\ Fault /\ my' = [my EXCEPT ![w].ids = my[w].affected, ![w].ok = FALSE]
            /\ Goto(w, "scrub") /\ UNCHANGED object
  BY DEF TombstoneObject, ErasePcs, rows, forget
<1>2. /\ TypeOK /\ my[w] \in Locals /\ pc[w] \in Leasing /\ x \in DOMAIN mem
      /\ my[w].keys \subseteq Keys /\ my[w].affected \subseteq MemoryId
      /\ x \in started /\ x.sources \subseteq tomb /\ mem[x] # "active" /\ x \in my[w].affected
      /\ (NoLapse => Holds(w) /\ LeasedOK(w)) /\ (Flushed => hot = <<>>)
  BY <1>1, EraseFacts, Fields DEF EraseOK, Intended, Barring, Marked, CacheLeased
<1>3. /\ object' \in [Keys -> Object]
      /\ \A k \in Keys : object'[k] = object[k] \/ object'[k] = "tombstone"
      /\ CountKept
  <2>1. object \in [Keys -> Object]
    BY <1>2, TypeNow
  <2>2. object' \in [Keys -> Object] /\ \A k \in Keys : object'[k] = object[k] \/ object'[k] = "tombstone"
    <3>1. CASE UNCHANGED object
      BY <2>1, <3>1
    <3>2. ASSUME NEW k \in my[w].keys, object' = [object EXCEPT ![k] = "tombstone"]
          PROVE  /\ object' \in [Keys -> Object]
                 /\ \A q \in Keys : object'[q] = object[q] \/ object'[q] = "tombstone"
      BY <1>2, <2>1, <3>2 DEF Object
    <3> QED
      BY <1>1, <3>1, <3>2
  <2>3. UNCHANGED count \/ Fault
    BY <1>1
  <2> QED
    BY <1>2, <2>2, <2>3, CountTyped
<1>4. PICK l \in Locals, label \in {"purged", "scrub"} : Going(l, label)
  <2> DEFINE b == [my[w] EXCEPT !.ids = my[w].affected]
             c == [b EXCEPT !.ok = FALSE]
  <2>1. /\ b \in Locals /\ b.barred = my[w].barred /\ b.x = x /\ b.ids = my[w].affected
        /\ b.op = my[w].op /\ b.covered = my[w].covered /\ b.affected = my[w].affected
        /\ b.keys = my[w].keys
    BY <1>2 DEF Locals
  <2>2. CASE /\ my[w].keys = {} /\ my' = [my EXCEPT ![w].ids = my[w].affected] /\ Goto(w, "scrub")
             /\ UNCHANGED object
    <3>1. my' = [my EXCEPT ![w] = b]
      BY <1>2, <2>2, TypeNow DEF Locals
    <3> HIDE DEF b
    <3>2. Going(b, "scrub")
      BY <2>1, <2>2, <3>1
    <3> HIDE DEF Going
    <3> QED
      BY <2>1, <3>2
  <2>3. CASE /\ my' = [my EXCEPT ![w].ids = my[w].affected, ![w].ok = FALSE] /\ Goto(w, "scrub")
             /\ UNCHANGED object
    <3>1. my' = [my EXCEPT ![w] = c]
      BY <1>2, <2>3, TypeNow DEF Locals
    <3> HIDE DEF b
    <3>2. /\ c \in Locals /\ c.barred = my[w].barred /\ c.x = x /\ c.ids = my[w].affected
          /\ c.op = my[w].op /\ c.covered = my[w].covered /\ c.affected = my[w].affected
          /\ c.keys = my[w].keys /\ ~c.ok
      BY <2>1 DEF Locals
    <3> HIDE DEF c
    <3>3. Going(c, "scrub")
      BY <2>3, <3>1, <3>2
    <3> HIDE DEF Going
    <3> QED
      BY <3>2, <3>3
  <2>4. ASSUME NEW k \in my[w].keys, object' = [object EXCEPT ![k] = "tombstone"],
               my' = [my EXCEPT ![w].k = k], Goto(w, "purged")
        PROVE  \E l \in Locals, label \in {"purged", "scrub"} : Going(l, label)
    <3> DEFINE d == [my[w] EXCEPT !.k = k]
    <3>1. my' = [my EXCEPT ![w] = d]
      BY <1>2, <2>4, TypeNow DEF Locals
    <3>2. k \in Keys /\ object'[k] = "tombstone"
      BY <1>2, <2>4, TypeNow
    <3>3. /\ d \in Locals /\ d.barred = my[w].barred /\ d.x = x /\ d.k = k
          /\ d.op = my[w].op /\ d.covered = my[w].covered /\ d.affected = my[w].affected
          /\ d.keys = my[w].keys
      BY <1>2, <3>2 DEF Locals
    <3> HIDE DEF d
    <3>4. Going(d, "purged")
      BY <2>4, <3>1, <3>2, <3>3
    <3> HIDE DEF Going
    <3> QED
      BY <3>3, <3>4
  <2> HIDE DEF Going, b, c
  <2> QED
    BY <1>1, <2>2, <2>3, <2>4
<1>5. /\ pc' \in [Workers -> Labels] /\ pc'[w] = label
      /\ my' \in [Workers -> Locals] /\ my'[w] = l /\ Others(w)
      /\ AssembleOK(w)' /\ WorkOK(w)'
  <2>1. /\ my' = [my EXCEPT ![w] = l] /\ l.barred = my[w].barred /\ Goto(w, label)
        /\ label \in ErasePcs /\ tomb \subseteq tomb' /\ pc[w] \in ErasePcs
    BY <1>1, <1>4
  <2> HIDE DEF Going
  <2> QED
    BY <2>1, EraseStays
<1>6. TypeOK'
  BY <1>1, <1>2, <1>3, <1>5, TypeNow, TypeNext DEF MemOK, CountKept
<1>7. Grows
  BY <1>1, <1>3 DEF Grows, Safe
<1>8. Flushed => CacheOK(hot, log)' /\ CacheLeased(w)'
  BY <1>1, <1>2, <1>5 DEF CacheOK, CacheLeased
<1>9. EraseOK(w)'
  BY <1>1, <1>2, <1>4, <1>5 DEF EraseOK, Intended, Barring, Marked
<1>10. ASSUME NoLapse PROVE LeasedOK(w)'
  <2>1. /\ Holds(w)'
        /\ \A k \in Keys : object'[k] = "content" => object[k] = "content" /\ k \in my[w].keys
    BY <1>1, <1>2, <1>3, <1>10 DEF LeasedOK, Holds
  <2>2. /\ my[w].op = "retain" /\ my[w].covered # {} => \A y \in my[w].affected : Covers(w, y)
    BY <1>1, <1>2, <1>10 DEF LeasedOK, Marked
  <2>3. /\ l.op = "retain" /\ l.covered # {} => \A y \in l.affected : y.sources \subseteq l.covered
    BY <1>4, <2>2 DEF Covers
  <2>4. label = "scrub" => /\ l.ok => \A k \in Keys : object'[k] # "content"
                           /\ l.ids \subseteq l.affected /\ x \in l.ids
    BY <1>2, <1>4, <2>1
  <2>5. l.x = x /\ l.keys = my[w].keys
    BY <1>4
  <2> QED
    BY <1>1, <1>5, <2>1, <2>3, <2>4, <2>5 DEF LeasedOK, Covers, Marked, WorkPcs
<1>11. \A k \in Keys : Findable(k)'
  BY <1>1, <1>3, StoreFacts DEF Findable
<1>12. /\ \A j \in Jobs : JobOK(j)'
       /\ \A y \in done' : DoneOK(y)'
       /\ NoLapse => \A y \in done' : Erased(y)'
  BY <1>1, <1>3, <1>7, StoreFacts, JobsGrow DEF DoneOK, Erased, Clean
<1> QED
  BY <1>2, <1>3, <1>5, <1>6, <1>7, <1>8, <1>9, <1>10, <1>11, <1>12, WriteKeeps

\* The row of a replaced transcript says so.
LEMMA TombstoneManifestKeeps ==
  ASSUME IInv, NEW w \in Workers, TombstoneManifest(w)
  PROVE  IInv'
<1> DEFINE x == my[w].x
           k == my[w].k
           rest == my[w].keys \ {k}
           l == [my[w] EXCEPT !.keys = rest]
<1>1. /\ pc[w] = "purged" /\ {"purge", "purged"} \subseteq ErasePcs /\ Goto(w, "purge")
      /\ manifest' = [manifest EXCEPT ![k] = "tombstoned"]
      /\ UNCHANGED <<log, hot, activity, tomb, job, mem, summary, started, done, object, lease, count>>
  BY DEF TombstoneManifest, ErasePcs, rows, forget
<1>2. /\ TypeOK /\ my[w] \in Locals /\ pc[w] \in Leasing /\ x \in DOMAIN mem /\ CountKept
      /\ my[w].keys \subseteq Keys /\ k \in Keys /\ object[k] = "tombstone"
      /\ x \in started /\ x.sources \subseteq tomb /\ mem[x] # "active" /\ x \in my[w].affected
      /\ (NoLapse => Holds(w) /\ LeasedOK(w)) /\ (Flushed => hot = <<>>)
  BY <1>1, EraseFacts, Fields, CountTyped DEF EraseOK, Intended, Barring, Marked, CacheLeased
<1>3. my' = [my EXCEPT ![w] = l]
  BY <1>2, TypeNow DEF TombstoneManifest, Locals
<1>4. /\ rest \subseteq Keys
      /\ NoLapse => \A q \in Keys : object[q] = "content" => q \in rest
  BY <1>1, <1>2 DEF LeasedOK
<1> HIDE DEF rest
<1>5. /\ l \in Locals /\ l.barred = my[w].barred /\ l.x = x /\ l.keys = rest
      /\ l.op = my[w].op /\ l.covered = my[w].covered /\ l.affected = my[w].affected
  BY <1>2, <1>4 DEF Locals
<1> HIDE DEF l
<1>6. /\ pc' \in [Workers -> Labels] /\ pc'[w] = "purge"
      /\ my' \in [Workers -> Locals] /\ my'[w] = l /\ Others(w)
      /\ AssembleOK(w)' /\ WorkOK(w)'
  BY <1>1, <1>3, <1>5, EraseStays
<1>7. /\ manifest' \in [Keys -> Manifest]
      /\ \A q \in Keys : q # k => manifest'[q] = manifest[q]
  BY <1>1, <1>2, TypeNow DEF Manifest
<1>8. TypeOK'
  BY <1>1, <1>2, <1>6, <1>7, TypeNow, TypeNext DEF MemOK
<1>9. Grows
  BY <1>1, <1>2, <1>7 DEF Grows, Safe
<1>10. Flushed => CacheOK(hot, log)' /\ CacheLeased(w)'
  BY <1>1, <1>2, <1>6 DEF CacheOK, CacheLeased
<1>11. EraseOK(w)'
  BY <1>1, <1>2, <1>5, <1>6 DEF EraseOK, Intended, Barring, Marked
<1>12. NoLapse => LeasedOK(w)'
  BY <1>1, <1>2, <1>4, <1>5, <1>6 DEF LeasedOK, Covers, Marked, WorkPcs, Holds
<1>13. \A q \in Keys : Findable(q)'
  BY <1>1, <1>2, <1>7, StoreFacts DEF Findable
<1>14. /\ \A j \in Jobs : JobOK(j)'
       /\ \A y \in done' : DoneOK(y)'
       /\ NoLapse => \A y \in done' : Erased(y)'
  BY <1>1, <1>9, StoreFacts, JobsGrow DEF DoneOK, Erased, Clean
<1> QED
  BY <1>2, <1>6, <1>8, <1>9, <1>10, <1>11, <1>12, <1>13, <1>14, WriteKeeps

\* A scrubbed record claims no more than it did, and completion no longer.
LEMMA ScrubbedOK ==
  ASSUME IInv, NEW j \in Jobs
  PROVE  /\ ScrubbedJob(job[j]) \in Record
         /\ RecordOK(j, ScrubbedJob(job[j]))
         /\ ScrubbedJob(job[j]).status = "none" =>
              ScrubbedJob(job[j]).accepted = 0 /\ ~ScrubbedJob(job[j]).archived
         /\ ScrubbedJob(job[j]).status # "completed"
<1> DEFINE r == job[j]
           s == [r EXCEPT !.status = "failed"]
<1>1. r \in Record /\ RecordOK(j, r) /\ (r.status = "none" => r.accepted = 0 /\ ~r.archived)
  BY TypeNow, StoreFacts DEF JobOK
<1> HIDE DEF r
<1>2. /\ s \in Record /\ s.input = r.input /\ s.plan = r.plan /\ s.accepted = r.accepted
      /\ s.archived = r.archived /\ s.status = "failed"
  BY <1>1 DEF Record
<1> HIDE DEF s
<1>3. RecordOK(j, s)
  BY <1>1, <1>2 DEF RecordOK
<1>4. ScrubbedJob(r) = IF r.status = "none" THEN r ELSE s
  BY DEF ScrubbedJob, s
<1>5. (ScrubbedJob(r) = r /\ r.status = "none") \/ ScrubbedJob(r) = s
  BY <1>4
<1> QED
  BY <1>1, <1>2, <1>3, <1>5 DEF r

\* The texts of one affected memory are deleted, with the summary and the records.
LEMMA ScrubSourcesKeeps ==
  ASSUME IInv, NEW w \in Workers, ScrubSources(w)
  PROVE  IInv'
<1> DEFINE x == my[w].x
           Going(l, label) ==
             /\ my' = [my EXCEPT ![w] = l] /\ l.barred = my[w].barred /\ l.x = x
             /\ l.op = my[w].op /\ l.covered = my[w].covered /\ l.affected = my[w].affected
             /\ Goto(w, label) \/ (UNCHANGED pc /\ label = pc[w])
             /\ l.ok => my[w].ok
             /\ l.ids \subseteq my[w].ids
             /\ \A y \in my[w].ids : y \in l.ids \/ y.sources \cap (ToSet(log') \cup summary') = {}
                                     \/ (label = "answer" /\ ~l.ok)
             /\ label = "answer" /\ l.ok => my[w].ids = {}
<1>1. /\ pc[w] = "scrub" /\ {"scrub", "answer"} \subseteq ErasePcs
      /\ UNCHANGED <<hot, activity, tomb, mem, started, done, manifest, object, lease>>
      /\ \/ /\ my[w].ids = {} /\ Goto(w, "answer") /\ UNCHANGED <<log, summary, job, my, count>>
         \/ \E y \in my[w].ids : /\ log' = DeletedFrom(y.sources)
                                 /\ summary' = {}
                                 /\ job' = [j \in Jobs |-> ScrubbedJob(job[j])]
                                 /\ my' = [my EXCEPT ![w].ids = @ \ {y}]
                                 /\ UNCHANGED <<pc, count>>
         \/ /\ Fault /\ my' = [my EXCEPT ![w].ok = FALSE] /\ Goto(w, "answer")
            /\ UNCHANGED <<log, summary, job>>
  BY DEF ScrubSources, ErasePcs, forget, archive
<1>2. /\ TypeOK /\ my[w] \in Locals /\ pc[w] \in Leasing /\ x \in DOMAIN mem
      /\ my[w].ids \subseteq MemoryId
      /\ x \in started /\ x.sources \subseteq tomb /\ mem[x] # "active" /\ x \in my[w].affected
      /\ (NoLapse => Holds(w) /\ LeasedOK(w)) /\ (Flushed => hot = <<>>)
  BY <1>1, EraseFacts, Fields DEF EraseOK, Intended, Barring, Marked, CacheLeased
<1>3. log \in Seq(Messages) /\ IsInjective(log) /\ summary \subseteq Messages /\ job \in [Jobs -> Record]
  BY <1>2, TypeNow
<1>4. /\ CountKept /\ log' \in Seq(Messages) /\ IsInjective(log') /\ summary' \subseteq Messages
      /\ ToSet(log') \subseteq ToSet(log) /\ summary' \subseteq summary
      /\ UNCHANGED job \/ \A j \in Jobs : job'[j] = ScrubbedJob(job[j])
      /\ job' \in [Jobs -> Record]
  <2>1. UNCHANGED count \/ Fault
    BY <1>1
  <2>2. CASE UNCHANGED <<log, summary, job>>
    BY <1>2, <1>3, <2>1, <2>2, CountTyped
  <2>3. ASSUME NEW y \in my[w].ids, log' = DeletedFrom(y.sources), summary' = {},
               job' = [j \in Jobs |-> ScrubbedJob(job[j])]
        PROVE  /\ log' \in Seq(Messages) /\ IsInjective(log') /\ ToSet(log') \subseteq ToSet(log)
               /\ job' \in [Jobs -> Record] /\ \A j \in Jobs : job'[j] = ScrubbedJob(job[j])
    <3>1. \A j \in Jobs : ScrubbedJob(job[j]) \in Record
      BY ScrubbedOK
    <3> QED
      BY <1>3, <2>3, <3>1, WithoutFacts DEF DeletedFrom
  <2> QED
    BY <1>1, <1>2, <2>1, <2>2, <2>3, CountTyped
<1>5. PICK l \in Locals, label \in {"scrub", "answer"} : Going(l, label)
  <2>1. CASE my[w].ids = {} /\ Goto(w, "answer") /\ UNCHANGED <<log, summary, job, my, count>>
    <3>1. my' = [my EXCEPT ![w] = my[w]]
      BY <1>2, <2>1, TypeNow
    <3>2. Going(my[w], "answer")
      BY <2>1, <3>1
    <3> HIDE DEF Going
    <3> QED
      BY <1>2, <3>2
  <2>2. ASSUME NEW y \in my[w].ids, log' = DeletedFrom(y.sources), summary' = {}, UNCHANGED pc,
               my' = [my EXCEPT ![w].ids = @ \ {y}]
        PROVE  \E l \in Locals, label \in {"scrub", "answer"} : Going(l, label)
    <3> DEFINE rest == my[w].ids \ {y}
               b == [my[w] EXCEPT !.ids = rest]
    <3>1. my' = [my EXCEPT ![w] = b]
      BY <1>2, <2>2, TypeNow DEF Locals
    <3>2. rest \subseteq MemoryId /\ rest \subseteq my[w].ids /\ \A z \in my[w].ids : z \in rest \/ z = y
      BY <1>2
    <3>3. y.sources \cap (ToSet(log') \cup summary') = {}
      BY <1>3, <2>2, WithoutFacts DEF DeletedFrom
    <3> HIDE DEF rest
    <3>4. /\ b \in Locals /\ b.barred = my[w].barred /\ b.x = x /\ b.ids = rest /\ b.ok = my[w].ok
          /\ b.op = my[w].op /\ b.covered = my[w].covered /\ b.affected = my[w].affected
      BY <1>2, <3>2 DEF Locals
    <3> HIDE DEF b
    <3>5. \A z \in my[w].ids : z \in b.ids \/ z.sources \cap (ToSet(log') \cup summary') = {}
      BY <3>2, <3>3, <3>4
    <3>6. Going(b, "scrub")
      BY <1>1, <2>2, <3>1, <3>2, <3>4, <3>5
    <3> HIDE DEF Going
    <3> QED
      BY <3>4, <3>6
  <2>3. CASE my' = [my EXCEPT ![w].ok = FALSE] /\ Goto(w, "answer") /\ UNCHANGED <<log, summary, job>>
    <3> DEFINE b == [my[w] EXCEPT !.ok = FALSE]
    <3>1. my' = [my EXCEPT ![w] = b]
      BY <1>2, <2>3, TypeNow DEF Locals
    <3>2. /\ b \in Locals /\ b.barred = my[w].barred /\ b.x = x /\ b.ids = my[w].ids /\ ~b.ok
          /\ b.op = my[w].op /\ b.covered = my[w].covered /\ b.affected = my[w].affected
      BY <1>2 DEF Locals
    <3> HIDE DEF b
    <3>3. Going(b, "answer")
      BY <2>3, <3>1, <3>2
    <3> HIDE DEF Going
    <3> QED
      BY <3>2, <3>3
  <2> HIDE DEF Going
  <2> QED
    BY <1>1, <2>1, <2>2, <2>3
<1>6. /\ pc' \in [Workers -> Labels] /\ pc'[w] = label
      /\ my' \in [Workers -> Locals] /\ my'[w] = l /\ Others(w)
      /\ AssembleOK(w)' /\ WorkOK(w)'
  <2>1. /\ my' = [my EXCEPT ![w] = l] /\ l.barred = my[w].barred
        /\ Goto(w, label) \/ (UNCHANGED pc /\ label = pc[w])
        /\ label \in ErasePcs /\ tomb \subseteq tomb' /\ pc[w] \in ErasePcs
    BY <1>1, <1>5
  <2> HIDE DEF Going
  <2> QED
    BY <2>1, EraseStays
<1>7. TypeOK'
  BY <1>1, <1>2, <1>4, <1>6, TypeNow, TypeNext DEF MemOK, CountKept
<1>8. Grows
  BY <1>1 DEF Grows, Safe
<1>9. Flushed => CacheOK(hot, log)' /\ CacheLeased(w)'
  BY <1>1, <1>2, <1>6 DEF CacheOK, CacheLeased
<1>10. EraseOK(w)'
  BY <1>1, <1>2, <1>5, <1>6 DEF EraseOK, Intended, Barring, Marked
<1>11. ASSUME NoLapse PROVE LeasedOK(w)'
  <2>1. /\ Holds(w)' /\ my[w].ids \subseteq my[w].affected /\ (x \in my[w].ids \/ Clean(x))
        /\ (my[w].ok => \A k \in Keys : object'[k] # "content")
    BY <1>1, <1>2, <1>11 DEF LeasedOK, Holds
  <2>2. /\ my[w].op = "retain" /\ my[w].covered # {} => \A y \in my[w].affected : Covers(w, y)
    BY <1>1, <1>2, <1>11 DEF LeasedOK, Marked
  <2>3. /\ l.op = "retain" /\ l.covered # {} => \A y \in l.affected : y.sources \subseteq l.covered
    BY <1>5, <2>2 DEF Covers
  <2>4. Clean(x) => x.sources \cap (ToSet(log') \cup summary') = {}
    BY <1>4 DEF Clean
  <2>5. /\ label = "scrub" =>
             l.ids \subseteq l.affected /\ (x \in l.ids \/ x.sources \cap (ToSet(log') \cup summary') = {})
        /\ label = "answer" /\ l.ok => x.sources \cap (ToSet(log') \cup summary') = {}
        /\ l.ok => \A k \in Keys : object'[k] # "content"
        /\ l.x = x
    BY <1>5, <2>1, <2>4
  <2> QED
    BY <1>6, <2>1, <2>3, <2>5 DEF LeasedOK, Covers, Clean, Marked, WorkPcs
<1>12. \A j \in Jobs : JobOK(j)'
  <2> SUFFICES ASSUME NEW j \in Jobs PROVE JobOK(j)'
    OBVIOUS
  <2>1. CASE UNCHANGED job
    BY <1>8, <2>1, JobsGrow
  <2>2. CASE job'[j] = ScrubbedJob(job[j])
    <3>1. \A q \in Record : RecordOK(j, q) => RecordOK(j, q)'
      BY <1>8, RecordGrows
    <3>2. /\ job'[j] \in Record /\ job'[j].status # "completed"
          /\ (job'[j].status = "none" => job'[j].accepted = 0 /\ ~job'[j].archived)
          /\ RecordOK(j, ScrubbedJob(job[j]))
      BY <2>2, ScrubbedOK
    <3>3. RecordOK(j, job[j])'
      BY <2>2, <3>1, <3>2
    <3> QED
      BY <3>2, <3>3 DEF JobOK
  <2> QED
    BY <1>4, <2>1, <2>2
<1>13. /\ \A k \in Keys : Findable(k)'
       /\ \A y \in done' : DoneOK(y)'
       /\ NoLapse => \A y \in done' : Erased(y)'
  BY <1>1, <1>4, StoreFacts DEF Findable, DoneOK, Erased, Clean
<1> QED
  BY <1>2, <1>4, <1>6, <1>7, <1>8, <1>9, <1>10, <1>11, <1>12, <1>13, WriteKeeps

\* Forget answers that it is complete only if nothing failed, and nothing is left.
LEMMA AnswerForgetKeeps ==
  ASSUME IInv, NEW w \in Workers, AnswerForget(w)
  PROVE  IInv'
<1> DEFINE x == my[w].x
<1>1. /\ pc[w] = "answer" /\ pc[w] \in ErasePcs /\ Goto(w, "release") /\ "release" \in Labels
      /\ done' = IF my[w].ok THEN done \cup {x} ELSE done
      /\ UNCHANGED <<log, hot, activity, tomb, job, mem, summary, started, manifest, object, lease, my, count>>
  BY DEF AnswerForget, ErasePcs, Labels, rows, archive
<1>2. /\ TypeOK /\ pc[w] \in Leasing /\ x \in DOMAIN mem /\ CountKept /\ my[w].barred \subseteq tomb
      /\ x \in started /\ x.sources \subseteq tomb /\ mem[x] # "active"
      /\ (NoLapse => Holds(w) /\ LeasedOK(w))
  BY <1>1, EraseFacts, CountTyped DEF EraseOK, Intended, Barring, Marked
<1>3. pc' \in [Workers -> Labels] /\ pc'[w] = "release" /\ Others(w)
  BY <1>1, <1>2, GotoTyped DEF Others
<1>4. TypeOK'
  BY <1>1, <1>2, <1>3, TypeNow, TypeNext DEF MemOK
<1>5. Grows
  BY <1>1 DEF Grows, Safe
<1>6. AssembleOK(w)' /\ WorkOK(w)' /\ EraseOK(w)' /\ CacheLeased(w)'
  BY <1>1, <1>2, <1>3, Elsewhere DEF WorkPcs, ErasePcs
<1>7. NoLapse => LeasedOK(w)'
  BY <1>1, <1>2, <1>3, Elsewhere DEF Holds
<1>8. \A y \in done' : y \in done \/ (y = x /\ my[w].ok)
  BY <1>1
<1>9. \A y \in done' : DoneOK(y)'
  BY <1>1, <1>2, <1>8, StoreFacts DEF DoneOK
<1>10. ASSUME NoLapse PROVE \A y \in done' : Erased(y)'
  <2>1. my[w].ok => Clean(x) /\ \A k \in Keys : object[k] # "content"
    BY <1>1, <1>2, <1>10 DEF LeasedOK
  <2>2. \A y \in done' : Erased(y)
    BY <1>8, <1>10, <2>1, StoreFacts DEF Erased
  <2> QED
    BY <1>1, <2>2 DEF Erased, Clean
<1>11. /\ \A j \in Jobs : JobOK(j)'
       /\ \A k \in Keys : Findable(k)'
       /\ Flushed => CacheOK(hot, log)'
  BY <1>1, <1>5, StoreFacts, JobsGrow DEF Findable, CacheOK, IsTail
<1> QED
  BY <1>2, <1>3, <1>4, <1>5, <1>6, <1>7, <1>9, <1>10, <1>11, WriteKeeps

-----------------------------------------------------------------------------
(* The theorems.                                                           *)

\* The invariant holds before any call.
LEMMA InitHolds ==
  ASSUME Init
  PROVE  IInv
<1>1. /\ log = InitialLog /\ hot = <<>> /\ activity \in BOOLEAN /\ tomb = {} /\ summary = {}
      /\ DOMAIN mem = {} /\ started = {} /\ done = {}
      /\ count = [calls |-> 0, faults |-> 0, lapses |-> 0, unflushed |-> 0]
  BY DEF Init
<1>2. job \in [Jobs -> Record] /\ \A j \in Jobs : job[j] = NoRecord
  BY NothingTyped DEF Init
<1>3. /\ manifest \in [Keys -> Manifest] /\ object \in [Keys -> Object]
      /\ \A k \in Keys : object[k] = "none"
  BY DEF Init, Manifest, Object
<1>4. lease \in Leases
  BY DEF Init, Leases
<1>5. /\ pc \in [Workers -> Labels] /\ my \in [Workers -> Locals]
      /\ \A w \in Workers : pc[w] = "idle" /\ my[w] = NoLocals
  BY NothingTyped DEF Init, Labels
<1>6. count \in Counts
  BY <1>1 DEF Counts
<1>7. TypeOK
  BY <1>1, <1>2, <1>3, <1>4, <1>5, <1>6, SessionAssumption
     DEF TypeOK, Manifest, Object, Leases, Labels, Counts
<1>8. ASSUME NEW w \in Workers
      PROVE  AssembleOK(w) /\ WorkOK(w) /\ EraseOK(w) /\ LeasedOK(w) /\ CacheLeased(w)
  <2>1. pc[w] = "idle" /\ my[w].barred = {} /\ my[w].op = "none"
    BY <1>5, NothingTyped
  <2>2. AssembleOK(w)
    BY <2>1 DEF AssembleOK
  <2>3. WorkOK(w)
    BY <2>1 DEF WorkOK, WorkPcs
  <2>4. EraseOK(w)
    BY <2>1 DEF EraseOK, ErasePcs, Intended, Barring, Marked
  <2>5. LeasedOK(w)
    BY <2>1 DEF LeasedOK, Leasing, AppendPcs, WorkPcs, ErasePcs
  <2>6. CacheLeased(w)
    BY <2>1 DEF CacheLeased
  <2> QED
    BY <2>2, <2>3, <2>4, <2>5, <2>6
<1>9. ASSUME NEW j \in Jobs PROVE JobOK(j)
  <2>1. /\ job[j].accepted = 0 /\ ~job[j].archived /\ job[j].status = "none" /\ job[j].plan = <<>>
    BY <1>2 DEF NoRecord
  <2>2. 1 .. 0 = {} /\ 0 <= Len(<<>>)
    OBVIOUS
  <2> QED
    BY <2>1, <2>2 DEF JobOK, RecordOK
<1>10. CacheOK(hot, log)
  BY <1>1 DEF CacheOK
<1> QED
  BY <1>1, <1>3, <1>7, <1>8, <1>9, <1>10 DEF IInv, Base, Leased, Cached, Findable

\* The steps of an append keep it.
LEMMA AppendKeeps ==
  ASSUME IInv, NEW w \in Workers, AppendStep(w)
  PROVE  IInv'
  BY StartAppendKeeps, CheckMessageKeeps, InsertMessageKeeps, ReadTailKeeps, ReplaceHotTailKeeps,
     SaveActivityKeeps DEF AppendStep

\* So do those of an assembly.
LEMMA AssemblyKeeps ==
  ASSUME IInv, NEW w \in Workers, AssembleStep(w)
  PROVE  IInv'
  BY StartAssembleKeeps, ReadSummaryKeeps, ReadHotTailKeeps, ReadHeadKeeps, ReadWarmTailKeeps,
     FilterTailKeeps, ReturnContextKeeps DEF AssembleStep

\* So do those of a consolidation.
LEMMA ConsolidateKeeps ==
  ASSUME IInv, NEW w \in Workers, ConsolidateStep(w)
  PROVE  IInv'
<1>1. CASE \/ \E j \in Jobs : StartConsolidate(w, j)
           \/ ReadTranscript(w) \/ LoadRecord(w) \/ BeginJob(w) \/ StartArchive(w)
  BY <1>1, StartConsolidateKeeps, ReadTranscriptKeeps, LoadRecordKeeps, BeginJobKeeps, StartArchiveKeeps
<1>2. CASE PendManifest(w) \/ PutObject(w) \/ StoreManifest(w) \/ RecordArchive(w) \/ NextCandidate(w)
  BY <1>2, ManifestKeeps, PutObjectKeeps, RecordArchiveKeeps, NextCandidateKeeps
<1>3. CASE CheckExisting(w) \/ IngestCandidate(w) \/ RecordCandidate(w) \/ StartSummary(w)
  BY <1>3, CheckExistingKeeps, IngestCandidateKeeps, RecordCandidateKeeps, StartSummaryKeeps
<1>4. CASE SaveSummary(w) \/ FinishJob(w) \/ CloseJob(w)
  BY <1>4, SaveSummaryKeeps, FinishJobKeeps, CloseJobKeeps
<1> QED
  BY <1>1, <1>2, <1>3, <1>4 DEF ConsolidateStep

\* So do those of a forget or a retention.
LEMMA ForgetKeeps ==
  ASSUME IInv, NEW w \in Workers, ForgetStep(w)
  PROVE  IInv'
<1>1. CASE \/ \E op \in {"forget", "retain"}, x \in DOMAIN mem : StartForget(w, op, x)
           \/ VerifyArchive(w) \/ Authorise(w) \/ SaveIntent(w)
  BY <1>1, StartForgetKeeps, VerifyArchiveKeeps, AuthoriseKeeps, SaveIntentKeeps
<1>2. CASE Tombstone(w) \/ MarkForgotten(w) \/ Cascade(w) \/ InvalidateScope(w)
  BY <1>2, TombstoneKeeps, MarkForgottenKeeps, CascadeKeeps, InvalidateScopeKeeps
<1>3. CASE TombstoneObject(w) \/ TombstoneManifest(w) \/ ScrubSources(w) \/ AnswerForget(w)
  BY <1>3, TombstoneObjectKeeps, TombstoneManifestKeeps, ScrubSourcesKeeps, AnswerForgetKeeps
<1> QED
  BY <1>1, <1>2, <1>3 DEF ForgetStep

\* Nothing happens.
LEMMA StutterKeeps ==
  ASSUME IInv, UNCHANGED vars
  PROVE  IInv'
<1>1. /\ UNCHANGED <<log, hot, activity, tomb, job, mem, summary, started, done, manifest, object>>
      /\ UNCHANGED <<lease, pc, my, count>> /\ StoresStill
  BY DEF vars, rows, forget, archive, StoresStill
<1>2. TypeOK'
  BY <1>1 DEF IInv, Base, TypeOK
<1>3. ASSUME NEW w \in Workers PROVE AssembleOK(w)' /\ WorkOK(w)' /\ EraseOK(w)'
  <2>1. AssembleOK(w) /\ WorkOK(w) /\ EraseOK(w)
    BY CallerFacts
  <2>2. AssembleOK(w)' /\ EraseOK(w)'
    BY <1>1, <2>1 DEF AssembleOK, EraseOK
  <2>3. WorkOK(w)'
    BY <1>1, <2>1 DEF WorkOK, RecordOK, Safe, Key, NextId
  <2> QED
    BY <2>2, <2>3
<1>4. NoLapse => \A w \in Workers : LeasedOK(w)'
  BY <1>1, CallerFacts DEF LeasedOK, Clean, Covers, Sharers, Holds
<1>5. Flushed => \A w \in Workers : CacheLeased(w)'
  BY <1>1, CallerFacts DEF CacheLeased, CacheOK, IsTail
<1>6. (NoLapse' => NoLapse) /\ (Flushed' => Flushed)
  BY <1>1 DEF NoLapse, Flushed
<1> QED
  BY <1>1, <1>2, <1>3, <1>4, <1>5, <1>6, StillGrows DEF IInv, Base, Leased, Cached

\* Every step keeps the invariant.
LEMMA NextKeeps ==
  ASSUME IInv, [Next]_vars
  PROVE  IInv'
<1>1. CASE ExpireLease
  BY <1>1, ExpireLeaseKeeps
<1>2. ASSUME NEW w \in Workers,
             AppendStep(w) \/ AssembleStep(w) \/ ConsolidateStep(w) \/ ForgetStep(w) \/ Release(w)
               \/ FailCall(w) \/ Crash(w)
      PROVE  IInv'
  BY <1>2, AppendKeeps, AssemblyKeeps, ConsolidateKeeps, ForgetKeeps, ReleaseKeeps, FailCallKeeps,
     CrashKeeps
<1>3. CASE UNCHANGED vars
  BY <1>3, StutterKeeps
<1> QED
  BY <1>1, <1>2, <1>3 DEF Next

\* What contexts, records, the archive and the cached tail rely on holds always, whoever
\* crashes, fails or loses the lease (session.rs, consolidation.rs, lifecycle_forget).
THEOREM InductiveInvariant == Spec => []IInv
<1>1. Init => IInv
  BY InitHolds
<1>2. IInv /\ [Next]_vars => IInv'
  BY NextKeeps
<1> QED
  BY <1>1, <1>2, PTL DEF Spec

\* No context holds what was forgotten before its assembly began (assemble_claimed).
THEOREM ContextStaysClean == Spec => []ContextClean
<1>1. IInv => ContextClean
  BY DEF IInv, Base, AssembleOK, ContextClean
<1> QED
  BY <1>1, InductiveInvariant, PTL

\* Every transcript can be found by forget, a completed consolidation is whole, and a completed
\* forget has left nothing (lifecycle_archive, consolidate_claimed, lifecycle_forget).
THEOREM ArchiveStaysWhole == Spec => []ArchiveWhole
<1>1. IInv => TypeOK
  BY DEF IInv, Base
<1>2. IInv => ArchiveFindable
  BY DEF IInv, Base, Findable, ArchiveFindable
<1>3. ASSUME IInv PROVE CompletedWhole
  <2> SUFFICES ASSUME NEW j \in Jobs, job[j].status = "completed"
               PROVE  /\ \A i \in DOMAIN job[j].plan :
                           [job |-> j, index |-> i, sources |-> job[j].plan[i]] \in DOMAIN mem
                      /\ j[1] = "deep" => object[<<j, ToSet(job[j].input)>>] # "none"
    BY DEF CompletedWhole
  <2>1. /\ RecordOK(j, job[j]) /\ job[j].accepted = Len(job[j].plan)
        /\ (j[1] = "deep" => job[j].archived) /\ job[j].plan \in Seq(SUBSET Messages)
    BY <1>3, StoreFacts, TypeNow, RecordFields DEF JobOK
  <2>2. DOMAIN job[j].plan = 1 .. Len(job[j].plan)
    BY <2>1
  <2> QED
    BY <2>1, <2>2 DEF RecordOK, MemoryOf
<1>4. IInv => ForgottenSources
  BY StoreFacts DEF ForgottenSources, NoLapse, DoneOK, Erased, Clean
<1>5. IInv => ArchiveWhole
  BY <1>1, <1>2, <1>3, <1>4 DEF ArchiveWhole
<1> QED
  BY <1>5, InductiveInvariant, PTL

\* A step moves one caller at most.
LEMMA OneMoves ==
  ASSUME NEW v, AppendStep(v) \/ AssembleStep(v) \/ ConsolidateStep(v) \/ ForgetStep(v)
                  \/ Release(v) \/ FailCall(v) \/ Crash(v)
  PROVE  UNCHANGED pc \/ \E label : Goto(v, label)
<1>1. CASE AppendStep(v)
  BY <1>1 DEF AppendStep, StartAppend, LeasedCall, Call, CheckMessage, InsertMessage, ReadTail,
              ReplaceHotTail, SaveActivity
<1>2. CASE AssembleStep(v)
  BY <1>2 DEF AssembleStep, StartAssemble, Call, ReadSummary, ReadHotTail, ReadHead, ReadWarmTail,
              FilterTail, ReturnContext
<1>3. CASE ConsolidateStep(v)
  <2>1. CASE \/ \E j \in Jobs : StartConsolidate(v, j)
             \/ ReadTranscript(v) \/ LoadRecord(v) \/ BeginJob(v) \/ StartArchive(v)
    BY <2>1 DEF StartConsolidate, LeasedCall, Call, ReadTranscript, LoadRecord, BeginJob, SaveProgress,
                StartArchive, Renewing, WorkFails
  <2>2. CASE PendManifest(v) \/ PutObject(v) \/ StoreManifest(v) \/ RecordArchive(v) \/ NextCandidate(v)
    BY <2>2 DEF PendManifest, SetManifest, PutObject, WorkFails, StoreManifest, RecordArchive,
                SaveProgress, NextCandidate, Renewing
  <2>3. CASE CheckExisting(v) \/ IngestCandidate(v) \/ RecordCandidate(v) \/ StartSummary(v)
    BY <2>3 DEF CheckExisting, WorkFails, IngestCandidate, RecordCandidate, SaveProgress, StartSummary,
                Renewing
  <2>4. CASE SaveSummary(v) \/ FinishJob(v) \/ CloseJob(v)
    BY <2>4 DEF SaveSummary, FinishJob, CloseJob, SaveProgress
  <2> QED
    BY <1>3, <2>1, <2>2, <2>3, <2>4 DEF ConsolidateStep
<1>4. CASE ForgetStep(v)
  <2>1. CASE \/ \E op \in {"forget", "retain"}, x \in DOMAIN mem : StartForget(v, op, x)
             \/ VerifyArchive(v) \/ Authorise(v) \/ SaveIntent(v)
    BY <2>1 DEF StartForget, LeasedCall, Call, VerifyArchive, Authorise, SaveIntent
  <2>2. CASE Tombstone(v) \/ MarkForgotten(v) \/ Cascade(v) \/ InvalidateScope(v)
    BY <2>2 DEF Tombstone, MarkForgotten, Cascade, InvalidateScope
  <2>3. CASE TombstoneObject(v) \/ TombstoneManifest(v) \/ ScrubSources(v) \/ AnswerForget(v)
    BY <2>3 DEF TombstoneObject, TombstoneManifest, ScrubSources, AnswerForget
  <2> QED
    BY <1>4, <2>1, <2>2, <2>3 DEF ForgetStep
<1>5. CASE Release(v) \/ FailCall(v) \/ Crash(v)
  BY <1>5 DEF Release, FailCall, Crash
<1> QED
  BY <1>1, <1>2, <1>3, <1>4, <1>5

\* Only the comparison with the head of the table leads from there to the filter.
LEMMA HeadStep ==
  ASSUME TypeOK, Next, NEW w \in Workers, pc[w] = "head", pc'[w] = "filter"
  PROVE  ReadHead(w)
<1>1. ~UNCHANGED pc
  OBVIOUS
<1>2. ~ExpireLease
  BY <1>1 DEF ExpireLease
<1>3. PICK v \in Workers : AppendStep(v) \/ AssembleStep(v) \/ ConsolidateStep(v) \/ ForgetStep(v)
                             \/ Release(v) \/ FailCall(v) \/ Crash(v)
  BY <1>2 DEF Next
<1>4. v = w
  <2>1. PICK label : Goto(v, label)
    BY <1>1, <1>3, OneMoves
  <2>2. v # w => pc'[w] = pc[w]
    BY <2>1, TypeNow DEF Goto
  <2> QED
    BY <2>2
<1>5. pc \in [Workers -> Labels]
  BY TypeNow
<1>6. ~AppendStep(w)
  BY DEF AppendStep, StartAppend, LeasedCall, Call, CheckMessage, InsertMessage, ReadTail,
         ReplaceHotTail, SaveActivity
<1>7. ~ConsolidateStep(w)
  BY DEF ConsolidateStep, StartConsolidate, LeasedCall, Call, ReadTranscript, LoadRecord, BeginJob,
         StartArchive, Renewing, PendManifest, PutObject, StoreManifest, RecordArchive, NextCandidate,
         CheckExisting, IngestCandidate, RecordCandidate, StartSummary, SaveSummary, FinishJob, CloseJob
<1>8. ~ForgetStep(w)
  BY DEF ForgetStep, StartForget, LeasedCall, Call, VerifyArchive, Authorise, SaveIntent, Tombstone,
         MarkForgotten, Cascade, InvalidateScope, TombstoneObject, TombstoneManifest, ScrubSources,
         AnswerForget
<1>9. ~Release(w) /\ ~FailCall(w)
  BY DEF Release, FailCall
<1>10. ~Crash(w)
  BY <1>5 DEF Crash, Goto
<1>11. AssembleStep(w)
  BY <1>3, <1>4, <1>6, <1>7, <1>8, <1>9, <1>10
<1> QED
  BY <1>11 DEF AssembleStep, StartAssemble, Call, ReadSummary, ReadHotTail, ReadWarmTail, FilterTail,
               ReturnContext

\* session_tail is the tail of the table.
LEMMA TailExact ==
  ASSUME TypeOK
  PROVE  IsTail(SessionTail(TailLimit), log, Len(log))
<1> DEFINE t == SessionTail(TailLimit)
           n == Len(log)
<1>1. log \in Seq(Messages) /\ n \in Nat /\ TailLimit \in Nat /\ TailLimit >= 1
  BY TypeNow, SessionAssumption
<1>2. CASE n <= TailLimit
  <2>1. t = log
    BY <1>2 DEF SessionTail
  <2> QED
    BY <1>1, <1>2, <2>1 DEF IsTail
<1>3. CASE ~(n <= TailLimit)
  <2>1. t = SubSeq(log, n - TailLimit + 1, n) /\ n - TailLimit + 1 \in 1 .. n
    BY <1>1, <1>3 DEF SessionTail
  <2>2. Len(t) = TailLimit
    BY <1>1, <1>3, <2>1
  <2>3. \A i \in 1 .. TailLimit : t[i] = log[n - TailLimit + i]
    BY <1>1, <1>3, <2>1
  <2> QED
    BY <1>3, <2>2, <2>3 DEF IsTail
<1> QED
  BY <1>2, <1>3

\* A cached tail of a part of the log that has as many messages as the tail of the log, and the same
\* last one, is the tail of the log.
LEMMA MatchIsExact ==
  ASSUME NEW s \in Seq(Messages), IsInjective(s), NEW p \in Seq(Messages), IsPrefix(p, s),
         NEW h \in Seq(Messages), CacheOK(h, p), NEW t \in Seq(Messages), IsTail(t, s, Len(s)),
         MatchesHead(h, t)
  PROVE  h = t
<1>1. /\ Len(h) = Len(t) /\ (t # <<>> => h[Len(h)] = t[Len(t)])
      /\ Len(h) \in Nat /\ Len(t) \in Nat /\ Len(p) \in Nat /\ Len(s) \in Nat
  BY DEF MatchesHead
<1>2. CASE h = <<>>
  <2>1. Len(t) = 0
    BY <1>1, <1>2
  <2> QED
    BY <1>2, <2>1
<1>3. CASE h # <<>>
  <2>1. PICK n \in 1 .. Len(p) : IsTail(h, p, n)
    BY <1>3 DEF CacheOK
  <2>2. Len(p) <= Len(s) /\ \A i \in 1 .. Len(p) : p[i] = s[i]
    <3>1. Len(p) <= Len(s) /\ SubSeq(p, 1, Len(p)) = SubSeq(s, 1, Len(p))
      BY DEF IsPrefix
    <3>2. ASSUME NEW i \in 1 .. Len(p) PROVE p[i] = s[i]
      <4>1. SubSeq(p, 1, Len(p))[i] = p[i] /\ SubSeq(s, 1, Len(p))[i] = s[i]
        BY <1>1, <3>1
      <4> QED
        BY <3>1, <4>1
    <3> QED
      BY <3>1, <3>2
  <2>3. Len(h) >= 1 /\ Len(h) <= n /\ Len(h) <= Len(s)
    BY <1>1, <2>1, <2>2, SessionAssumption DEF IsTail
  <2>4. h[Len(h)] = s[n] /\ t[Len(t)] = s[Len(s)] /\ t # <<>>
    <3>1. Len(h) \in 1 .. Len(h) /\ n - Len(h) + Len(h) = n /\ Len(s) - Len(t) + Len(t) = Len(s)
      BY <1>1, <2>3
    <3>2. h[Len(h)] = p[n] /\ p[n] = s[n]
      BY <2>1, <2>2, <3>1 DEF IsTail
    <3>3. t[Len(t)] = s[Len(s)]
      <4>1. Len(t) \in 1 .. Len(t)
        BY <1>1, <2>3
      <4>2. t[Len(t)] = s[Len(s) - Len(t) + Len(t)]
        BY <4>1 DEF IsTail
      <4> QED
        BY <3>1, <4>2
    <3>4. t # <<>>
      BY <1>1, <2>3
    <3> QED
      BY <3>2, <3>3, <3>4
  <2>5. n = Len(s)
    <3>1. n \in DOMAIN s /\ Len(s) \in DOMAIN s /\ s[n] = s[Len(s)]
      BY <1>1, <2>2, <2>3, <2>4
    <3> QED
      BY <3>1 DEF IsInjective
  <2>6. ASSUME NEW i \in 1 .. Len(h) PROVE h[i] = t[i]
    <3>1. n - Len(h) + i \in 1 .. Len(p)
      BY <1>1, <2>3
    <3>2. h[i] = p[n - Len(h) + i] /\ t[i] = s[Len(s) - Len(t) + i]
      BY <1>1, <2>1 DEF IsTail
    <3> QED
      BY <1>1, <2>2, <2>5, <3>1, <3>2
  <2> QED
    BY <1>1, <2>6
<1> QED
  BY <1>2, <1>3

\* A tail served from Redis is the tail of the table, unless a lease lapsed, an invalidation failed
\* or something was erased between the two readings (session_tail_with_status).
THEOREM HotTailStaysExact == Spec => HotTailExact
<1> DEFINE Served(w) ==
             /\ pc[w] = "head" /\ pc'[w] = "filter"
             /\ count.lapses = 0 /\ count.unflushed = 0
             /\ IsPrefix(my[w].seen, log)
             => my[w].tail = SessionTail(TailLimit)
<1>1. ASSUME IInv, [Next]_vars, NEW w \in Workers PROVE Served(w)
  <2> SUFFICES ASSUME pc[w] = "head", pc'[w] = "filter", Flushed, IsPrefix(my[w].seen, log)
               PROVE  my[w].tail = SessionTail(TailLimit)
    BY DEF Flushed
  <2>1. Next
    BY <1>1 DEF vars
  <2>2. /\ TypeOK /\ my[w].tail \in Seq(Messages) /\ my[w].seen \in Seq(Messages)
        /\ log \in Seq(Messages) /\ IsInjective(log) /\ CacheOK(my[w].tail, my[w].seen)
    BY <1>1, CallerFacts, Fields, TypeNow DEF CacheLeased
  <2>3. ReadHead(w)
    BY <2>1, <2>2, HeadStep
  <2>4. MatchesHead(my[w].tail, SessionTail(TailLimit))
    <3>1. pc' = [pc EXCEPT ![w] = "fallback"] => pc'[w] = "fallback"
      BY <2>2, TypeNow
    <3> QED
      BY <2>3, <3>1 DEF ReadHead, Goto
  <2>5. SessionTail(TailLimit) \in Seq(Messages) /\ IsTail(SessionTail(TailLimit), log, Len(log))
    BY <2>2, TailFacts, TailExact
  <2> QED
    BY <2>2, <2>4, <2>5, MatchIsExact
<1>2. IInv /\ [Next]_vars => [\A w \in Workers : Served(w)]_vars
  BY <1>1
<1> QED
  BY <1>2, InductiveInvariant, PTL DEF Spec, HotTailExact

\* Which steps write the log, the memories and the objects.
LEMMA WhoWrites ==
  ASSUME Next
  PROVE  \/ UNCHANGED <<log, mem, object>>
         \/ \E w \in Workers : \/ InsertMessage(w) \/ PutObject(w) \/ IngestCandidate(w)
                               \/ MarkForgotten(w) \/ Cascade(w) \/ TombstoneObject(w) \/ ScrubSources(w)
<1>1. CASE ExpireLease
  BY <1>1 DEF ExpireLease, rows, archive
<1>2. ASSUME NEW w \in Workers, AppendStep(w) PROVE UNCHANGED <<log, mem, object>> \/ InsertMessage(w)
  BY <1>2 DEF AppendStep, StartAppend, LeasedCall, CheckMessage, ReadTail, ReplaceHotTail, SaveActivity,
              rows, archive
<1>3. ASSUME NEW w \in Workers, AssembleStep(w) PROVE UNCHANGED <<log, mem, object>>
  BY <1>3 DEF AssembleStep, StartAssemble, ReadSummary, ReadHotTail, ReadHead, ReadWarmTail, FilterTail,
              ReturnContext, rows, archive
<1>4. ASSUME NEW w \in Workers, ConsolidateStep(w)
      PROVE  UNCHANGED <<log, mem, object>> \/ PutObject(w) \/ IngestCandidate(w)
  <2>1. CASE \/ \E j \in Jobs : StartConsolidate(w, j)
             \/ ReadTranscript(w) \/ LoadRecord(w) \/ BeginJob(w) \/ StartArchive(w)
    BY <2>1 DEF StartConsolidate, LeasedCall, ReadTranscript, LoadRecord, BeginJob, SaveProgress,
                StartArchive, Renewing, rows, archive
  <2>2. CASE PendManifest(w) \/ StoreManifest(w) \/ RecordArchive(w) \/ NextCandidate(w)
    BY <2>2 DEF PendManifest, SetManifest, StoreManifest, RecordArchive, SaveProgress, NextCandidate,
                Renewing, rows, archive
  <2>3. CASE CheckExisting(w) \/ RecordCandidate(w) \/ StartSummary(w)
    BY <2>3 DEF CheckExisting, RecordCandidate, SaveProgress, StartSummary, Renewing, rows, archive
  <2>4. CASE SaveSummary(w) \/ FinishJob(w) \/ CloseJob(w)
    BY <2>4 DEF SaveSummary, FinishJob, CloseJob, SaveProgress, rows, archive
  <2> QED
    BY <1>4, <2>1, <2>2, <2>3, <2>4 DEF ConsolidateStep
<1>5. ASSUME NEW w \in Workers, ForgetStep(w)
      PROVE  \/ UNCHANGED <<log, mem, object>>
             \/ MarkForgotten(w) \/ Cascade(w) \/ TombstoneObject(w) \/ ScrubSources(w)
  <2>1. CASE \/ \E op \in {"forget", "retain"}, x \in DOMAIN mem : StartForget(w, op, x)
             \/ VerifyArchive(w) \/ Authorise(w) \/ SaveIntent(w)
    BY <2>1 DEF StartForget, LeasedCall, VerifyArchive, Authorise, SaveIntent, rows, archive
  <2>2. CASE Tombstone(w) \/ InvalidateScope(w) \/ TombstoneManifest(w) \/ AnswerForget(w)
    BY <2>2 DEF Tombstone, InvalidateScope, TombstoneManifest, AnswerForget, rows, archive
  <2> QED
    BY <1>5, <2>1, <2>2 DEF ForgetStep
<1>6. ASSUME NEW w \in Workers, Release(w) \/ FailCall(w) \/ Crash(w) PROVE UNCHANGED <<log, mem, object>>
  BY <1>6 DEF Release, FailCall, Crash, rows, archive
<1> QED
  BY <1>1, <1>2, <1>3, <1>4, <1>5, <1>6 DEF Next

\* A tombstone stays where it is, and no memory that was set aside is active again.
LEMMA StaysErased ==
  ASSUME IInv, [Next]_vars
  PROVE  /\ \A k \in Keys : object[k] = "tombstone" => object'[k] = "tombstone"
         /\ \A x \in DOMAIN mem : x \in DOMAIN mem' /\ (mem[x] # "active" => mem'[x] # "active")
<1>1. TypeOK /\ object \in [Keys -> Object]
  BY TypeNow DEF IInv, Base
<1>2. CASE UNCHANGED <<mem, object>>
  BY <1>2
<1>3. ASSUME NEW w \in Workers, InsertMessage(w) \/ ScrubSources(w) PROVE UNCHANGED <<mem, object>>
  BY <1>3 DEF InsertMessage, ScrubSources, archive
<1>4. ASSUME NEW w \in Workers, PutObject(w) PROVE UNCHANGED mem /\ (Put(Key(w)) \/ UNCHANGED object)
  BY <1>4 DEF PutObject, rows
<1>5. ASSUME NEW k, Put(k) PROVE \A q \in Keys : object[q] = "tombstone" => object'[q] = "tombstone"
  BY <1>1, <1>5 DEF Put
<1>6. ASSUME NEW w \in Workers, IngestCandidate(w)
      PROVE  /\ UNCHANGED object
             /\ \A x \in DOMAIN mem : x \in DOMAIN mem' /\ (mem[x] # "active" => mem'[x] # "active")
  <2> DEFINE n == NextId(w)
  <2>1. /\ UNCHANGED object
        /\ UNCHANGED mem \/ (~Refused(n) /\ mem' = [y \in DOMAIN mem \cup {n} |-> IF y = n THEN "active" ELSE mem[y]])
    BY <1>6 DEF IngestCandidate, archive
  <2> HIDE DEF n
  <2> QED
    BY <2>1 DEF Refused, Inactive
<1>7. ASSUME NEW w \in Workers, MarkForgotten(w) \/ Cascade(w)
      PROVE  /\ UNCHANGED object
             /\ \A x \in DOMAIN mem : x \in DOMAIN mem' /\ (mem[x] # "active" => mem'[x] # "active")
  <2>1. UNCHANGED object /\ (UNCHANGED mem \/ \E x : mem' = [mem EXCEPT ![x] = "soft_deleted"])
    BY <1>7 DEF MarkForgotten, Cascade, archive
  <2> QED
    BY <2>1
<1>8. ASSUME NEW w \in Workers, TombstoneObject(w)
      PROVE  /\ UNCHANGED mem
             /\ UNCHANGED object \/ \E k : object' = [object EXCEPT ![k] = "tombstone"]
  BY <1>8 DEF TombstoneObject, rows
<1>9. CASE Next
  <2>1. ASSUME NEW k, object' = [object EXCEPT ![k] = "tombstone"]
        PROVE  \A q \in Keys : object[q] = "tombstone" => object'[q] = "tombstone"
    BY <1>1, <2>1
  <2> QED
    BY <1>2, <1>3, <1>4, <1>5, <1>6, <1>7, <1>8, <1>9, <2>1, WhoWrites
<1>10. CASE UNCHANGED vars
  BY <1>2, <1>10 DEF vars, rows, archive
<1> QED
  BY <1>9, <1>10

\* While no lease lapses, retention deletes nothing that was not archived.
LEMMA DeletesCovered ==
  ASSUME IInv, [Next]_vars, NEW w \in Workers, my[w].op = "retain", pc[w] = "scrub", log' # log,
         NoLapse, my[w].covered # {}
  PROVE  ToSet(log) \ ToSet(log') \subseteq my[w].covered
<1>1. TypeOK /\ log \in Seq(Messages) /\ Next /\ pc[w] \in Leasing /\ LeasedOK(w)
  BY CallerFacts, TypeNow DEF vars, rows, Leasing, ErasePcs
<1>2. PICK v \in Workers : InsertMessage(v) \/ ScrubSources(v)
  <2>1. ASSUME NEW v \in Workers, PutObject(v) \/ IngestCandidate(v) \/ MarkForgotten(v) \/ Cascade(v)
                                    \/ TombstoneObject(v)
        PROVE  UNCHANGED log
    BY <2>1 DEF PutObject, IngestCandidate, MarkForgotten, Cascade, TombstoneObject, rows
  <2> QED
    BY <1>1, <2>1, WhoWrites
<1>3. pc[v] \in Leasing
  BY <1>2 DEF InsertMessage, ScrubSources, Leasing, AppendPcs, ErasePcs
<1>4. v = w
  <2>1. Holds(v) /\ Holds(w)
    BY <1>1, <1>3, CallerFacts
  <2> QED
    BY <2>1 DEF Holds
<1>5. ScrubSources(w)
  BY <1>2, <1>4 DEF InsertMessage
<1>6. PICK y \in my[w].ids : log' = DeletedFrom(y.sources)
  BY <1>5 DEF ScrubSources
<1>7. ToSet(log') = ToSet(log) \ y.sources
  BY <1>1, <1>6, WithoutFacts DEF DeletedFrom
<1>8. y.sources \subseteq my[w].covered
  <2>1. y \in my[w].affected
    BY <1>1, <1>6 DEF LeasedOK
  <2> QED
    BY <1>1, <2>1 DEF LeasedOK, Covers, Marked
<1> QED
  BY <1>7, <1>8

\* What was erased stays erased, against late uploads and resumed consolidations, and retention
\* deletes only what a verified transcript holds (put_object, memory_write, retain_memory).
THEOREM ErasureStaysExact == Spec => ErasureExact
<1> DEFINE Final ==
             /\ \A k \in Keys : object[k] = "tombstone" => object'[k] = "tombstone"
             /\ \A x \in DOMAIN mem : x \in DOMAIN mem' /\ (mem[x] # "active" => mem'[x] # "active")
           Covered ==
             \A w \in Workers :
               /\ my[w].op = "retain" /\ pc[w] = "scrub" /\ log' # log
               /\ count.lapses = 0 /\ my[w].covered # {}
               => ToSet(log) \ ToSet(log') \subseteq my[w].covered
<1>1. IInv /\ [Next]_vars => [Final]_vars
  BY StaysErased
<1>2. IInv /\ [Next]_vars => [Covered]_vars
  BY DeletesCovered DEF NoLapse
<1>3. Spec => [][Final]_vars
  BY <1>1, InductiveInvariant, PTL DEF Spec
<1>4. Spec => [][Covered]_vars
  BY <1>2, InductiveInvariant, PTL DEF Spec
<1> QED
  BY <1>3, <1>4 DEF ErasureExact, ErasureFinal, RetentionCovered
=============================================================================
