--------------------------- MODULE GoldStrataProofs ---------------------------
(***************************************************************************)
(* What the selection by strata guarantees for any pool, strata and quotas. *)
(* The invariant follows the sweeps: once a sweep has taken nothing, every   *)
(* stratum that is short and is not still to come has no candidate left.     *)
(***************************************************************************)
EXTENDS GoldStrata, FiniteSetTheorems, TLAPS

\* filled is what the chosen sentences say; filling up does not keep it.
Counted == phase = "sweep" => \A k \in StrataSet : filled[k] = Covering(chosen, k)

\* The strata of the sweep that are still to come.
Ahead(k) == k \in need /\ \E j \in DOMAIN Strata : j >= at /\ Strata[j] = k

Exhausted ==
  phase = "sweep" /\ ~changed =>
    \A k \in StrataSet : filled[k] < Goal(k) => Ahead(k) \/ Open(chosen, k) = {}

GreedyInv == TypeOK /\ Counted /\ Exhausted /\ ShortMeansExhausted

-----------------------------------------------------------------------------
\* Counting what a list covers or holds, when a sentence is appended.
LEMMA Positions ==
  ASSUME NEW s \in Seq(Candidate), NEW c \in Candidate
  PROVE  /\ Append(s, c) \in Seq(Candidate)
         /\ DOMAIN s = 1..Len(s)
         /\ DOMAIN Append(s, c) = DOMAIN s \cup {Len(s) + 1}
         /\ Len(s) + 1 \notin DOMAIN s
         /\ \A j \in DOMAIN s : Append(s, c)[j] = s[j]
         /\ Append(s, c)[Len(s) + 1] = c
OBVIOUS

LEMMA CountAppend ==
  ASSUME NEW s \in Seq(Candidate), NEW c \in Candidate, NEW S, NEW T,
         S \subseteq DOMAIN s, T = S \/ T = S \cup {Len(s) + 1}
  PROVE  /\ IsFiniteSet(S) /\ Cardinality(S) \in Nat
         /\ T = S \cup {Len(s) + 1} => Cardinality(T) = Cardinality(S) + 1
<1>1. IsFiniteSet(1..Len(s))
  BY FS_Interval
<1>2. IsFiniteSet(S) /\ Cardinality(S) \in Nat
  BY <1>1, FS_Subset, FS_CardinalityType
<1>3. Len(s) + 1 \notin S
  OBVIOUS
<1> QED
  BY <1>2, <1>3, FS_AddElement

LEMMA CoveringAppend ==
  ASSUME NEW s \in Seq(Candidate), NEW c \in Candidate, NEW k
  PROVE  /\ Covering(s, k) \in Nat
         /\ Covering(Append(s, c), k) = IF k \in c.strata THEN Covering(s, k) + 1 ELSE Covering(s, k)
<1> DEFINE S == {j \in DOMAIN s : k \in s[j].strata}
           T == {j \in DOMAIN Append(s, c) : k \in Append(s, c)[j].strata}
<1>1. T = IF k \in c.strata THEN S \cup {Len(s) + 1} ELSE S
  BY Positions
<1>2. Cardinality(S) \in Nat /\ (T = S \cup {Len(s) + 1} => Cardinality(T) = Cardinality(S) + 1)
  BY <1>1, CountAppend
<1> QED
  BY <1>1, <1>2 DEF Covering

LEMMA HeldAppend ==
  ASSUME NEW s \in Seq(Candidate), NEW c \in Candidate, NEW kind
  PROVE  /\ Held(s, kind) \in Nat
         /\ Held(Append(s, c), kind) = IF c.kind = kind THEN Held(s, kind) + 1 ELSE Held(s, kind)
<1> DEFINE S == OfKind(s, kind)
           T == OfKind(Append(s, c), kind)
<1>1. T = IF c.kind = kind THEN S \cup {Len(s) + 1} ELSE S
  BY Positions DEF OfKind
<1>2. S \subseteq DOMAIN s
  BY DEF OfKind
<1>3. Cardinality(S) \in Nat /\ (T = S \cup {Len(s) + 1} => Cardinality(T) = Cardinality(S) + 1)
  BY <1>1, <1>2, CountAppend
<1> QED
  BY <1>1, <1>3 DEF Held

\* Nothing is covered or held at first.
LEMMA CountEmpty ==
  /\ \A k : Covering(<<>>, k) = 0
  /\ \A kind : Held(<<>>, kind) = 0
<1>1. \A k : {j \in DOMAIN <<>> : k \in <<>>[j].strata} = {}
  OBVIOUS
<1>2. \A kind : OfKind(<<>>, kind) = {}
  BY DEF OfKind
<1> QED
  BY <1>1, <1>2, FS_EmptySet DEF Covering, Held

\* A sentence that is appended takes candidates away and adds none.
LEMMA OpenShrinks ==
  ASSUME NEW s \in Seq(Candidate), NEW c \in Candidate, NEW k
  PROVE  Open(Append(s, c), k) \subseteq Open(s, k)
<1>1. IdsOf(s) \subseteq IdsOf(Append(s, c))
  BY Positions DEF IdsOf
<1> QED
  BY <1>1 DEF Open, Unused

\* Goals and floors are numbers.
LEMMA GoalType ==
  ASSUME NEW k \in StrataSet PROVE Floor(k) \in Nat /\ Goal(k) \in Nat
<1>1. Quota[k] \in Nat /\ Share \in Nat \ {0}
  BY StrataAssumption
<1>2. Quota[k] \div Share \in Nat
  BY <1>1
<1> QED
  BY <1>1, <1>2 DEF Floor, Goal

-----------------------------------------------------------------------------
\* A slice of a list of candidates is one.
LEMMA SliceType ==
  ASSUME NEW s \in Seq(Candidate), NEW n \in Nat
  PROVE  /\ Slice(s, n) \in Seq(Candidate)
         /\ SubSeq(s, n + 1, Len(s)) \in Seq(Candidate)
BY DEF Slice

LEMMA CombinedType ==
  ASSUME NEW h \in Harvests, NEW c \in Caps PROVE Combined(h, c) \in Seq(Candidate)
<1>1. /\ h.wiki \in Seq(Candidate) /\ h.web \in Seq(Candidate)
      /\ c["wiki"] \in Nat /\ c["web"] \in Nat
  BY StrataAssumption DEF Kinds
<1>2. /\ Slice(h.wiki, c["wiki"]) \in Seq(Candidate) /\ Slice(h.web, c["web"]) \in Seq(Candidate)
      /\ SubSeq(h.wiki, c["wiki"] + 1, Len(h.wiki)) \in Seq(Candidate)
      /\ SubSeq(h.web, c["web"] + 1, Len(h.web)) \in Seq(Candidate)
  BY <1>1, SliceType
<1> QED
  BY <1>2 DEF Combined

LEMMA InitTypes == Init => TypeOK
<1> SUFFICES ASSUME Init PROVE TypeOK
  OBVIOUS
<1>1. cap \in [Kinds -> Nat]
  BY StrataAssumption DEF Init
<1>2. pool \in Seq(Candidate)
  BY CombinedType, StrataAssumption DEF Init
<1>3. Len(Strata) + 1 \in Nat \ {0}
  BY StrataAssumption
<1> QED
  BY <1>1, <1>2, <1>3 DEF Init, TypeOK

LEMMA InitGreedy == Init => GreedyInv
<1> SUFFICES ASSUME Init PROVE GreedyInv
  OBVIOUS
<1>1. TypeOK
  BY InitTypes
<1>2. Counted
  BY CountEmpty DEF Init, Counted
<1>3. Exhausted /\ ShortMeansExhausted
  BY DEF Init, Exhausted, ShortMeansExhausted
<1> QED
  BY <1>1, <1>2, <1>3 DEF GreedyInv

\* Every step keeps the types.
LEMMA TypesKept == TypeOK /\ [Next]_vars => TypeOK'
<1> SUFFICES ASSUME TypeOK, [Next]_vars PROVE TypeOK'
  OBVIOUS
<1>1. Len(Strata) \in Nat /\ StrataSet = {Strata[j] : j \in 1..Len(Strata)}
  BY StrataAssumption DEF StrataSet
<1>2. \A i \in DOMAIN pool : pool[i] \in Candidate
  BY DEF TypeOK
<1>3. CASE UNCHANGED vars \/ Done
  BY <1>3 DEF TypeOK, vars, Done
<1>4. CASE Sweep
  <2>1. need' \subseteq StrataSet
    BY <1>4 DEF Sweep, Short
  <2>2. at' \in Nat \ {0}
    BY <1>4 DEF Sweep
  <2>3. changed' \in BOOLEAN
    BY <1>4, Zenon DEF Sweep
  <2> QED
    BY <1>4, <2>1, <2>2, <2>3 DEF TypeOK, Sweep
<1>5. CASE Take
  BY <1>1, <1>2, <1>5 DEF TypeOK, Take, First
<1>6. CASE Pass
  BY <1>6 DEF TypeOK, Pass
<1>7. CASE EndSweeps
  BY <1>7 DEF TypeOK, EndSweeps, Batch, Kinds
<1>8. CASE Cap
  <2>1. chosen[at] \in Candidate
    BY <1>8 DEF TypeOK, Cap
  <2> QED
    BY <1>8, <2>1 DEF TypeOK, Cap
<1>9. CASE CapEnds \/ TopUpEnds
  BY <1>9 DEF TypeOK, CapEnds, TopUpEnds
<1>10. CASE TopUp
  <2>1. PICK i \in DOMAIN pool : \/ chosen' = Append(chosen, pool[i]) /\ UNCHANGED final
                                 \/ final' = Append(final, pool[i]) /\ UNCHANGED chosen
    BY <1>10 DEF TopUp
  <2>2. chosen' \in Seq(Candidate) /\ final' \in Seq(Candidate)
    <3>1. Append(chosen, pool[i]) \in Seq(Candidate) /\ Append(final, pool[i]) \in Seq(Candidate)
      BY <1>2 DEF TypeOK
    <3>2. chosen \in Seq(Candidate) /\ final \in Seq(Candidate)
      BY DEF TypeOK
    <3> QED
      BY <2>1, <3>1, <3>2
  <2> QED
    BY <1>10, <2>2 DEF TypeOK, TopUp
<1> QED
  BY <1>3, <1>4, <1>5, <1>6, <1>7, <1>8, <1>9, <1>10 DEF Next

LEMMA GreedyKept == GreedyInv /\ [Next]_vars => GreedyInv'
<1> SUFFICES ASSUME GreedyInv, [Next]_vars PROVE GreedyInv'
  OBVIOUS
<1> USE DEF GreedyInv
<1>1. TypeOK'
  BY TypesKept
<1>2. Len(Strata) \in Nat /\ DOMAIN Strata = 1..Len(Strata)
  BY StrataAssumption
<1>3. UNCHANGED <<task, cap, pool>>
  BY DEF Next, vars, Sweep, Take, Pass, EndSweeps, Cap, CapEnds, TopUp, TopUpEnds, Done
<1>4. \A k : Goal(k)' = Goal(k)
  BY <1>3 DEF Goal, Batch
<1>5. CASE UNCHANGED <<phase, need, at, changed, filled, chosen>>
  BY <1>1, <1>3, <1>4, <1>5
     DEF Counted, Exhausted, ShortMeansExhausted, Ahead, Open, Unused, Enough, Batch
<1>6. CASE Sweep
  <2>1. Counted' /\ ShortMeansExhausted'
    BY <1>6 DEF Sweep, Counted, ShortMeansExhausted
  <2>2. Exhausted'
    <3> SUFFICES ASSUME NEW k \in StrataSet, filled[k] < Goal(k) PROVE Ahead(k)'
      BY <1>4, <1>6 DEF Sweep, Exhausted
    <3>1. k \in Short
      BY DEF Short
    <3>2. PICK j \in DOMAIN Strata : Strata[j] = k
      BY DEF StrataSet
    <3> QED
      BY <1>2, <1>6, <3>1, <3>2 DEF Sweep, Ahead
  <2> QED
    BY <1>1, <2>1, <2>2
<1>7. CASE Take
  <2>1. PICK i \in DOMAIN pool :
          /\ chosen' = Append(chosen, pool[i])
          /\ filled' = [k \in StrataSet |-> IF k \in pool[i].strata THEN filled[k] + 1 ELSE filled[k]]
    BY <1>7 DEF Take
  <2>2. pool[i] \in Candidate /\ chosen \in Seq(Candidate)
    BY DEF TypeOK
  <2>3. Counted'
    BY <1>7, <2>1, <2>2, CoveringAppend DEF Take, Counted
  <2>4. Exhausted' /\ ShortMeansExhausted'
    BY <1>7 DEF Take, Exhausted, ShortMeansExhausted
  <2> QED
    BY <1>1, <2>3, <2>4
<1>8. CASE Pass
  <2>1. Counted' /\ ShortMeansExhausted'
    BY <1>8 DEF Pass, Counted, ShortMeansExhausted
  <2>2. Exhausted'
    <3> SUFFICES ASSUME ~changed, NEW k \in StrataSet, filled[k] < Goal(k), Open(chosen, k) # {}
                 PROVE  Ahead(k)'
      BY <1>3, <1>4, <1>8 DEF Pass, Exhausted, Open, Unused
    <3>1. Ahead(k)
      BY <1>8 DEF Pass, Exhausted
    <3>2. PICK j \in DOMAIN Strata : j >= at /\ Strata[j] = k
      BY <3>1 DEF Ahead
    <3>3. j # at
      BY <1>8, <3>1, <3>2 DEF Pass, Ahead
    <3>4. j >= at + 1
      BY <1>2, <3>2, <3>3 DEF TypeOK
    <3> QED
      BY <1>8, <3>1, <3>2, <3>4 DEF Pass, Ahead
  <2> QED
    BY <1>1, <2>1, <2>2
<1>9. CASE EndSweeps
  <2>1. phase' # "sweep" /\ UNCHANGED chosen
    BY <1>9 DEF EndSweeps, Batch, Kinds
  <2>2. Enough \/ \A k \in StrataSet : Covering(chosen, k) >= Goal(k) \/ Open(chosen, k) = {}
    <3> SUFFICES ASSUME ~Enough, NEW k \in StrataSet, ~(Covering(chosen, k) >= Goal(k))
                 PROVE  Open(chosen, k) = {}
      OBVIOUS
    <3>1. filled[k] < Goal(k)
      BY <1>9, GoalType DEF EndSweeps, Counted, TypeOK
    <3>2. ~changed
      BY <1>9, <3>1 DEF EndSweeps, Again, Short
    <3>3. ~Ahead(k)
      BY <1>2, <1>9 DEF EndSweeps, Swept, Ahead, TypeOK
    <3> QED
      BY <1>9, <3>1, <3>2, <3>3 DEF EndSweeps, Exhausted
  <2>3. ShortMeansExhausted'
    BY <1>3, <1>4, <2>1, <2>2 DEF ShortMeansExhausted, Enough, Batch, Open, Unused
  <2> QED
    BY <1>1, <2>1, <2>3 DEF Counted, Exhausted
<1>10. CASE phase # "sweep" /\ phase' # "sweep" /\ UNCHANGED chosen
  <2>1. ShortMeansExhausted'
    BY <1>3, <1>4, <1>10 DEF ShortMeansExhausted, Enough, Batch, Open, Unused
  <2> QED
    BY <1>1, <1>10, <2>1 DEF Counted, Exhausted
<1>11. CASE phase # "sweep" /\ phase' # "sweep" /\ \E i \in DOMAIN pool : chosen' = Append(chosen, pool[i])
  <2>1. PICK i \in DOMAIN pool : chosen' = Append(chosen, pool[i])
    BY <1>11
  <2>2. pool[i] \in Candidate /\ chosen \in Seq(Candidate)
    BY DEF TypeOK
  <2>3. Enough => Enough'
    BY <1>3, <2>1, <2>2 DEF Enough, Batch, TypeOK
  <2>4. \A k \in StrataSet : Covering(chosen, k) >= Goal(k) => Covering(chosen, k)' >= Goal(k)'
    BY <1>4, <2>1, <2>2, CoveringAppend, GoalType
  <2>5. \A k \in StrataSet : Open(chosen, k) = {} => Open(chosen, k)' = {}
    <3> SUFFICES ASSUME NEW k \in StrataSet, Open(chosen, k) = {} PROVE Open(chosen, k)' = {}
      OBVIOUS
    <3>1. Open(Append(chosen, pool[i]), k) = {}
      BY <2>2, OpenShrinks
    <3> QED
      BY <1>3, <2>1, <3>1 DEF Open, Unused
  <2>6. ShortMeansExhausted'
    BY <1>11, <2>3, <2>4, <2>5 DEF ShortMeansExhausted
  <2> QED
    BY <1>1, <1>11, <2>6 DEF Counted, Exhausted
<1>12. CASE Cap \/ CapEnds \/ TopUp \/ TopUpEnds
  BY <1>10, <1>11, <1>12 DEF Cap, CapEnds, TopUp, TopUpEnds, Kinds
<1>13. CASE Done \/ UNCHANGED vars
  BY <1>5, <1>13 DEF Done, vars
<1> QED
  BY <1>6, <1>7, <1>8, <1>9, <1>12, <1>13 DEF Next

\* The types of the selection, for any pools, strata and quotas.
THEOREM TypeCorrect == Spec => []TypeOK
<1>1. Init => TypeOK
  BY InitTypes
<1>2. TypeOK /\ [Next]_vars => TypeOK'
  BY TypesKept
<1> QED
  BY <1>1, <1>2, PTL DEF Spec

\* No stratum is left short while the pool has a candidate for it.
THEOREM GreedyIsComplete == Spec => []ShortMeansExhausted
<1>1. GreedyInv => ShortMeansExhausted
  BY DEF GreedyInv
<1> QED
  BY <1>1, InitGreedy, GreedyKept, PTL DEF Spec
-----------------------------------------------------------------------------
\* The sizes.  A list without an id twice, taken from the pool, holds of a kind at
\* most what the pool has of it by ids, and all of that once nothing is left unused.
NoTwice(s) == \A i, j \in DOMAIN s : s[i].id = s[j].id => i = j

FromPool(s) == \A j \in DOMAIN s : \E i \in DOMAIN pool : s[j] = pool[i]

\* An id stands for rows of one kind, and a batch is drawn from one kind.
PoolParted ==
  /\ \A i, j \in DOMAIN pool : pool[i].id = pool[j].id => pool[i].kind = pool[j].kind
  /\ Batch => \A i \in DOMAIN pool : pool[i].kind = task

Topped(kind) ==
  Held(Result, kind) >= cap[kind] \/ {i \in Unused(Result) : pool[i].kind = kind} = {}

Loops ==
  /\ Batch => phase \in {"sweep", task, "done"}
  /\ phase = "sweep" => final = <<>>
  /\ phase = "sweep" /\ Batch /\ ~Swept => Len(chosen) < cap[task]
  /\ Batch => Len(chosen) <= cap[task]
  /\ phase = "cap" => \A j \in DOMAIN final : \E m \in DOMAIN chosen : m < at /\ final[j] = chosen[m]
  /\ ~Batch => \A kind \in Kinds : Held(final, kind) <= cap[kind]

SizeInv ==
  /\ TypeOK
  /\ PoolParted
  /\ NoTwice(chosen) /\ FromPool(chosen)
  /\ NoTwice(final) /\ FromPool(final)
  /\ Loops
  /\ Batch /\ phase = "done" => Topped(task)
  /\ ~Batch /\ phase \in {"web", "done"} => Topped("wiki")
  /\ ~Batch /\ phase = "done" => Topped("web")

\* A bijection between the positions of a list and the ids there.
LEMMA DistinctIds ==
  ASSUME NEW s \in Seq(Candidate), NoTwice(s), NEW S \in SUBSET (DOMAIN s)
  PROVE  /\ IsFiniteSet(S)
         /\ Cardinality({s[j].id : j \in S}) = Cardinality(S)
<1> DEFINE T == {s[j].id : j \in S}
           f == [j \in S |-> s[j].id]
<1>1. IsFiniteSet(1..Len(s)) /\ S \subseteq 1..Len(s)
  BY FS_Interval
<1>2. IsFiniteSet(S)
  BY <1>1, FS_Subset
<1>3. f \in [S -> T] /\ \A t \in T : \E j \in S : f[j] = t
  OBVIOUS
<1>4. \A i, j \in S : f[i] = f[j] => i = j
  BY DEF NoTwice
<1>5. f \in Bijection(S, T)
  BY <1>3, <1>4, Zenon DEF Bijection, Injection, Surjection, IsInjective
<1> QED
  BY <1>2, <1>5, FS_Bijection DEF ExistsBijection

LEMMA SizeOfKind ==
  ASSUME TypeOK, PoolParted, NEW s \in Seq(Candidate), NoTwice(s), FromPool(s), NEW kind
  PROVE  LET there == {pool[i].id : i \in OfKind(pool, kind)}
         IN  /\ Cardinality(there) \in Nat /\ Held(s, kind) \in Nat
             /\ Held(s, kind) <= Cardinality(there)
             /\ {i \in Unused(s) : pool[i].kind = kind} = {} => Held(s, kind) = Cardinality(there)
<1> DEFINE there == {pool[i].id : i \in OfKind(pool, kind)}
           here == {s[j].id : j \in OfKind(s, kind)}
<1>1. Cardinality(here) = Held(s, kind)
  BY DistinctIds DEF OfKind, Held
<1>2. IsFiniteSet(there)
  <2> DEFINE f == [i \in OfKind(pool, kind) |-> pool[i].id]
  <2>1. f \in Surjection(OfKind(pool, kind), there)
    BY DEF Surjection
  <2>2. IsFiniteSet(1..Len(pool)) /\ OfKind(pool, kind) \subseteq 1..Len(pool)
    <3>1. Len(pool) \in Nat /\ DOMAIN pool = 1..Len(pool)
      BY DEF TypeOK
    <3> QED
      BY <3>1, FS_Interval DEF OfKind
  <2>3. IsFiniteSet(OfKind(pool, kind))
    BY <2>2, FS_Subset
  <2> QED
    BY <2>1, <2>3, FS_Surjection
<1>3. here \subseteq there
  BY DEF FromPool, OfKind
<1>4. Cardinality(here) <= Cardinality(there) /\ Cardinality(there) \in Nat /\ Cardinality(here) \in Nat
  BY <1>2, <1>3, FS_Subset, FS_CardinalityType
<1>5. ASSUME {i \in Unused(s) : pool[i].kind = kind} = {} PROVE there \subseteq here
  <2> SUFFICES ASSUME NEW i \in DOMAIN pool, pool[i].kind = kind PROVE pool[i].id \in here
    BY DEF OfKind
  <2>1. PICK j \in DOMAIN s : s[j].id = pool[i].id
    BY <1>5 DEF Unused, IdsOf
  <2>2. PICK m \in DOMAIN pool : s[j] = pool[m]
    BY DEF FromPool
  <2>3. s[j].kind = kind
    BY <2>1, <2>2 DEF PoolParted
  <2> QED
    BY <2>1, <2>3 DEF OfKind
<1> QED
  BY <1>1, <1>3, <1>4, <1>5

LEMMA LengthIsCount ==
  ASSUME NEW s \in Seq(Candidate)
  PROVE  DOMAIN s = 1..Len(s) /\ Cardinality(1..Len(s)) = Len(s)
<1>1. Len(s) \in Nat /\ DOMAIN s = 1..Len(s)
  OBVIOUS
<1>2. Cardinality(1..Len(s)) = IF 1 > Len(s) THEN 0 ELSE Len(s) - 1 + 1
  BY <1>1, FS_Interval
<1> QED
  BY <1>1, <1>2

\* A batch holds nothing but its kind.
LEMMA BatchIsOfItsKind ==
  ASSUME TypeOK, PoolParted, Batch, FromPool(chosen)
  PROVE  Held(chosen, task) = Len(chosen)
<1>1. OfKind(chosen, task) = 1..Len(chosen)
  BY DEF FromPool, PoolParted, OfKind, TypeOK
<1>2. Cardinality(1..Len(chosen)) = Len(chosen)
  BY LengthIsCount DEF TypeOK
<1> QED
  BY <1>1, <1>2 DEF Held

LEMMA SizesFollow == SizeInv => SizeAsAsked
<1> SUFFICES ASSUME SizeInv, phase = "done" PROVE SizeAsAsked
  BY DEF SizeAsAsked
<1> USE DEF SizeInv
<1> DEFINE there(kind) == Cardinality({pool[i].id : i \in OfKind(pool, kind)})
<1>1. Result \in Seq(Candidate) /\ NoTwice(Result) /\ FromPool(Result)
  BY DEF Result, TypeOK
<1>2. Cardinality(IdsOf(Result)) = Len(Result)
  <2>1. Cardinality(DOMAIN Result) = Len(Result)
    BY <1>1, LengthIsCount
  <2> QED
    BY <1>1, <2>1, DistinctIds DEF IdsOf
<1>3. ASSUME NEW kind \in Kinds, Held(Result, kind) <= cap[kind], Topped(kind)
      PROVE  Held(Result, kind) = IF there(kind) < cap[kind] THEN there(kind) ELSE cap[kind]
  <2>1. /\ there(kind) \in Nat /\ Held(Result, kind) \in Nat /\ cap[kind] \in Nat
        /\ Held(Result, kind) <= there(kind)
        /\ {i \in Unused(Result) : pool[i].kind = kind} = {} => Held(Result, kind) = there(kind)
    BY <1>1, SizeOfKind DEF TypeOK
  <2> HIDE DEF there
  <2> QED
    BY <1>3, <2>1 DEF Topped
<1>4. ASSUME Batch PROVE Held(Result, task) <= cap[task] /\ Topped(task)
  BY <1>4, BatchIsOfItsKind DEF Result, Loops
<1>5. ASSUME ~Batch, NEW kind \in Kinds PROVE Held(Result, kind) <= cap[kind] /\ Topped(kind)
  BY <1>5 DEF Result, Loops, Kinds
<1> QED
  BY <1>2, <1>3, <1>4, <1>5 DEF SizeAsAsked, Batch

-----------------------------------------------------------------------------
\* The pool of the corpus keeps the two harvests apart.
LEMMA CombinedParted ==
  ASSUME NEW h \in Harvests, NEW c \in Caps
  PROVE  \A i, j \in DOMAIN Combined(h, c) :
           Combined(h, c)[i].id = Combined(h, c)[j].id => Combined(h, c)[i].kind = Combined(h, c)[j].kind
<1> DEFINE W == {h.wiki[i] : i \in DOMAIN h.wiki}
           B == {h.web[i] : i \in DOMAIN h.web}
<1>1. /\ h.wiki \in Seq(Candidate) /\ h.web \in Seq(Candidate)
      /\ c["wiki"] \in Nat /\ c["web"] \in Nat
      /\ OfKind(h.wiki, "wiki") = DOMAIN h.wiki /\ OfKind(h.web, "web") = DOMAIN h.web
      /\ IdsOf(h.wiki) \cap IdsOf(h.web) = {}
  BY StrataAssumption DEF Kinds
<1>2. h.wiki \in Seq(W \cup B) /\ h.web \in Seq(W \cup B)
  BY <1>1
<1>3. /\ Slice(h.wiki, c["wiki"]) \in Seq(W \cup B) /\ Slice(h.web, c["web"]) \in Seq(W \cup B)
      /\ SubSeq(h.wiki, c["wiki"] + 1, Len(h.wiki)) \in Seq(W \cup B)
      /\ SubSeq(h.web, c["web"] + 1, Len(h.web)) \in Seq(W \cup B)
  <2> HIDE DEF W, B
  <2> QED
    BY <1>1, <1>2 DEF Slice
<1>4. Combined(h, c) \in Seq(W \cup B)
  <2> HIDE DEF W, B
  <2> QED
    BY <1>3 DEF Combined
<1>5. \A x, y \in W \cup B : x.id = y.id => x.kind = y.kind
  <2>1. \A x \in W : x.kind = "wiki" /\ x.id \in IdsOf(h.wiki)
    BY <1>1 DEF OfKind, IdsOf
  <2>2. \A x \in B : x.kind = "web" /\ x.id \in IdsOf(h.web)
    BY <1>1 DEF OfKind, IdsOf
  <2> QED
    BY <1>1, <2>1, <2>2
<1> HIDE DEF W, B
<1> QED
  BY <1>4, <1>5

LEMMA InitSizes == Init => SizeInv
<1> SUFFICES ASSUME Init PROVE SizeInv
  OBVIOUS
<1>1. TypeOK
  BY InitTypes
<1>2. PoolParted
  <2>1. CASE task = "corpus"
    BY <2>1, CombinedParted DEF Init, PoolParted, Batch, Kinds
  <2>2. CASE task \in Kinds
    BY <2>2 DEF Init, PoolParted, Batch, OfKind, Kinds
  <2> QED
    BY <2>1, <2>2 DEF Init
<1>3. Loops
  <2>1. \A kind \in Kinds : cap[kind] \in Nat
    BY <1>1 DEF TypeOK
  <2>2. Swept
    BY StrataAssumption DEF Init, Swept
  <2> QED
    BY <2>1, <2>2, CountEmpty DEF Init, Loops, Batch
<1> QED
  BY <1>1, <1>2, <1>3 DEF Init, SizeInv, NoTwice, FromPool

\* A sentence with an unused id may be appended.
LEMMA AppendUnused ==
  ASSUME NEW s \in Seq(Candidate), NEW c \in Candidate, c.id \notin IdsOf(s), NoTwice(s), FromPool(s),
         \E i \in DOMAIN pool : c = pool[i]
  PROVE  NoTwice(Append(s, c)) /\ FromPool(Append(s, c))
<1>1. NoTwice(Append(s, c))
  BY Positions DEF NoTwice, IdsOf
<1>2. FromPool(Append(s, c))
  BY Positions DEF FromPool
<1> QED
  BY <1>1, <1>2

LEMMA SizesKept == SizeInv /\ [Next]_vars => SizeInv'
<1> SUFFICES ASSUME SizeInv, [Next]_vars PROVE SizeInv'
  OBVIOUS
<1> USE DEF SizeInv
<1>1. TypeOK'
  BY TypesKept
<1>2. UNCHANGED <<task, cap, pool>>
  BY DEF Next, vars, Sweep, Take, Pass, EndSweeps, Cap, CapEnds, TopUp, TopUpEnds, Done
<1>3. PoolParted' /\ (Batch' <=> Batch)
  BY <1>2 DEF PoolParted, Batch
<1>4. \A i \in DOMAIN pool : pool[i] \in Candidate
  BY DEF TypeOK
<1>5. chosen \in Seq(Candidate) /\ final \in Seq(Candidate) /\ Len(Strata) \in Nat /\ at \in Nat \ {0}
  BY StrataAssumption DEF TypeOK
<1>6. CASE UNCHANGED <<phase, at, chosen, final>>
  <2>1. Loops'
    BY <1>2, <1>3, <1>6 DEF Loops, Swept
  <2>2. \A kind : Topped(kind)' <=> Topped(kind)
    BY <1>2, <1>3, <1>6 DEF Topped, Result, Unused
  <2> QED
    BY <1>1, <1>2, <1>3, <1>6, <2>1, <2>2 DEF NoTwice, FromPool
<1>7. CASE Sweep \/ Pass
  <2>1. phase = "sweep" /\ UNCHANGED <<phase, chosen, final>>
    BY <1>7 DEF Sweep, Pass
  <2>2. Loops'
    <3>1. Batch => Len(chosen) < cap[task]
      <4>1. CASE Sweep
        BY <1>5, <4>1 DEF Sweep, Again, Enough, Batch, TypeOK
      <4>2. CASE Pass
        BY <4>2 DEF Pass, Loops
      <4> QED
        BY <1>7, <4>1, <4>2
    <3> QED
      BY <1>2, <1>3, <2>1, <3>1 DEF Loops
  <2> QED
    BY <1>1, <1>2, <1>3, <2>1, <2>2 DEF NoTwice, FromPool
<1>8. CASE Take
  <2>1. PICK i \in DOMAIN pool : First(i, Open(chosen, Strata[at])) /\ chosen' = Append(chosen, pool[i])
    BY <1>8 DEF Take
  <2>2. pool[i].id \notin IdsOf(chosen)
    BY <2>1 DEF First, Open, Unused
  <2>3. NoTwice(chosen)' /\ FromPool(chosen)'
    <3>1. NoTwice(Append(chosen, pool[i])) /\ FromPool(Append(chosen, pool[i]))
      BY <1>4, <1>5, <2>2, AppendUnused
    <3> QED
      BY <1>2, <2>1, <3>1 DEF NoTwice, FromPool
  <2>4. /\ phase = "sweep" /\ ~Swept /\ UNCHANGED <<phase, final>>
        /\ at' = IF Batch /\ Len(chosen') >= cap[task] THEN Len(Strata) + 1 ELSE at + 1
    BY <1>8 DEF Take
  <2>5. Len(chosen') = Len(chosen) + 1
    BY <1>4, <1>5, <2>1
  <2>6. Batch => cap[task] \in Nat
    BY DEF Batch, TypeOK
  <2>7. Loops'
    BY <1>2, <1>3, <1>5, <2>4, <2>5, <2>6 DEF Loops, Swept
  <2> QED
    BY <1>1, <1>2, <1>3, <2>3, <2>4, <2>7 DEF NoTwice, FromPool
<1>9. CASE EndSweeps
  <2>1. phase = "sweep" /\ phase' = (IF Batch THEN task ELSE "cap") /\ UNCHANGED <<chosen, final>>
    BY <1>9 DEF EndSweeps
  <2>2. final = <<>> /\ (Batch => task \in Kinds)
    BY <2>1 DEF Loops, Batch
  <2>3. Loops'
    BY <1>2, <1>3, <2>1, <2>2 DEF Loops, Kinds
  <2> QED
    BY <1>1, <1>2, <1>3, <2>1, <2>2, <2>3 DEF NoTwice, FromPool, Kinds
<1>10. CASE Cap
  <2>1. /\ phase = "cap" /\ at \in DOMAIN chosen /\ at' = at + 1 /\ UNCHANGED <<phase, chosen>>
        /\ final' = IF Held(final, chosen[at].kind) >= cap[chosen[at].kind] THEN final ELSE Append(final, chosen[at])
    BY <1>5, <1>10 DEF Cap
  <2>2. ~Batch /\ chosen[at] \in Candidate
    BY <1>5, <2>1 DEF Loops, Batch, Kinds
  <2>3. CASE UNCHANGED final
    <3>1. Loops'
      BY <1>2, <1>3, <1>5, <2>1, <2>2, <2>3 DEF Loops
    <3> QED
      BY <1>1, <1>2, <1>3, <2>1, <2>2, <2>3, <3>1 DEF NoTwice, FromPool
  <2>4. CASE Held(final, chosen[at].kind) < cap[chosen[at].kind] /\ final' = Append(final, chosen[at])
    <3>1. chosen[at].id \notin IdsOf(final)
      <4> SUFFICES ASSUME NEW j \in DOMAIN final, final[j].id = chosen[at].id PROVE FALSE
        BY DEF IdsOf
      <4>1. PICK m \in DOMAIN chosen : m < at /\ final[j] = chosen[m]
        BY <2>1 DEF Loops
      <4> QED
        BY <1>5, <2>1, <4>1 DEF NoTwice
    <3>2. NoTwice(final)' /\ FromPool(final)'
      <4>1. NoTwice(Append(final, chosen[at])) /\ FromPool(Append(final, chosen[at]))
        BY <1>5, <2>1, <2>2, <3>1, AppendUnused DEF FromPool
      <4> QED
        BY <1>2, <2>4, <4>1 DEF NoTwice, FromPool
    <3>3. \A j \in DOMAIN final' : \E m \in DOMAIN chosen : m < at + 1 /\ final'[j] = chosen[m]
      <4> SUFFICES ASSUME NEW j \in DOMAIN final'
                   PROVE  \E m \in DOMAIN chosen : m < at + 1 /\ final'[j] = chosen[m]
        OBVIOUS
      <4>1. CASE j \in DOMAIN final
        <5>1. PICK m \in DOMAIN chosen : m < at /\ final[j] = chosen[m]
          BY <2>1, <4>1 DEF Loops
        <5>2. final'[j] = final[j]
          BY <1>5, <2>2, <2>4, <4>1, Positions
        <5> QED
          BY <1>5, <5>1, <5>2
      <4>2. CASE j = Len(final) + 1
        <5>1. final'[j] = chosen[at]
          BY <1>5, <2>2, <2>4, <4>2, Positions
        <5> QED
          BY <1>5, <2>1, <5>1
      <4> QED
        BY <1>5, <2>2, <2>4, <4>1, <4>2, Positions
    <3>4. \A kind \in Kinds : Held(final', kind) <= cap[kind]
      <4>1. chosen[at].kind \in Kinds /\ cap \in [Kinds -> Nat]
        BY <2>2 DEF Candidate, TypeOK
      <4> SUFFICES ASSUME NEW kind \in Kinds PROVE Held(final', kind) <= cap[kind]
        OBVIOUS
      <4>2. /\ Held(final, kind) \in Nat /\ Held(final, kind) <= cap[kind]
            /\ Held(final', kind) = IF chosen[at].kind = kind THEN Held(final, kind) + 1 ELSE Held(final, kind)
        BY <1>5, <2>2, <2>4, HeldAppend DEF Loops
      <4> QED
        BY <2>4, <4>1, <4>2
    <3>5. Loops'
      BY <1>2, <1>3, <2>1, <2>2, <3>3, <3>4 DEF Loops
    <3> QED
      BY <1>1, <1>2, <1>3, <2>1, <2>2, <3>2, <3>5 DEF NoTwice, FromPool
  <2>5. chosen[at].kind \in Kinds /\ Held(final, chosen[at].kind) \in Nat /\ cap[chosen[at].kind] \in Nat
    BY <1>5, <2>2, HeldAppend DEF Candidate, TypeOK
  <2> QED
    BY <2>1, <2>3, <2>4, <2>5
<1>11. CASE CapEnds
  <2>1. phase = "cap" /\ phase' = "wiki" /\ UNCHANGED <<at, chosen, final>> /\ ~Batch
    BY <1>11 DEF CapEnds, Loops, Batch, Kinds
  <2>2. Loops'
    BY <1>2, <1>3, <2>1 DEF Loops
  <2> QED
    BY <1>1, <1>2, <1>3, <2>1, <2>2 DEF NoTwice, FromPool
<1>12. CASE TopUp
  <2>1. PICK i \in DOMAIN pool :
          /\ First(i, Wanted(phase))
          /\ \/ Batch /\ chosen' = Append(chosen, pool[i]) /\ UNCHANGED final
             \/ ~Batch /\ final' = Append(final, pool[i]) /\ UNCHANGED chosen
    BY <1>12 DEF TopUp
  <2>2. /\ Held(Result, phase) < cap[phase] /\ pool[i].id \notin IdsOf(Result)
        /\ pool[i].kind = phase /\ pool[i] \in Candidate
    BY <1>4, <2>1 DEF First, Wanted, Unused
  <2>3. phase \in Kinds /\ UNCHANGED <<phase, at>>
    BY <1>12 DEF TopUp
  <2>4. CASE Batch /\ chosen' = Append(chosen, pool[i]) /\ UNCHANGED final
    <3>1. NoTwice(chosen)' /\ FromPool(chosen)'
      <4>1. NoTwice(Append(chosen, pool[i])) /\ FromPool(Append(chosen, pool[i]))
        BY <1>5, <2>2, <2>4, AppendUnused DEF Result
      <4> QED
        BY <1>2, <2>4, <4>1 DEF NoTwice, FromPool
    <3>2. phase = task /\ Held(chosen, task) = Len(chosen)
      BY <2>3, <2>4, BatchIsOfItsKind DEF Loops, Kinds
    <3>3. Len(chosen') <= cap[task]
      BY <1>5, <2>2, <2>3, <2>4, <3>2 DEF Result, TypeOK
    <3>4. Loops'
      BY <1>2, <1>3, <2>3, <2>4, <3>2, <3>3 DEF Loops, Kinds
    <3> QED
      BY <1>1, <1>2, <1>3, <2>3, <2>4, <3>1, <3>4 DEF NoTwice, FromPool, Kinds
  <2>5. CASE ~Batch /\ final' = Append(final, pool[i]) /\ UNCHANGED chosen
    <3>1. NoTwice(final)' /\ FromPool(final)'
      <4>1. NoTwice(Append(final, pool[i])) /\ FromPool(Append(final, pool[i]))
        BY <1>5, <2>2, <2>5, AppendUnused DEF Result
      <4> QED
        BY <1>2, <2>5, <4>1 DEF NoTwice, FromPool
    <3>2. \A kind \in Kinds : /\ Held(final, kind) \in Nat
                              /\ Held(final', kind) = IF kind = phase THEN Held(final, kind) + 1 ELSE Held(final, kind)
      BY <1>5, <2>2, <2>5, HeldAppend
    <3>3. \A kind \in Kinds : Held(final', kind) <= cap[kind]
      <4>1. cap \in [Kinds -> Nat] /\ \A kind \in Kinds : Held(final, kind) <= cap[kind]
        BY <2>5 DEF Loops, TypeOK
      <4>2. Held(final, phase) < cap[phase]
        BY <2>2, <2>5 DEF Result
      <4> QED
        BY <2>3, <3>2, <4>1, <4>2
    <3>4. Loops'
      BY <1>2, <1>3, <2>3, <2>5, <3>3 DEF Loops, Kinds
    <3>5. Topped("wiki") => Topped("wiki")'
      <4>1. IdsOf(final) \subseteq IdsOf(final')
        BY <1>5, <2>2, <2>5, Positions DEF IdsOf
      <4>2. {j \in Unused(final) : pool[j].kind = "wiki"} = {} => {j \in Unused(final)' : pool'[j].kind = "wiki"} = {}
        BY <1>2, <4>1 DEF Unused
      <4>3. Held(final, "wiki") >= cap["wiki"] => Held(final', "wiki") >= cap["wiki"]
        BY <3>2 DEF Kinds, TypeOK
      <4> QED
        BY <1>2, <1>3, <2>5, <4>2, <4>3 DEF Topped, Result
    <3> QED
      BY <1>1, <1>2, <1>3, <2>3, <2>5, <3>1, <3>4, <3>5 DEF NoTwice, FromPool, Kinds
  <2> QED
    BY <2>1, <2>4, <2>5
<1>13. CASE TopUpEnds
  <2>1. /\ phase \in Kinds /\ Wanted(phase) = {} /\ UNCHANGED <<at, chosen, final>>
        /\ phase' = IF ~Batch /\ phase = "wiki" THEN "web" ELSE "done"
    BY <1>13 DEF TopUpEnds
  <2>2. Topped(phase)
    <3>1. Held(Result, phase) \in Nat /\ cap[phase] \in Nat
      BY <1>5, <2>1, HeldAppend, SizeOfKind DEF Result, TypeOK
    <3> QED
      BY <2>1, <3>1 DEF Wanted, Topped
  <2>3. \A kind : Topped(kind)' <=> Topped(kind)
    BY <1>2, <1>3, <2>1 DEF Topped, Result, Unused
  <2>4. Loops'
    BY <1>2, <1>3, <2>1 DEF Loops, Kinds
  <2>5. Batch => phase = task
    BY <2>1 DEF Loops, Kinds
  <2> QED
    BY <1>1, <1>2, <1>3, <2>1, <2>2, <2>3, <2>4, <2>5 DEF NoTwice, FromPool, Kinds
<1>14. CASE Done \/ UNCHANGED vars
  BY <1>6, <1>14 DEF Done, vars
<1> QED
  BY <1>7, <1>8, <1>9, <1>10, <1>11, <1>12, <1>13, <1>14 DEF Next

\* The result has the size asked for, or all there is, and no id twice.
THEOREM SizeIsAsAsked == Spec => []SizeAsAsked
<1> QED
  BY InitSizes, SizesKept, SizesFollow, PTL DEF Spec
-----------------------------------------------------------------------------
(***************************************************************************)
(* A batch covers the strata.  Two arguments: in the first sweep every       *)
(* stratum is tried before more sentences are taken than strata were passed;  *)
(* and each take uses up one of the places owed to the floors, a stratum that  *)
(* is still ahead in the sweep being owed one even when another's sentence has *)
(* meanwhile filled it, because the list of needed strata is stale.            *)
(***************************************************************************)
Tried(k) == Covering(chosen, k) >= 1 \/ Open(chosen, k) = {}

Untouched == phase = "sweep" /\ Swept /\ changed /\ chosen = <<>>

FirstSweep ==
  /\ phase = "sweep" /\ ~Swept /\ need = StrataSet /\ Len(chosen) < at
  /\ \A j \in 1..at - 1 : Tried(Strata[j])

EachTried ==
  Batch /\ cap[task] >= Len(Strata) => (\A k \in StrataSet : Tried(k)) \/ Untouched \/ FirstSweep

Settled(k) == Covering(chosen, k) >= Floor(k) \/ Open(chosen, k) = {}

Owed(k) == IF Ahead(k) /\ Covering(chosen, k) >= Floor(k) THEN 1 ELSE Floor(k) - Covering(chosen, k)

OwedPlaces == {p \in FloorPlaces : p[2] <= Owed(p[1])}

RoomLeft ==
  Batch /\ cap[task] >= Cardinality(FloorPlaces) =>
    \/ \A k \in StrataSet : Settled(k)
    \/ phase = "sweep" /\ Len(chosen) + Cardinality(OwedPlaces) <= Cardinality(FloorPlaces)

CoverInv == GreedyInv /\ EachTried /\ RoomLeft

\* The places of the floors.
LEMMA PlacesAreFinite ==
  /\ IsFiniteSet(FloorPlaces) /\ Cardinality(FloorPlaces) \in Nat
  /\ \A k \in StrataSet : \A n \in 1..Floor(k) : <<k, n>> \in FloorPlaces
  /\ \A p \in FloorPlaces : p = <<p[1], p[2]>> /\ p[1] \in StrataSet /\ p[2] \in 1..Floor(p[1])
<1> DEFINE Row(k) == {k} \X (1..Floor(k))
           Rows == {Row(k) : k \in StrataSet}
           row == [j \in 1..Len(Strata) |-> Row(Strata[j])]
<1>1. \A k \in StrataSet : IsFiniteSet(Row(k))
  <2> TAKE k \in StrataSet
  <2>1. IsFiniteSet(1..Floor(k))
    BY GoalType, FS_Interval
  <2>2. IsFiniteSet({k})
    BY FS_Singleton
  <2> QED
    BY <2>1, <2>2, FS_Product
<1>2. IsFiniteSet(Rows)
  <2>1. IsFiniteSet(1..Len(Strata))
    BY StrataAssumption, FS_Interval
  <2>2. DOMAIN Strata = 1..Len(Strata)
    BY StrataAssumption
  <2>3. row \in Surjection(1..Len(Strata), Rows)
    BY <2>2 DEF Surjection, StrataSet
  <2> QED
    BY <2>1, <2>3, FS_Surjection
<1>3. FloorPlaces = UNION Rows
  BY DEF FloorPlaces
<1>4. IsFiniteSet(UNION Rows)
  BY <1>1, <1>2, FS_UNION
<1>5. IsFiniteSet(FloorPlaces) /\ Cardinality(FloorPlaces) \in Nat
  BY <1>3, <1>4, FS_CardinalityType
<1>6. \A k \in StrataSet : \A n \in 1..Floor(k) : <<k, n>> \in FloorPlaces
  BY DEF FloorPlaces
<1>7. \A p \in FloorPlaces : p = <<p[1], p[2]>> /\ p[1] \in StrataSet /\ p[2] \in 1..Floor(p[1])
  BY DEF FloorPlaces
<1> QED
  BY <1>5, <1>6, <1>7

\* A floor is one or more.
LEMMA FloorIsPositive ==
  ASSUME NEW k \in StrataSet PROVE Floor(k) \in Nat /\ Floor(k) >= 1
BY GoalType DEF Floor

LEMMA OwedIsFinite ==
  IsFiniteSet(OwedPlaces) /\ Cardinality(OwedPlaces) \in Nat
BY PlacesAreFinite, FS_Subset, FS_CardinalityType DEF OwedPlaces

\* What is owed is a number below or at the floor, and nothing once all floors are reached.
LEMMA OwedType ==
  ASSUME TypeOK, NEW k \in StrataSet PROVE Owed(k) \in Int /\ Owed(k) <= Floor(k)
<1>1. Covering(chosen, k) \in Nat
  <2>1. IsFiniteSet(DOMAIN chosen)
    BY FS_Interval DEF TypeOK
  <2> QED
    BY <2>1, FS_Subset, FS_CardinalityType DEF Covering
<1> QED
  BY <1>1, FloorIsPositive DEF Owed

LEMMA NothingOwed ==
  ASSUME TypeOK, Cardinality(OwedPlaces) = 0, NEW k \in StrataSet
  PROVE  Covering(chosen, k) >= Floor(k)
<1>1. OwedPlaces = {}
  BY OwedIsFinite, FS_EmptySet
<1>2. <<k, 1>> \in FloorPlaces
  BY FloorIsPositive, PlacesAreFinite
<1>3. ~(1 <= Owed(k))
  BY <1>1, <1>2 DEF OwedPlaces
<1>4. Covering(chosen, k) \in Nat
  <2>1. IsFiniteSet(DOMAIN chosen)
    BY FS_Interval DEF TypeOK
  <2> QED
    BY <2>1, FS_Subset, FS_CardinalityType DEF Covering
<1> QED
  BY <1>3, <1>4, FloorIsPositive DEF Owed

LEMMA InitCover == Init => EachTried /\ RoomLeft
<1> SUFFICES ASSUME Init PROVE EachTried /\ RoomLeft
  OBVIOUS
<1>1. TypeOK
  BY InitTypes
<1>2. Len(Strata) \in Nat
  BY StrataAssumption
<1>3. Untouched
  BY <1>2 DEF Init, Untouched, Swept
<1>4. Len(chosen) + Cardinality(OwedPlaces) <= Cardinality(FloorPlaces)
  <2>1. Cardinality(OwedPlaces) <= Cardinality(FloorPlaces)
    BY PlacesAreFinite, FS_Subset DEF OwedPlaces
  <2>2. Len(chosen) = 0
    BY DEF Init
  <2> QED
    BY <2>1, <2>2, PlacesAreFinite, OwedIsFinite
<1> QED
  BY <1>3, <1>4 DEF Init, EachTried, RoomLeft

\* What is tried or settled stays so, whatever is appended.
LEMMA CoveredStays ==
  ASSUME TypeOK, UNCHANGED <<task, cap, pool>>, NEW k \in StrataSet,
         UNCHANGED chosen \/ \E i \in DOMAIN pool : chosen' = Append(chosen, pool[i])
  PROVE  /\ Tried(k) => Tried(k)'
         /\ Settled(k) => Settled(k)'
         /\ Covering(chosen, k) \in Nat /\ Covering(chosen, k)' \in Nat
         /\ Covering(chosen, k)' >= Covering(chosen, k)
<1>1. \A c \in Seq(Candidate) : Covering(c, k) \in Nat
  <2> SUFFICES ASSUME NEW c \in Seq(Candidate) PROVE Covering(c, k) \in Nat
    OBVIOUS
  <2>1. IsFiniteSet(DOMAIN c)
    BY FS_Interval
  <2> QED
    BY <2>1, FS_Subset, FS_CardinalityType DEF Covering
<1>2. chosen \in Seq(Candidate)
  BY DEF TypeOK
<1>3. CASE UNCHANGED chosen
  <2>1. Covering(chosen, k)' = Covering(chosen, k) /\ Open(chosen, k)' = Open(chosen, k)
    BY <1>3 DEF Covering, Open, Unused
  <2> QED
    BY <1>1, <1>2, <2>1 DEF Tried, Settled, Floor
<1>4. CASE \E i \in DOMAIN pool : chosen' = Append(chosen, pool[i])
  <2>1. PICK i \in DOMAIN pool : chosen' = Append(chosen, pool[i])
    BY <1>4
  <2>2. pool[i] \in Candidate
    BY DEF TypeOK
  <2>3. Covering(chosen, k) \in Nat /\ Covering(chosen, k)' \in Nat
        /\ Covering(chosen, k)' >= Covering(chosen, k)
    BY <1>1, <1>2, <2>1, <2>2, CoveringAppend
  <2>4. Open(chosen, k) = {} => Open(chosen, k)' = {}
    <3>1. Open(Append(chosen, pool[i]), k) \subseteq Open(chosen, k)
      BY <1>2, <2>2, OpenShrinks
    <3>2. Open(chosen, k)' = Open(Append(chosen, pool[i]), k)
      BY <2>1 DEF Open, Unused
    <3> QED
      BY <3>1, <3>2
  <2>5. Floor(k) \in Nat /\ Floor(k)' = Floor(k)
    BY FloorIsPositive DEF Floor
  <2> QED
    BY <2>3, <2>4, <2>5 DEF Tried, Settled
<1> QED
  BY <1>3, <1>4

\* No step puts back what was chosen.
LEMMA ChosenGrows ==
  ASSUME [Next]_vars
  PROVE  /\ UNCHANGED <<task, cap, pool>>
         /\ UNCHANGED chosen \/ \E i \in DOMAIN pool : chosen' = Append(chosen, pool[i])
<1>1. UNCHANGED <<task, cap, pool>>
  BY DEF Next, vars, Sweep, Take, Pass, EndSweeps, Cap, CapEnds, TopUp, TopUpEnds, Done
<1>2. UNCHANGED chosen \/ \E i \in DOMAIN pool : chosen' = Append(chosen, pool[i])
  <2>1. CASE Take
    BY <2>1, Zenon DEF Take
  <2>2. CASE TopUp
    BY <2>2, Zenon DEF TopUp
  <2> QED
    BY <2>1, <2>2 DEF Next, vars, Sweep, Pass, EndSweeps, Cap, CapEnds, TopUpEnds, Done
<1> QED
  BY <1>1, <1>2

\* The first sweep tries every stratum, whether it ends by itself or because the batch is full.
LEMMA EachTriedKept == CoverInv /\ [Next]_vars => EachTried'
<1> SUFFICES ASSUME CoverInv, [Next]_vars, Batch, cap[task] >= Len(Strata)
             PROVE  ((\A k \in StrataSet : Tried(k)) \/ Untouched \/ FirstSweep)'
  BY ChosenGrows DEF EachTried, Batch
<1>1. TypeOK /\ ((\A k \in StrataSet : Tried(k)) \/ Untouched \/ FirstSweep)
  BY DEF CoverInv, GreedyInv, EachTried
<1>2. Len(Strata) \in Nat /\ DOMAIN Strata = 1..Len(Strata) /\ cap[task] \in Nat
  BY <1>1, StrataAssumption DEF TypeOK, Batch
<1>3. CASE \A k \in StrataSet : Tried(k)
  BY <1>1, <1>3, ChosenGrows, CoveredStays
<1>4. CASE Untouched
  <2>1. CASE Enough
    <3>1. Len(Strata) = 0
      BY <1>2, <1>4, <2>1 DEF Enough, Untouched
    <3>2. StrataSet = {}
      BY <1>2, <3>1 DEF StrataSet
    <3> QED
      BY <3>2
  <2>2. CASE ~Enough /\ Sweep
    <3>1. \A k \in StrataSet : filled[k] = 0
      BY <1>4, CountEmpty DEF CoverInv, GreedyInv, Counted, Untouched
    <3>2. Short = StrataSet
      BY <3>1, FloorIsPositive DEF Short, Goal
    <3>3. need' = StrataSet /\ at' = 1 /\ phase' = "sweep" /\ chosen' = <<>>
      BY <1>4, <2>2, <3>2 DEF Sweep, Untouched
    <3>4. CASE Len(Strata) = 0
      <4>1. StrataSet = {}
        BY <1>2, <3>4 DEF StrataSet
      <4> QED
        BY <4>1
    <3>5. CASE Len(Strata) # 0
      BY <1>2, <3>3, <3>5 DEF FirstSweep, Swept
    <3> QED
      BY <3>4, <3>5
  <2>3. CASE ~Enough /\ ~Sweep
    <3>1. Again /\ phase = "sweep" /\ Swept
      BY <1>4, <2>3 DEF Untouched, Again
    <3>2. UNCHANGED vars
      BY <2>3, <3>1 DEF Next, Take, Pass, EndSweeps, Cap, CapEnds, TopUp, TopUpEnds, Done, Kinds, vars
    <3> QED
      BY <1>4, <3>2 DEF Untouched, vars, Swept
  <2> QED
    BY <2>1, <2>2, <2>3
<1>5. CASE FirstSweep
  <2>1. /\ ~Swept /\ phase = "sweep" /\ at \in 1..Len(Strata) /\ need = StrataSet
        /\ Len(chosen) \in Nat /\ Len(chosen) < at
        /\ at \in Int /\ Len(Strata) \in Int /\ at <= Len(Strata)
    BY <1>1, <1>2, <1>5 DEF FirstSweep, Swept, TypeOK
  <2>2. PICK k \in StrataSet : k = Strata[at]
    BY <1>2, <2>1 DEF StrataSet
  <2>3. \A j \in 1..at - 1 : Strata[j] \in StrataSet /\ Tried(Strata[j])
    BY <1>2, <1>5, <2>1 DEF FirstSweep, StrataSet
  <2>4. \A l \in StrataSet : Tried(l) => Tried(l)'
    BY <1>1, ChosenGrows, CoveredStays
  <2>5. CASE Take \/ Pass
    <3>1. Tried(k)'
      <4>1. CASE Take
        <5>1. PICK i \in DOMAIN pool : First(i, Open(chosen, k)) /\ chosen' = Append(chosen, pool[i])
          BY <2>2, <4>1 DEF Take
        <5>2. pool[i] \in Candidate /\ chosen \in Seq(Candidate) /\ k \in pool[i].strata
          BY <1>1, <5>1 DEF TypeOK, First, Open
        <5>3. Covering(chosen, k)' >= 1
          BY <5>1, <5>2, CoveringAppend
        <5> QED
          BY <5>3 DEF Tried
      <4>2. CASE Pass
        <5>1. Open(chosen, k) = {}
          BY <2>1, <2>2, <4>2 DEF Pass
        <5> QED
          BY <2>4, <5>1 DEF Tried
      <4> QED
        BY <2>5, <4>1, <4>2
    <3>2. \A j \in 1..at : Strata[j] \in StrataSet /\ Tried(Strata[j])'
      <4> SUFFICES ASSUME NEW j \in 1..at PROVE Strata[j] \in StrataSet /\ Tried(Strata[j])'
        OBVIOUS
      <4>1. CASE j = at
        BY <2>2, <3>1, <4>1
      <4>2. CASE j # at
        <5>1. j \in 1..at - 1
          BY <2>1, <4>2
        <5> QED
          BY <2>3, <2>4, <5>1
      <4> QED
        BY <4>1, <4>2
    <3>3. at = Len(Strata) => \A l \in StrataSet : Tried(l)'
      BY <1>2, <3>2 DEF StrataSet
    <3>4. CASE at = Len(Strata)
      BY <3>3, <3>4
    <3>5. CASE at # Len(Strata)
      <4>0. /\ Len(Strata) \in Nat /\ cap[task] \in Nat
            /\ at \in Int /\ at <= Len(Strata) /\ Len(chosen) \in Nat /\ Len(chosen) < at
        BY <1>2, <2>1
      <4>1. Len(chosen') \in Nat /\ Len(chosen') <= at /\ Len(chosen') < cap[task]
        <5>1. Len(chosen') = Len(chosen) \/ Len(chosen') = Len(chosen) + 1
          BY <1>1, ChosenGrows DEF TypeOK
        <5> QED
          BY <3>5, <4>0, <5>1
      <4>2. at' = at + 1
        BY <1>2, <2>5, <4>1 DEF Take, Pass
      <4>3. phase' = "sweep" /\ need' = StrataSet
        BY <2>1, <2>5 DEF Take, Pass
      <4>4. at + 1 <= Len(Strata)
        BY <3>5, <4>0
      <4>5. \A j \in 1..at' - 1 : Tried(Strata[j])'
        BY <2>1, <3>2, <4>2
      <4> QED
        BY <1>2, <2>1, <4>1, <4>2, <4>3, <4>4, <4>5 DEF FirstSweep, Swept
    <3> QED
      BY <3>4, <3>5
  <2>6. CASE UNCHANGED vars
    BY <1>5, <2>6 DEF FirstSweep, Swept, vars, Tried, Open, Unused
  <2> QED
    BY <2>1, <2>5, <2>6 DEF Next, Sweep, EndSweeps, Cap, CapEnds, TopUp, TopUpEnds, Done, Kinds
<1> QED
  BY <1>1, <1>3, <1>4, <1>5

\* The places owed to the floors only get fewer while no stratum is ahead anew.
LEMMA LessOwed ==
  ASSUME TypeOK, TypeOK', UNCHANGED <<task, cap, pool>>,
         UNCHANGED chosen \/ \E i \in DOMAIN pool : chosen' = Append(chosen, pool[i]),
         \A k \in StrataSet : Ahead(k)' => Ahead(k)
  PROVE  /\ \A k \in StrataSet : Owed(k) \in Int /\ Owed(k)' \in Int /\ Owed(k)' <= Owed(k)
         /\ OwedPlaces' \subseteq OwedPlaces
         /\ IsFiniteSet(OwedPlaces) /\ Cardinality(OwedPlaces) \in Nat
         /\ IsFiniteSet(OwedPlaces') /\ Cardinality(OwedPlaces') \in Nat
         /\ Cardinality(OwedPlaces') <= Cardinality(OwedPlaces)
<1>1. \A k \in StrataSet : Owed(k) \in Int /\ Owed(k)' \in Int /\ Owed(k)' <= Owed(k)
  <2> SUFFICES ASSUME NEW k \in StrataSet
               PROVE  Owed(k) \in Int /\ Owed(k)' \in Int /\ Owed(k)' <= Owed(k)
    OBVIOUS
  <2>1. /\ Covering(chosen, k) \in Nat /\ Covering(chosen, k)' \in Nat
        /\ Covering(chosen, k)' >= Covering(chosen, k)
    BY CoveredStays
  <2>2. Floor(k) \in Nat /\ Floor(k)' = Floor(k)
    BY FloorIsPositive DEF Floor
  <2>3. Ahead(k)' => Ahead(k)
    OBVIOUS
  <2> QED
    BY <2>1, <2>2, <2>3 DEF Owed
<1>2. FloorPlaces' = FloorPlaces
  BY DEF FloorPlaces
<1>3. OwedPlaces' \subseteq OwedPlaces
  <2> SUFFICES ASSUME NEW p \in OwedPlaces' PROVE p \in OwedPlaces
    OBVIOUS
  <2>1. p \in FloorPlaces /\ p[2] <= Owed(p[1])'
    BY <1>2 DEF OwedPlaces
  <2>2. p[1] \in StrataSet /\ p[2] \in Int
    <3>1. p[1] \in StrataSet /\ p[2] \in 1..Floor(p[1])
      BY <2>1, PlacesAreFinite
    <3> QED
      BY <3>1, GoalType
  <2>3. p[2] <= Owed(p[1])
    BY <1>1, <2>1, <2>2
  <2> QED
    BY <2>1, <2>3 DEF OwedPlaces
<1>4. IsFiniteSet(OwedPlaces) /\ Cardinality(OwedPlaces) \in Nat
  BY OwedIsFinite
<1> QED
  BY <1>1, <1>3, <1>4, FS_Subset, FS_CardinalityType

LEMMA PlaceUsed ==
  ASSUME TypeOK, TypeOK', UNCHANGED <<task, cap, pool>>,
         UNCHANGED chosen \/ \E i \in DOMAIN pool : chosen' = Append(chosen, pool[i]),
         \A k \in StrataSet : Ahead(k)' => Ahead(k),
         NEW k \in StrataSet, Owed(k)' < Owed(k), Owed(k) >= 1
  PROVE  Cardinality(OwedPlaces') <= Cardinality(OwedPlaces) - 1
<1> DEFINE place == <<k, Owed(k)>>
<1>1. /\ Owed(k) \in Int /\ Owed(k)' \in Int /\ OwedPlaces' \subseteq OwedPlaces
      /\ IsFiniteSet(OwedPlaces) /\ Cardinality(OwedPlaces) \in Nat
  BY LessOwed
<1>2. place \in OwedPlaces
  <2>1. Owed(k) \in 1..Floor(k)
    BY OwedType, GoalType
  <2>2. place \in FloorPlaces
    BY <2>1, PlacesAreFinite
  <2> QED
    BY <1>1, <2>2 DEF OwedPlaces
<1>3. place \notin OwedPlaces'
  BY <1>1 DEF OwedPlaces
<1>4. OwedPlaces' \subseteq OwedPlaces \ {place}
  BY <1>1, <1>3
<1>5. IsFiniteSet(OwedPlaces \ {place}) /\ Cardinality(OwedPlaces \ {place}) = Cardinality(OwedPlaces) - 1
  BY <1>1, <1>2, FS_RemoveElement
<1> QED
  BY <1>4, <1>5, FS_Subset

\* A step of the sweep takes a sentence for a place, or none; it ends when no place is owed.
LEMMA RoomKept == GreedyInv /\ GreedyInv' /\ RoomLeft /\ [Next]_vars => RoomLeft'
<1> SUFFICES ASSUME GreedyInv, GreedyInv', RoomLeft, [Next]_vars, Batch, cap[task] >= Cardinality(FloorPlaces)
             PROVE  \/ \A k \in StrataSet : Settled(k)'
                    \/ /\ phase' = "sweep"
                       /\ Len(chosen') + Cardinality(OwedPlaces') <= Cardinality(FloorPlaces)
  <2>1. FloorPlaces' = FloorPlaces
    BY DEF FloorPlaces
  <2> QED
    BY <2>1, ChosenGrows DEF RoomLeft, Batch
<1>1. TypeOK /\ TypeOK' /\ UNCHANGED <<task, cap, pool>>
  BY ChosenGrows DEF GreedyInv
<1>2. UNCHANGED chosen \/ \E i \in DOMAIN pool : chosen' = Append(chosen, pool[i])
  BY ChosenGrows
<1>3. Cardinality(FloorPlaces) \in Nat /\ cap[task] \in Nat /\ Len(chosen) \in Nat
  BY <1>1, PlacesAreFinite DEF TypeOK, Batch
<1>4. Len(Strata) \in Nat /\ DOMAIN Strata = 1..Len(Strata)
  BY StrataAssumption
<1>5. CASE \A k \in StrataSet : Settled(k)
  BY <1>1, <1>2, <1>5, CoveredStays
<1>6. CASE phase = "sweep" /\ Len(chosen) + Cardinality(OwedPlaces) <= Cardinality(FloorPlaces)
  <2>1. \A k \in StrataSet : Covering(chosen, k) \in Nat /\ Floor(k) \in Nat
                             /\ Goal(k) = Floor(k) /\ filled[k] = Covering(chosen, k)
    BY <1>1, <1>2, <1>6, CoveredStays, FloorIsPositive DEF Goal, GreedyInv, Counted
  <2>2. CASE Sweep
    <3>1. CASE Short = {}
      BY <1>1, <1>2, <2>1, <3>1, CoveredStays DEF Short, Settled
    <3>2. CASE Short # {}
      <4>1. /\ need' = Short /\ at' = 1 /\ phase' = "sweep" /\ UNCHANGED chosen
        BY <2>2, <3>2 DEF Sweep
      <4>2. \A k \in StrataSet : Owed(k)' = Owed(k)
        <5> SUFFICES ASSUME NEW k \in StrataSet PROVE Owed(k)' = Owed(k)
          OBVIOUS
        <5>1. ~Ahead(k)
          BY <1>1, <1>4, <2>2 DEF Sweep, Swept, Ahead, TypeOK
        <5>2. Ahead(k)' => ~(Covering(chosen, k) >= Floor(k))
          BY <2>1, <4>1 DEF Ahead, Short
        <5>3. Covering(chosen, k)' = Covering(chosen, k) /\ Floor(k)' = Floor(k)
          BY <4>1 DEF Covering, Floor
        <5> QED
          BY <5>1, <5>2, <5>3 DEF Owed
      <4>3. OwedPlaces' = OwedPlaces
        <5>1. \A p \in FloorPlaces : p[1] \in StrataSet
          BY PlacesAreFinite
        <5>2. FloorPlaces' = FloorPlaces
          BY DEF FloorPlaces
        <5> QED
          BY <4>2, <5>1, <5>2 DEF OwedPlaces
      <4> QED
        BY <1>6, <4>1, <4>3
    <3> QED
      BY <3>1, <3>2
  <2>3. CASE Take
    <3>1. PICK k \in StrataSet : k = Strata[at] /\ at \in DOMAIN Strata
      BY <1>1, <1>4, <2>3 DEF Take, Swept, TypeOK, StrataSet
    <3>2. PICK i \in DOMAIN pool : First(i, Open(chosen, k)) /\ chosen' = Append(chosen, pool[i])
      BY <2>3, <3>1 DEF Take
    <3>3. pool[i] \in Candidate /\ chosen \in Seq(Candidate) /\ k \in pool[i].strata
      BY <1>1, <3>2 DEF TypeOK, First, Open
    <3>4. Covering(chosen, k)' = Covering(chosen, k) + 1 /\ Len(chosen') = Len(chosen) + 1
      BY <3>2, <3>3, CoveringAppend
    <3>5. at' >= at + 1 /\ at' \in Int /\ need' = need /\ phase' = "sweep"
      BY <1>1, <1>4, <2>3, <3>1 DEF Take, TypeOK, Swept
    <3>6. \A l \in StrataSet : Ahead(l)' => Ahead(l)
      BY <1>1, <1>4, <3>5 DEF Ahead, TypeOK
    <3>7. Ahead(k) /\ ~Ahead(k)'
      <4>1. Ahead(k)
        BY <1>1, <1>4, <2>3, <3>1 DEF Ahead, Take, TypeOK
      <4>2. \A j \in DOMAIN Strata : Strata[j] = k => j = at
        BY <3>1, StrataAssumption
      <4>3. ~Ahead(k)'
        BY <1>1, <3>5, <4>2 DEF Ahead, TypeOK
      <4> QED
        BY <4>1, <4>3
    <3>8. Owed(k) >= 1 /\ Owed(k)' < Owed(k)
      <4>1. Floor(k)' = Floor(k)
        BY DEF Floor
      <4> QED
        BY <2>1, <3>4, <3>7, <4>1 DEF Owed
    <3>9. Cardinality(OwedPlaces') <= Cardinality(OwedPlaces) - 1
      BY <1>1, <1>2, <3>6, <3>8, PlaceUsed
    <3>10. Cardinality(OwedPlaces) \in Nat /\ Cardinality(OwedPlaces') \in Nat
      BY <1>1, <1>2, <3>6, LessOwed
    <3> QED
      BY <1>3, <1>6, <3>4, <3>5, <3>9, <3>10
  <2>4. CASE Pass
    <3>1. at' = at + 1 /\ need' = need /\ phase' = "sweep" /\ UNCHANGED chosen
      BY <2>4 DEF Pass
    <3>2. \A l \in StrataSet : Ahead(l)' => Ahead(l)
      BY <1>1, <1>4, <3>1 DEF Ahead, TypeOK
    <3>3. /\ Cardinality(OwedPlaces) \in Nat /\ Cardinality(OwedPlaces') \in Nat
          /\ Cardinality(OwedPlaces') <= Cardinality(OwedPlaces)
      BY <1>1, <1>2, <3>2, LessOwed
    <3> QED
      BY <1>3, <1>6, <3>1, <3>3
  <2>5. CASE EndSweeps
    <3>1. phase' # "sweep" /\ UNCHANGED chosen
      BY <2>5 DEF EndSweeps, Batch, Kinds
    <3>2. CASE Enough
      <4>1. Cardinality(OwedPlaces) = 0
        BY <1>3, <1>6, <3>2, OwedIsFinite DEF Enough
      <4>2. \A k \in StrataSet : Settled(k)
        BY <1>1, <4>1, NothingOwed DEF Settled
      <4> QED
        BY <1>1, <1>2, <4>2, CoveredStays
    <3>3. CASE ~Enough
      <4>1. ShortMeansExhausted' /\ ~Enough'
        BY <1>1, <3>1, <3>3 DEF GreedyInv, Enough, Batch
      <4>2. \A k \in StrataSet : Settled(k)'
        BY <1>1, <3>1, <4>1 DEF ShortMeansExhausted, Settled, Goal, Batch
      <4> QED
        BY <4>2
    <3> QED
      BY <3>2, <3>3
  <2>6. CASE UNCHANGED vars
    <3>1. \A l \in StrataSet : Ahead(l)' => Ahead(l)
      BY <2>6 DEF Ahead, vars
    <3>2. /\ Cardinality(OwedPlaces) \in Nat /\ Cardinality(OwedPlaces') \in Nat
          /\ Cardinality(OwedPlaces') <= Cardinality(OwedPlaces)
      BY <1>1, <1>2, <3>1, LessOwed
    <3>3. phase' = "sweep" /\ chosen' = chosen
      BY <1>6, <2>6 DEF vars
    <3> QED
      BY <1>3, <1>6, <3>2, <3>3
  <2> QED
    BY <1>6, <2>2, <2>3, <2>4, <2>5, <2>6 DEF Next, Cap, CapEnds, TopUp, TopUpEnds, Done, Kinds
<1> QED
  BY <1>5, <1>6 DEF RoomLeft

\* A batch as large as the floors together reaches every floor, and one as large as there are
\* strata covers each, for any pools, strata, quotas and caps.
THEOREM BatchCovers == Spec => []BatchCoversStrata
<1>1. CoverInv => BatchCoversStrata
  <2> SUFFICES ASSUME CoverInv, Batch, phase = "done", NEW k \in StrataSet, Open(chosen, k) # {}
               PROVE  /\ cap[task] >= Cardinality(FloorPlaces) => Covering(chosen, k) >= Floor(k)
                      /\ cap[task] >= Len(Strata) => Covering(chosen, k) >= 1
    BY DEF BatchCoversStrata
  <2>1. cap[task] >= Cardinality(FloorPlaces) => Settled(k)
    BY DEF CoverInv, RoomLeft
  <2>2. cap[task] >= Len(Strata) => Tried(k)
    BY DEF CoverInv, EachTried, Untouched, FirstSweep
  <2> QED
    BY <2>1, <2>2 DEF Settled, Tried
<1>2. Init => CoverInv
  BY InitGreedy, InitCover DEF CoverInv
<1>3. CoverInv /\ [Next]_vars => CoverInv'
  BY GreedyKept, EachTriedKept, RoomKept DEF CoverInv
<1> QED
  BY <1>1, <1>2, <1>3, PTL DEF Spec

-----------------------------------------------------------------------------
(***************************************************************************)
(* The loops cannot go on for ever.  What is left to do is a tuple of        *)
(* numbers: the loops still to come, the candidates still unused, whether     *)
(* another sweep is due, and the turns of the for loop.  Every step lowers it. *)
(***************************************************************************)
Stage == [sweep |-> 4, cap |-> 3, wiki |-> 2, web |-> 1, done |-> 0][phase]

Room == IF phase = "cap" THEN 0
        ELSE Cardinality(Unused(IF phase = "sweep" THEN chosen ELSE Result))

Turns == LET n == IF phase = "cap" THEN Len(chosen) ELSE Len(Strata)
         IN  IF at > n THEN 0 ELSE n + 1 - at

Toil == <<Stage, Room, IF changed THEN 1 ELSE 0, Turns>>

Lower(a, b) == \E i \in 1..4 : a[i] < b[i] /\ \A j \in 1..4 : j < i => a[j] = b[j]

LEMMA RoomIsNat ==
  ASSUME TypeOK
  PROVE  /\ Room \in Nat
         /\ \A s : IsFiniteSet(Unused(s)) /\ Cardinality(Unused(s)) \in Nat
<1>1. \A s : IsFiniteSet(Unused(s)) /\ Cardinality(Unused(s)) \in Nat
  <2> SUFFICES ASSUME NEW s PROVE IsFiniteSet(Unused(s)) /\ Cardinality(Unused(s)) \in Nat
    OBVIOUS
  <2>1. Unused(s) \subseteq 1..Len(pool) /\ Len(pool) \in Nat
    BY DEF Unused, TypeOK
  <2>2. IsFiniteSet(1..Len(pool))
    BY <2>1, FS_Interval
  <2> QED
    BY <2>1, <2>2, FS_Subset, FS_CardinalityType
<1> QED
  BY <1>1 DEF Room

LEMMA ToilIsNat == TypeOK => Toil \in Nat \X Nat \X Nat \X Nat
<1> SUFFICES ASSUME TypeOK PROVE Toil \in Nat \X Nat \X Nat \X Nat
  OBVIOUS
<1>1. Stage \in Nat
  BY DEF TypeOK, Stage
<1>2. Turns \in Nat
  BY StrataAssumption DEF TypeOK, Turns
<1>3. (IF changed THEN 1 ELSE 0) \in Nat
  OBVIOUS
<1> QED
  BY <1>1, <1>2, <1>3, RoomIsNat DEF Toil

\* A candidate appended is used.
LEMMA LessRoom ==
  ASSUME TypeOK, NEW s \in Seq(Candidate), NEW i \in Unused(s)
  PROVE  Cardinality(Unused(Append(s, pool[i]))) < Cardinality(Unused(s))
<1>1. i \in DOMAIN pool /\ pool[i] \in Candidate
  BY DEF Unused, TypeOK
<1>2. IdsOf(Append(s, pool[i])) = IdsOf(s) \cup {pool[i].id}
  BY <1>1, Positions DEF IdsOf
<1>3. Unused(Append(s, pool[i])) \subseteq Unused(s) \ {i}
  BY <1>2 DEF Unused
<1>4. IsFiniteSet(Unused(s)) /\ Cardinality(Unused(s)) \in Nat
  BY RoomIsNat
<1>5. IsFiniteSet(Unused(s) \ {i}) /\ Cardinality(Unused(s) \ {i}) = Cardinality(Unused(s)) - 1
  BY <1>4, FS_RemoveElement
<1>6. /\ Cardinality(Unused(Append(s, pool[i]))) <= Cardinality(Unused(s) \ {i})
      /\ Cardinality(Unused(Append(s, pool[i]))) \in Nat
  BY <1>3, <1>5, FS_Subset, RoomIsNat
<1> QED
  BY <1>4, <1>5, <1>6

LEMMA Lowered ==
  ASSUME NEW a, NEW b,
         \/ a[1] < b[1]
         \/ a[1] = b[1] /\ a[2] < b[2]
         \/ a[1] = b[1] /\ a[2] = b[2] /\ a[3] < b[3]
         \/ a[1] = b[1] /\ a[2] = b[2] /\ a[3] = b[3] /\ a[4] < b[4]
  PROVE  Lower(a, b)
<1>1. CASE a[1] < b[1]
  BY <1>1 DEF Lower
<1>2. CASE a[1] = b[1] /\ a[2] < b[2]
  BY <1>2 DEF Lower
<1>3. CASE a[1] = b[1] /\ a[2] = b[2] /\ a[3] < b[3]
  BY <1>3 DEF Lower
<1>4. CASE a[1] = b[1] /\ a[2] = b[2] /\ a[3] = b[3] /\ a[4] < b[4]
  BY <1>4 DEF Lower
<1> QED
  BY <1>1, <1>2, <1>3, <1>4

LEMMA ToilFalls == TypeOK /\ Next => Done \/ Lower(Toil', Toil)
<1> SUFFICES ASSUME TypeOK, Next, ~Done PROVE Lower(Toil', Toil)
  OBVIOUS
<1>1. /\ Toil[1] = Stage /\ Toil[2] = Room /\ Toil[3] = (IF changed THEN 1 ELSE 0) /\ Toil[4] = Turns
      /\ Toil'[1] = Stage' /\ Toil'[2] = Room' /\ Toil'[3] = (IF changed' THEN 1 ELSE 0)
      /\ Toil'[4] = Turns'
  BY DEF Toil
<1>2. /\ at \in Nat /\ Len(Strata) \in Nat /\ Len(chosen) \in Nat
      /\ phase \in {"sweep", "cap", "wiki", "web", "done"}
  BY StrataAssumption DEF TypeOK
<1>3. CASE Sweep
  <2>1. changed /\ ~changed'
    BY <1>3 DEF Sweep, Again
  <2>2. Stage' = Stage
    BY <1>3 DEF Sweep, Stage
  <2>3. Room' = Room
    BY <1>3 DEF Sweep, Room, Unused
  <2> QED
    BY <1>1, <2>1, <2>2, <2>3, Lowered
<1>4. CASE Take
  <2>1. PICK i \in Unused(chosen) : chosen' = Append(chosen, pool[i])
    BY <1>4 DEF Take, First, Open
  <2>2. pool' = pool /\ phase' = "sweep" /\ phase = "sweep"
    BY <1>4 DEF Take
  <2>3. Stage' = Stage
    BY <2>2 DEF Stage
  <2>4. Room = Cardinality(Unused(chosen)) /\ Room' = Cardinality(Unused(chosen'))
    BY <2>2 DEF Room, Unused
  <2>5. Cardinality(Unused(Append(chosen, pool[i]))) < Cardinality(Unused(chosen))
    BY LessRoom DEF TypeOK
  <2>6. Room' < Room
    BY <2>1, <2>4, <2>5
  <2> QED
    BY <1>1, <2>3, <2>6, Lowered
<1>5. CASE Pass
  <2>1. phase = "sweep" /\ phase' = phase /\ changed' = changed /\ at' = at + 1 /\ at <= Len(Strata)
    BY <1>2, <1>5 DEF Pass, Swept
  <2>2. Stage' = Stage
    BY <2>1 DEF Stage
  <2>3. Room' = Room
    BY <1>5 DEF Pass, Room, Unused
  <2>4. Turns' < Turns
    BY <1>2, <2>1 DEF Turns
  <2> QED
    BY <1>1, <2>1, <2>2, <2>3, <2>4, Lowered
<1>6. CASE EndSweeps
  <2>1. phase = "sweep" /\ phase' \in {"cap", "wiki", "web"}
    BY <1>6 DEF EndSweeps, Batch, Kinds
  <2>2. Stage' < Stage
    BY <2>1 DEF Stage
  <2> QED
    BY <1>1, <2>2, Lowered
<1>7. CASE Cap
  <2>1. /\ phase = "cap" /\ phase' = phase /\ changed' = changed /\ at' = at + 1 /\ at <= Len(chosen)
        /\ chosen' = chosen
    BY <1>7 DEF Cap
  <2>2. Stage' = Stage /\ Room' = Room
    BY <2>1 DEF Stage, Room
  <2>3. Turns' < Turns
    BY <1>2, <2>1 DEF Turns
  <2> QED
    BY <1>1, <2>1, <2>2, <2>3, Lowered
<1>8. CASE CapEnds
  <2>1. Stage' < Stage
    BY <1>8 DEF CapEnds, Stage
  <2> QED
    BY <1>1, <2>1, Lowered
<1>9. CASE TopUp
  <2>1. PICK i \in Unused(Result) : \/ Batch /\ chosen' = Append(chosen, pool[i])
                                    \/ ~Batch /\ final' = Append(final, pool[i])
    BY <1>9 DEF TopUp, First, Wanted
  <2>2. pool' = pool /\ task' = task /\ phase' = phase /\ phase \in Kinds
    BY <1>9 DEF TopUp
  <2>3. Result' = Append(Result, pool[i])
    BY <2>1, <2>2 DEF Result, Batch
  <2>4. Stage' = Stage
    BY <2>2 DEF Stage
  <2>5. Room = Cardinality(Unused(Result)) /\ Room' = Cardinality(Unused(Result'))
    BY <2>2 DEF Room, Unused, Kinds
  <2>6. Result \in Seq(Candidate)
    BY DEF Result, TypeOK
  <2>7. Cardinality(Unused(Append(Result, pool[i]))) < Cardinality(Unused(Result))
    BY <2>6, LessRoom
  <2>8. Room' < Room
    BY <2>3, <2>5, <2>7
  <2> QED
    BY <1>1, <2>4, <2>8, Lowered
<1>10. CASE TopUpEnds
  <2>1. phase \in Kinds /\ phase' = IF ~Batch /\ phase = "wiki" THEN "web" ELSE "done"
    BY <1>10 DEF TopUpEnds
  <2>2. Stage' < Stage
    BY <2>1 DEF Stage, Kinds
  <2> QED
    BY <1>1, <2>2, Lowered
<1> QED
  BY <1>3, <1>4, <1>5, <1>6, <1>7, <1>8, <1>9, <1>10 DEF Next

\* The loops of assign_strata_quotas, pick and select_corpus cannot go on for ever: every
\* iteration lowers a tuple of natural numbers in their lexicographic order, for any pools,
\* strata, quotas and caps, a stratum that can never be filled included.
THEOREM LoopsRunDown ==
  Spec => [](Toil \in Nat \X Nat \X Nat \X Nat) /\ [][Lower(Toil', Toil)]_vars
<1>1. TypeOK => Toil \in Nat \X Nat \X Nat \X Nat
  BY ToilIsNat
<1>2. TypeOK /\ [Next]_vars => [Lower(Toil', Toil)]_vars
  BY ToilFalls DEF Done
<1> QED
  BY <1>1, <1>2, TypeCorrect, PTL DEF Spec
=============================================================================
