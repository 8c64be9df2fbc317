------------------------------ MODULE GoldStrata ------------------------------
(***************************************************************************)
(* How sentences are chosen by their strata: for the corpus                 *)
(* (assign_strata_quotas of ezafe_gold.py inside select_corpus of           *)
(* collect_ezafe_gold.py) and for a labelling batch (pick of                *)
(* sample_stratified_labeling_batch).  Both sweep over the strata that are  *)
(* short of their goal, the list of which is computed once per sweep, and   *)
(* take the first unused candidate of each; one candidate may fill several. *)
(* What the sweeps leave open is filled up in the order of the pool.        *)
(***************************************************************************)
EXTENDS Integers, Sequences, FiniteSets

CONSTANTS
  Strata,     \* STRATA_QUOTAS: its keys, in their order
  Quota,      \* STRATA_QUOTAS: stratum -> sentences wanted in the corpus
  Share,      \* the part of a quota a batch should cover (6)
  Ids,        \* ids of rows; rows of different harvests may share one
  Harvests,   \* what collect_ezafe_gold may have: [wiki : Seq, web : Seq]
  Shuffles,   \* the pools of a batch, each of one kind, in any order
  Caps        \* n_wiki and n_web (n_commercial)

Kinds == {"wiki", "web"}
StrataSet == {Strata[j] : j \in DOMAIN Strata}
Candidate == [id : Ids, kind : Kinds, strata : SUBSET StrataSet]

IdsOf(s) == {s[j].id : j \in DOMAIN s}

OfKind(s, kind) == {j \in DOMAIN s : s[j].kind = kind}

ASSUME StrataAssumption ==
  /\ Strata \in Seq(StrataSet)
  /\ \A i, j \in DOMAIN Strata : Strata[i] = Strata[j] => i = j
  /\ Quota \in [StrataSet -> Nat]
  /\ Share \in Nat \ {0}
  /\ Harvests \subseteq [wiki : Seq(Candidate), web : Seq(Candidate)]
  /\ Shuffles \subseteq Seq(Candidate)
  /\ \A h \in Harvests :
       /\ OfKind(h.wiki, "wiki") = DOMAIN h.wiki /\ OfKind(h.web, "web") = DOMAIN h.web
       /\ IdsOf(h.wiki) \cap IdsOf(h.web) = {}
  /\ Caps \subseteq [Kinds -> Nat]

VARIABLES
  task,       \* "corpus", or the kind of the pool pick() is called with
  cap,        \* n_wiki and n_web
  pool,       \* candidates in the order they are tried
  phase,      \* which loop runs
  need,       \* the strata of the sweep under way
  at,         \* position of its for loop, or of the loop over strata_selected
  changed,    \* whether the sweep has taken anything
  filled,     \* sentences chosen, per stratum
  chosen,     \* selected (strata_selected of select_corpus)
  final       \* the corpus select_corpus builds

vars == <<task, cap, pool, phase, need, at, changed, filled, chosen, final>>

Batch == task \in Kinds

Floor(k) == LET part == Quota[k] \div Share IN IF part > 1 THEN part ELSE 1

Goal(k) == IF Batch THEN Floor(k) ELSE Quota[k]

Short == {k \in StrataSet : filled[k] < Goal(k)}

Held(s, kind) == Cardinality(OfKind(s, kind))

\* Positions of candidates that a list does not hold, by the id.
Unused(s) == {i \in DOMAIN pool : pool[i].id \notin IdsOf(s)}

\* Unused candidates of a stratum.
Open(s, k) == {i \in Unused(s) : k \in pool[i].strata}

First(i, positions) == i \in positions /\ \A j \in positions : i <= j

TypeOK ==
  /\ task \in Kinds \cup {"corpus"}
  /\ cap \in [Kinds -> Nat]
  /\ pool \in Seq(Candidate)
  /\ phase \in {"sweep", "cap", "wiki", "web", "done"}
  /\ need \subseteq StrataSet
  /\ at \in Nat \ {0}
  /\ changed \in BOOLEAN
  /\ filled \in [StrataSet -> Nat]
  /\ chosen \in Seq(Candidate)
  /\ final \in Seq(Candidate)

\* s[:n] of a list that may be shorter
Slice(s, n) == SubSeq(s, 1, IF n < Len(s) THEN n ELSE Len(s))

\* The combined pool of select_corpus: both sources up to their caps, then the rest.
Combined(h, c) ==
  Slice(h.wiki, c["wiki"]) \o Slice(h.web, c["web"])
    \o SubSeq(h.wiki, c["wiki"] + 1, Len(h.wiki)) \o SubSeq(h.web, c["web"] + 1, Len(h.web))

Init ==
  /\ cap \in Caps
  /\ \/ task = "corpus" /\ pool \in {Combined(h, cap) : h \in Harvests}
     \/ task \in Kinds /\ pool \in {s \in Shuffles : OfKind(s, task) = DOMAIN s}
  /\ phase = "sweep"
  /\ need = {}
  /\ at = Len(Strata) + 1
  /\ changed = TRUE
  /\ filled = [k \in StrataSet |-> 0]
  /\ chosen = <<>>
  /\ final = <<>>

(***************************************************************************)
(* The sweeps.                                                              *)
(***************************************************************************)
Swept == at > Len(Strata)

Enough == Batch /\ Len(chosen) >= cap[task]

\* The condition of the while loop, tested between sweeps.
Again == changed /\ (IF Batch THEN ~Enough ELSE Short # {})

\* Mutant: pick() sweeps over all strata from the start.
SweepAll ==
  /\ phase = "sweep" /\ Swept /\ Again
  /\ need' = IF Batch THEN StrataSet ELSE Short
  /\ at' = 1
  /\ changed' = FALSE
  /\ UNCHANGED <<task, cap, pool, phase, filled, chosen, final>>

\* Mutant: changed is not reset.
SweepOn ==
  /\ phase = "sweep" /\ Swept /\ Again
  /\ need' = IF Batch /\ Short = {} THEN StrataSet ELSE Short
  /\ at' = 1
  /\ UNCHANGED <<task, cap, pool, phase, changed, filled, chosen, final>>

\* need() is computed once per sweep; pick() goes on with all strata after the floors.
Sweep ==
  /\ phase = "sweep" /\ Swept /\ Again
  /\ need' = IF Batch /\ Short = {} THEN StrataSet ELSE Short
  /\ at' = 1
  /\ changed' = FALSE
  /\ UNCHANGED <<task, cap, pool, phase, filled, chosen, final>>

\* The first unused candidate of the stratum; pick() leaves the sweep when it has n.
Take ==
  /\ phase = "sweep" /\ ~Swept /\ Strata[at] \in need
  /\ \E i \in DOMAIN pool :
       /\ First(i, Open(chosen, Strata[at]))
       /\ chosen' = Append(chosen, pool[i])
       /\ filled' = [k \in StrataSet |-> IF k \in pool[i].strata THEN filled[k] + 1 ELSE filled[k]]
  /\ changed' = TRUE
  /\ at' = IF Batch /\ Len(chosen') >= cap[task] THEN Len(Strata) + 1 ELSE at + 1
  /\ UNCHANGED <<task, cap, pool, phase, need, final>>

\* Mutant: a stratum without candidates says that nothing has changed.
PassResetting ==
  /\ phase = "sweep" /\ ~Swept
  /\ Strata[at] \in need => Open(chosen, Strata[at]) = {}
  /\ changed' = FALSE
  /\ at' = at + 1
  /\ UNCHANGED <<task, cap, pool, phase, need, filled, chosen, final>>

\* A stratum that is not needed, or has no unused candidate.
Pass ==
  /\ phase = "sweep" /\ ~Swept
  /\ Strata[at] \in need => Open(chosen, Strata[at]) = {}
  /\ at' = at + 1
  /\ UNCHANGED <<task, cap, pool, phase, need, changed, filled, chosen, final>>

\* Mutant: the corpus is treated as a batch.
EndSweepsUncapped ==
  /\ phase = "sweep" /\ Swept /\ ~Again
  /\ phase' = task
  /\ at' = 1
  /\ UNCHANGED <<task, cap, pool, need, changed, filled, chosen, final>>

EndSweeps ==
  /\ phase = "sweep" /\ Swept /\ ~Again
  /\ phase' = IF Batch THEN task ELSE "cap"
  /\ at' = 1
  /\ UNCHANGED <<task, cap, pool, need, changed, filled, chosen, final>>

(***************************************************************************)
(* Filling up.                                                              *)
(***************************************************************************)

\* Mutant: only the cap of Wikipedia is respected.
CapWiki ==
  /\ phase = "cap" /\ at <= Len(chosen)
  /\ final' = IF chosen[at].kind = "wiki" /\ Held(final, "wiki") >= cap["wiki"]
              THEN final ELSE Append(final, chosen[at])
  /\ at' = at + 1
  /\ UNCHANGED <<task, cap, pool, phase, need, changed, filled, chosen>>

\* select_corpus takes what the strata selected, up to the cap of its kind.
Cap ==
  /\ phase = "cap" /\ at <= Len(chosen)
  /\ final' = IF Held(final, chosen[at].kind) >= cap[chosen[at].kind]
              THEN final ELSE Append(final, chosen[at])
  /\ at' = at + 1
  /\ UNCHANGED <<task, cap, pool, phase, need, changed, filled, chosen>>

CapEnds ==
  /\ phase = "cap" /\ at > Len(chosen)
  /\ phase' = "wiki"
  /\ UNCHANGED <<task, cap, pool, need, at, changed, filled, chosen, final>>

\* What the loops build: final of select_corpus, selected of pick().
Result == IF Batch THEN chosen ELSE final

Wanted(kind) ==
  IF Held(Result, kind) < cap[kind] THEN {i \in Unused(Result) : pool[i].kind = kind} ELSE {}

\* top_up for the kind of the phase, and the last loop of pick().
TopUp ==
  /\ phase \in Kinds
  /\ \E i \in DOMAIN pool :
       /\ First(i, Wanted(phase))
       /\ \/ Batch /\ chosen' = Append(chosen, pool[i]) /\ UNCHANGED final
          \/ ~Batch /\ final' = Append(final, pool[i]) /\ UNCHANGED chosen
  /\ UNCHANGED <<task, cap, pool, phase, need, at, changed, filled>>

TopUpEnds ==
  /\ phase \in Kinds /\ Wanted(phase) = {}
  /\ phase' = IF ~Batch /\ phase = "wiki" THEN "web" ELSE "done"
  /\ UNCHANGED <<task, cap, pool, need, at, changed, filled, chosen, final>>

Done == phase = "done" /\ UNCHANGED vars

Next ==
  \/ Sweep \/ Take \/ Pass \/ EndSweeps
  \/ Cap \/ CapEnds \/ TopUp \/ TopUpEnds
  \/ Done

Spec == Init /\ [][Next]_vars

\* The functions are sequential code that nothing holds up.
FairSpec == Spec /\ WF_vars(Next)

(***************************************************************************)
(* Properties.                                                              *)
(***************************************************************************)
Covering(s, k) == Cardinality({j \in DOMAIN s : k \in s[j].strata})

\* The greedy sweeps leave no stratum short for which the pool has a candidate whose
\* id is not taken: the shortfalls assign_strata_quotas reports are those of the pool,
\* and a batch stops short of a floor only when it is full.
ShortMeansExhausted ==
  phase # "sweep" =>
    \/ Enough
    \/ \A k \in StrataSet : Covering(chosen, k) >= Goal(k) \/ Open(chosen, k) = {}

\* A place for every sentence the floors ask for: there are as many as the floors add up to.
FloorPlaces == UNION {{k} \X (1..Floor(k)) : k \in StrataSet}

\* A batch as large as the floors together reaches every floor, and one as large as
\* there are strata covers each, wherever the pool has the candidates: neither the
\* stale list of needed strata nor candidates of several strata use up the places.
BatchCoversStrata ==
  Batch /\ phase = "done" =>
    \A k \in StrataSet : Open(chosen, k) # {} =>
      /\ cap[task] >= Cardinality(FloorPlaces) => Covering(chosen, k) >= Floor(k)
      /\ cap[task] >= Len(Strata) => Covering(chosen, k) >= 1

\* Of each kind the result has as many sentences as asked for, or all there are; no
\* id is in it twice, although rows of the pool may share one.
SizeAsAsked ==
  phase = "done" =>
    /\ Cardinality(IdsOf(Result)) = Len(Result)
    /\ \A kind \in (IF Batch THEN {task} ELSE Kinds) :
         LET there == Cardinality({pool[i].id : i \in OfKind(pool, kind)})
         IN  Held(Result, kind) = IF there < cap[kind] THEN there ELSE cap[kind]

\* The loops end.
Terminates == <>(phase = "done")
=============================================================================
