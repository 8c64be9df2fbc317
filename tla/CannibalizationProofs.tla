------------------------ MODULE CannibalizationProofs ------------------------
(***************************************************************************)
(* What detect_keyword_cannibalization says of a site, for any pages, in any  *)
(* number and any order, and what becomes of its advice.                      *)
(***************************************************************************)
EXTENDS Cannibalization, ListProofs

-----------------------------------------------------------------------------
(***************************************************************************)
(* The keys of pages.                                                       *)
(***************************************************************************)
LEMMA RolesRank ==
  ASSUME NEW role
  PROVE  _ROLE_RANK[_normalize_role(role)] \in Int
BY DEF _ROLE_RANK, _normalize_role

LEMMA PageNumbers ==
  ASSUME NEW p \in PageTarget
  PROVE  p.title_h1 \in Int /\ p.links \in Int /\ p.words \in Int /\ p.page_id \in Int
<1>1. p.title_h1 \in Matches /\ p.links \in Links /\ p.words \in Words /\ p.page_id \in PageIds
  BY DEF PageTarget
<1>2. \A n \in 0..2 : n \in Int
  OBVIOUS
<1>3. \A n \in Nat : n \in Int
  OBVIOUS
<1> QED
  BY <1>1, <1>2, <1>3, CannibalizationAssumption, Zenon

LEMMA SignalKeys ==
  ASSUME NEW p \in PageTarget
  PROVE  /\ _signal_key(p) \in Seq(Int) /\ Len(_signal_key(p)) = 5
         /\ _signal_key(p) \in Tuples(5)
         /\ _signal_key(p)[5] = p.page_id
<1> DEFINE rank == _ROLE_RANK[_normalize_role(p.role)]
<1>1. p.title_h1 \in Int /\ p.links \in Int /\ p.words \in Int /\ p.page_id \in Int
  BY PageNumbers
<1>2. rank \in Int
  BY RolesRank
<1>3. _signal_key(p) = <<p.title_h1, rank, p.links, p.words, p.page_id>>
  BY DEF _signal_key
<1> HIDE DEF rank
<1> DEFINE t == <<p.title_h1, rank, p.links, p.words, p.page_id>>
<1>4. t \in Seq(Int) /\ Len(t) = 5 /\ t \in Tuples(5) /\ t[5] = p.page_id
  BY <1>1, <1>2, FiveNumbers, Zenon
<1> QED
  BY <1>3, <1>4, Zenon

LEMMA PriorityKeys ==
  ASSUME NEW p \in PageTarget
  PROVE  /\ _priority_key(p) \in Int /\ _priority_key(p) >= MissingPriority
         /\ _priority_key(p) > MissingPriority => p.priority # None
<1>1. p.priority = None \/ p.priority \in Priorities
  BY DEF PageTarget
<1> QED
  BY <1>1, CannibalizationAssumption DEF _priority_key, MissingPriority

LEMMA FullKeys ==
  ASSUME NEW p \in PageTarget
  PROVE  /\ _full_key(p) \in Tuples(6) /\ _full_key(p)[1] = _priority_key(p)
         /\ \A i \in 1..5 : _full_key(p)[i + 1] = _signal_key(p)[i]
<1> DEFINE a == _priority_key(p)
           b == _signal_key(p)
<1>1. a \in Int
  BY PriorityKeys
<1>2. b \in Seq(Int) /\ Len(b) = 5
  BY SignalKeys
<1>3. _full_key(p) = <<a>> \o b
  BY DEF _full_key
<1> HIDE DEF a, b
<1> DEFINE k == <<a>> \o b
<1>4. k \in Seq(Int) /\ Len(k) = Len(b) + 1 /\ k[1] = a /\ \A i \in 1..Len(b) : k[i + 1] = b[i]
  BY <1>1, <1>2, NumberBefore, Zenon
<1> HIDE DEF k
<1>5. k \in Seq(Int) /\ Len(k) = 6 /\ k[1] = a /\ \A i \in 1..5 : k[i + 1] = b[i]
  BY <1>2, <1>4
<1>6. k \in Tuples(6)
  BY <1>5, SeqIsTuple
<1> QED
  BY <1>3, <1>5, <1>6, Zenon DEF a, b, k

\* The priority is compared first, then the signals.
LEMMA PriorityThenSignals ==
  ASSUME NEW p \in PageTarget, NEW q \in PageTarget, Above(_full_key(p), _full_key(q))
  PROVE  \/ _priority_key(p) > _priority_key(q)
         \/ _priority_key(p) = _priority_key(q) /\ Above(_signal_key(p), _signal_key(q))
<1> DEFINE a == _full_key(p)
           b == _full_key(q)
           c == _signal_key(p)
           d == _signal_key(q)
<1>1. /\ a \in Tuples(6) /\ b \in Tuples(6) /\ c \in Tuples(5) /\ d \in Tuples(5)
      /\ a[1] = _priority_key(p) /\ b[1] = _priority_key(q)
      /\ \A i \in 1..5 : a[i + 1] = c[i] /\ b[i + 1] = d[i]
  BY FullKeys, SignalKeys
<1>2. PICK i \in DOMAIN a : a[i] > b[i] /\ \A j \in 1..i - 1 : a[j] = b[j]
  BY DEF Above
<1> HIDE DEF a, b, c, d
<1>3. i \in 1..6 /\ DOMAIN c = 1..5
  BY <1>1, <1>2 DEF Tuples
<1>4. CASE i = 1
  BY <1>1, <1>2, <1>4
<1>5. CASE i # 1
  <2>1. i - 1 \in 1..5 /\ i = (i - 1) + 1 /\ 1 \in 1..i - 1
    BY <1>3, <1>5
  <2>2. c[i - 1] > d[i - 1] /\ a[1] = b[1]
    BY <1>1, <1>2, <2>1
  <2>3. ASSUME NEW j \in 1..(i - 1) - 1 PROVE c[j] = d[j]
    <3>1. j \in 1..5 /\ j + 1 \in 1..i - 1
      BY <1>3, <2>1
    <3> QED
      BY <1>1, <1>2, <3>1
  <2>4. Above(c, d)
    BY <1>3, <2>1, <2>2, <2>3 DEF Above
  <2> QED
    BY <1>1, <2>2, <2>4 DEF c, d
<1> QED
  BY <1>4, <1>5

\* Pages that differ in their id differ in their keys.
LEMMA KeysDiffer ==
  ASSUME NEW p \in PageTarget, NEW q \in PageTarget, p.page_id # q.page_id
  PROVE  _full_key(p) # _full_key(q) /\ _signal_key(p) # _signal_key(q)
<1>1. _signal_key(p)[5] # _signal_key(q)[5]
  BY SignalKeys
<1>2. 5 \in 1..5
  OBVIOUS
<1>3. _full_key(p)[5 + 1] # _full_key(q)[5 + 1]
  BY <1>1, <1>2, FullKeys, Zenon
<1> QED
  BY <1>1, <1>3, Zenon

-----------------------------------------------------------------------------
(***************************************************************************)
(* Winners.                                                                 *)
(***************************************************************************)
IdsDiffer(ps) == \A i, j \in DOMAIN ps : ps[i].page_id = ps[j].page_id => i = j

\* A page beats all others of a set; it beats them in the signals alone.
Wins(w, G) == w \in G /\ \A p \in G \ {w} : Above(_full_key(w), _full_key(p))
Shines(w, G) == w \in G /\ \A p \in G \ {w} : Above(_signal_key(w), _signal_key(p))

LEMMA OneWinner ==
  ASSUME NEW G, G \subseteq PageTarget, NEW w, NEW v
  PROVE  /\ Wins(w, G) /\ Wins(v, G) => w = v
         /\ Shines(w, G) /\ Shines(v, G) => w = v
<1>1. ASSUME Wins(w, G), Wins(v, G), w # v PROVE FALSE
  <2>1. Above(_full_key(w), _full_key(v)) /\ Above(_full_key(v), _full_key(w))
    BY <1>1 DEF Wins
  <2>2. _full_key(w) \in Tuples(6) /\ _full_key(v) \in Tuples(6)
    BY <1>1, FullKeys DEF Wins
  <2> QED
    BY <2>1, <2>2, AboveIsAsymmetric
<1>2. ASSUME Shines(w, G), Shines(v, G), w # v PROVE FALSE
  <2>1. Above(_signal_key(w), _signal_key(v)) /\ Above(_signal_key(v), _signal_key(w))
    BY <1>2 DEF Shines
  <2>2. _signal_key(w) \in Tuples(5) /\ _signal_key(v) \in Tuples(5)
    BY <1>2, SignalKeys DEF Shines
  <2> QED
    BY <2>1, <2>2, AboveIsAsymmetric
<1> QED
  BY <1>1, <1>2

LEMMA Winner ==
  ASSUME NEW group \in Seq(PageTarget), Len(group) > 0, IdsDiffer(group)
  PROVE  /\ Wins(_pick_winner(group), ToSet(group))
         /\ Wins(FirstMax(group, _full_key), ToSet(group))
         /\ Shines(_pick_signal_winner(group), ToSet(group))
<1>1. DOMAIN group = 1..Len(group) /\ Len(group) \in Nat /\ \A i \in DOMAIN group : group[i] \in PageTarget
  OBVIOUS
<1>2. \A i, j \in DOMAIN group : i # j => group[i].page_id # group[j].page_id
  BY DEF IdsDiffer
<1>3. Wins(FirstMax(group, _full_key), ToSet(group))
  <2> DEFINE keys == [i \in DOMAIN group |-> _full_key(group[i])]
             g == FirstGreatest(keys)
  <2>1. keys \in Seq(Tuples(6)) /\ Len(keys) > 0 /\ DOMAIN keys = DOMAIN group
    <3>1. \A i \in 1..Len(group) : _full_key(group[i]) \in Tuples(6)
      BY <1>1, FullKeys
    <3> QED
      BY <1>1, <3>1
  <2>2. Distinct(keys)
    BY <1>1, <1>2, KeysDiffer DEF Distinct
  <2> HIDE DEF keys
  <2>3. g \in DOMAIN keys /\ \A j \in DOMAIN keys \ {g} : Above(keys[g], keys[j])
    BY <2>1, <2>2, GreatestOfList
  <2>4. FirstMax(group, _full_key) = group[g]
    BY DEF FirstMax, keys
  <2> HIDE DEF g
  <2>5. g \in DOMAIN group /\ \A j \in DOMAIN group \ {g} : Above(_full_key(group[g]), _full_key(group[j]))
    BY <2>1, <2>3 DEF keys
  <2> QED
    BY <2>4, <2>5 DEF Wins, ToSet
<1>4. Shines(_pick_signal_winner(group), ToSet(group))
  <2> DEFINE keys == [i \in DOMAIN group |-> _signal_key(group[i])]
             g == FirstGreatest(keys)
  <2>1. keys \in Seq(Tuples(5)) /\ Len(keys) > 0 /\ DOMAIN keys = DOMAIN group
    <3>1. \A i \in 1..Len(group) : _signal_key(group[i]) \in Tuples(5)
      BY <1>1, SignalKeys
    <3> QED
      BY <1>1, <3>1
  <2>2. Distinct(keys)
    BY <1>1, <1>2, KeysDiffer DEF Distinct
  <2> HIDE DEF keys
  <2>3. g \in DOMAIN keys /\ \A j \in DOMAIN keys \ {g} : Above(keys[g], keys[j])
    BY <2>1, <2>2, GreatestOfList
  <2>4. _pick_signal_winner(group) = group[g]
    BY DEF _pick_signal_winner, FirstMax, keys
  <2> HIDE DEF g
  <2>5. g \in DOMAIN group /\ \A j \in DOMAIN group \ {g} : Above(_signal_key(group[g]), _signal_key(group[j]))
    BY <2>1, <2>3 DEF keys
  <2> QED
    BY <2>4, <2>5 DEF Shines, ToSet
<1> QED
  BY <1>3, <1>4 DEF _pick_winner

-----------------------------------------------------------------------------
(***************************************************************************)
(* Groups of pages.                                                         *)
(***************************************************************************)
Listed(ps) == ps \in Seq(PageTarget) /\ IdsDiffer(ps)

LEMMA KeptPages ==
  ASSUME NEW ps, Listed(ps), NEW P, P \subseteq DOMAIN ps
  PROVE  /\ Listed(Kept(ps, P)) /\ ToSet(Kept(ps, P)) = {ps[i] : i \in P}
         /\ Len(Kept(ps, P)) = Cardinality(P)
<1>1. ps \in Seq(PageTarget)
  BY DEF Listed
<1>2. /\ Kept(ps, P) \in Seq(PageTarget)
      /\ \E at \in [DOMAIN Kept(ps, P) -> P] :
           /\ \A k \in DOMAIN Kept(ps, P) : Kept(ps, P)[k] = ps[at[k]]
           /\ \A k, l \in DOMAIN Kept(ps, P) : at[k] = at[l] => k = l
  BY <1>1, KeptFrom
<1>3. PICK at \in [DOMAIN Kept(ps, P) -> P] :
        /\ \A k \in DOMAIN Kept(ps, P) : Kept(ps, P)[k] = ps[at[k]]
        /\ \A k, l \in DOMAIN Kept(ps, P) : at[k] = at[l] => k = l
  BY <1>2
<1>4. IdsDiffer(Kept(ps, P))
  BY <1>3 DEF IdsDiffer, Listed
<1>5. ToSet(Kept(ps, P)) = {ps[i] : i \in P} /\ Len(Kept(ps, P)) = Cardinality(P)
  BY <1>1, KeptAll
<1> QED
  BY <1>2, <1>4, <1>5 DEF Listed

LEMMA ListedPages ==
  ASSUME NEW ps, Listed(ps)
  PROVE  /\ ToSet(ps) \subseteq PageTarget
         /\ \A p, q \in ToSet(ps) : p.page_id = q.page_id => p = q
         /\ DOMAIN ps = 1..Len(ps) /\ Len(ps) \in Nat
BY DEF Listed, IdsDiffer, ToSet

LEMMA WithoutPages ==
  ASSUME NEW ps, Listed(ps), NEW id
  PROVE  Listed(Without(ps, id)) /\ ToSet(Without(ps, id)) = {p \in ToSet(ps) : p.page_id # id}
<1> DEFINE P == {i \in DOMAIN ps : ps[i].page_id # id}
<1>1. {ps[i] : i \in P} = {p \in ToSet(ps) : p.page_id # id}
  BY DEF ToSet
<1>2. P \subseteq DOMAIN ps /\ Without(ps, id) = Kept(ps, P)
  BY DEF Without
<1> HIDE DEF P
<1> QED
  BY <1>1, <1>2, KeptPages

LEMMA GroupPages ==
  ASSUME NEW ps, Listed(ps), NEW fp
  PROVE  Listed(Group(ps, fp)) /\ ToSet(Group(ps, fp)) = Members(ps, fp)
<1> DEFINE P == {i \in DOMAIN ps : ps[i].keyword # None /\ Fingerprint[ps[i].keyword] = fp}
<1>1. {ps[i] : i \in P} = Members(ps, fp)
  BY DEF ToSet, Members
<1>2. P \subseteq DOMAIN ps /\ Group(ps, fp) = Kept(ps, P)
  BY DEF Group
<1> HIDE DEF P
<1> QED
  BY <1>1, <1>2, KeptPages

\* A list is longer than one when it has two pages.
LEMMA Several ==
  ASSUME NEW ps, Listed(ps)
  PROVE  /\ Len(ps) > 1 <=> \E p, q \in ToSet(ps) : p # q
         /\ Len(ps) > 0 <=> ToSet(ps) # {}
<1>1. DOMAIN ps = 1..Len(ps) /\ Len(ps) \in Nat
  BY ListedPages
<1>2. ASSUME Len(ps) > 1 PROVE \E p, q \in ToSet(ps) : p # q
  <2>1. 1 \in DOMAIN ps /\ 2 \in DOMAIN ps
    BY <1>1, <1>2
  <2>2. ps[1] # ps[2]
    BY <2>1 DEF Listed, IdsDiffer
  <2> QED
    BY <2>1, <2>2 DEF ToSet
<1>3. ASSUME NEW p \in ToSet(ps), NEW q \in ToSet(ps), p # q PROVE Len(ps) > 1
  <2>1. PICK i \in DOMAIN ps : ps[i] = p
    BY DEF ToSet
  <2>2. PICK j \in DOMAIN ps : ps[j] = q
    BY DEF ToSet
  <2>3. i # j
    BY <1>3, <2>1, <2>2
  <2> QED
    BY <1>1, <2>3
<1>4. Len(ps) > 0 => 1 \in DOMAIN ps
  BY <1>1
<1>5. ToSet(ps) # {} => Len(ps) > 0
  BY <1>1 DEF ToSet
<1> QED
  BY <1>2, <1>3, <1>4, <1>5 DEF ToSet

\* The pages that are not the winner, and the best of them.
LEMMA RunnerUp ==
  ASSUME NEW group, Listed(group), Len(group) > 1
  PROVE  LET w == _pick_winner(group)
             others == Without(group, w.page_id)
         IN  /\ Wins(w, ToSet(group))
             /\ Listed(others) /\ Len(others) > 0 /\ ToSet(others) = ToSet(group) \ {w}
             /\ Wins(FirstMax(others, _full_key), ToSet(group) \ {w})
<1> DEFINE w == _pick_winner(group)
           others == Without(group, w.page_id)
<1>1. Len(group) > 0
  BY ListedPages
<1>2. Wins(w, ToSet(group))
  BY <1>1, Winner DEF Listed
<1> HIDE DEF w
<1>3. w \in ToSet(group)
  BY <1>2 DEF Wins
<1>4. Listed(others) /\ ToSet(others) = ToSet(group) \ {w}
  <2>1. \A p \in ToSet(group) : p.page_id = w.page_id => p = w
    BY <1>3, ListedPages
  <2> QED
    BY <2>1, WithoutPages
<1>5. Len(others) > 0
  <2>1. PICK p, q \in ToSet(group) : p # q
    BY Several
  <2>2. ToSet(others) # {}
    BY <1>4, <2>1
  <2> QED
    BY <1>4, <2>2, Several
<1> HIDE DEF others
<1>6. Wins(FirstMax(others, _full_key), ToSet(others))
  BY <1>4, <1>5, Winner DEF Listed
<1> QED
  BY <1>2, <1>4, <1>5, <1>6 DEF w, others

LEMMA Names ==
  /\ DOMAIN _CRITERION_NAMES = 1..6 /\ Len(_CRITERION_NAMES) = 6
  /\ \A i, j \in 1..6 : _CRITERION_NAMES[i] = _CRITERION_NAMES[j] => i = j
<1>1. DOMAIN _CRITERION_NAMES = 1..6 /\ Len(_CRITERION_NAMES) = 6
  BY DEF _CRITERION_NAMES
<1>2. /\ _CRITERION_NAMES[1] = "priority" /\ _CRITERION_NAMES[2] = "title_h1_match"
      /\ _CRITERION_NAMES[3] = "page_role" /\ _CRITERION_NAMES[4] = "internal_links"
      /\ _CRITERION_NAMES[5] = "word_count" /\ _CRITERION_NAMES[6] = "page_id_tiebreak"
  BY DEF _CRITERION_NAMES
<1>3. \A i \in 1..6 : i = 1 \/ i = 2 \/ i = 3 \/ i = 4 \/ i = 5 \/ i = 6
  OBVIOUS
<1> HIDE DEF _CRITERION_NAMES
<1>4. \A i, j \in 1..6 : _CRITERION_NAMES[i] = _CRITERION_NAMES[j] => i = j
  BY <1>2, <1>3
<1> QED
  BY <1>1, <1>4

-----------------------------------------------------------------------------
(***************************************************************************)
(* What is said of a group.                                                 *)
(***************************************************************************)

\* The criterion named parts the winner from the others.
LEMMA GroupReason ==
  ASSUME NEW group, Listed(group), Len(group) > 1
  PROVE  LET w == _pick_winner(group)
         IN  /\ IsReason(_CRITERION_NAMES, _decided_by(w, group), _full_key(w),
                         {_full_key(p) : p \in ToSet(group) \ {w}})
             /\ _decided_by(w, group) \in Range(_CRITERION_NAMES)
<1> DEFINE w == _pick_winner(group)
           others == Without(group, w.page_id)
           s == FirstMax(others, _full_key)
           rivals == {_full_key(p) : p \in ToSet(group) \ {w}}
<1>1. /\ Wins(w, ToSet(group))
      /\ Wins(s, ToSet(group) \ {w})
  BY RunnerUp
<1>2. _decided_by(w, group) = PartedBy(_CRITERION_NAMES, _full_key(w), _full_key(s))
  BY DEF _decided_by
<1>3. ToSet(group) \subseteq PageTarget
  BY ListedPages
<1> HIDE DEF w, s
<1>4. w \in PageTarget /\ s \in ToSet(group) \ {w} /\ s \in PageTarget
  BY <1>1, <1>3 DEF Wins
<1>5. _full_key(w) \in Tuples(6) /\ rivals \subseteq Tuples(6) /\ _full_key(s) \in rivals
  BY <1>3, <1>4, FullKeys
<1>6. Above(_full_key(w), _full_key(s))
  BY <1>1, <1>4 DEF Wins
<1>7. ASSUME NEW r \in rivals PROVE ~Above(r, _full_key(s)) /\ ~Above(r, _full_key(w)) /\ r # _full_key(w)
  <2>1. PICK p \in ToSet(group) \ {w} : r = _full_key(p)
    OBVIOUS
  <2>2. r \in Tuples(6) /\ _full_key(s) \in Tuples(6)
    BY <1>5
  <2>3. Above(_full_key(w), r)
    BY <1>1, <2>1 DEF Wins
  <2>4. p # s => Above(_full_key(s), r)
    BY <1>1, <2>1 DEF Wins
  <2>5. ~Above(r, _full_key(w)) /\ r # _full_key(w)
    BY <1>5, <2>2, <2>3, AboveIsAsymmetric
  <2>6. CASE p = s
    <3>1. r = _full_key(s)
      BY <2>1, <2>6
    <3> QED
      BY <2>2, <2>5, <3>1, AboveIsAsymmetric
  <2>7. CASE p # s
    BY <2>2, <2>4, <2>5, <2>7, AboveIsAsymmetric
  <2> QED
    BY <2>6, <2>7
<1> HIDE DEF rivals
<1>8. IsReason(_CRITERION_NAMES, PartedBy(_CRITERION_NAMES, _full_key(w), _full_key(s)), _full_key(w), rivals)
  BY <1>5, <1>6, <1>7, Names, PartedByIsTheReason
<1>9. PartedBy(_CRITERION_NAMES, _full_key(w), _full_key(s)) \in Range(_CRITERION_NAMES)
  <2>1. 6 \in Nat \ {0} /\ _full_key(s) \in Tuples(6)
    BY <1>5
  <2> QED
    BY <1>5, <2>1, Names, PartedByIsAName, Zenon
<1> QED
  BY <1>2, <1>8, <1>9 DEF w, rivals

\* It does not depend on the order of the group.
LEMMA ClusterOfSet ==
  ASSUME NEW g, NEW h, Listed(g), Listed(h), Len(g) > 1, Len(h) > 1, ToSet(g) = ToSet(h)
  PROVE  Cluster(g) = Cluster(h)
<1> DEFINE w == _pick_winner(g)
           v == _pick_winner(h)
           s == FirstMax(Without(g, w.page_id), _full_key)
           t == FirstMax(Without(h, v.page_id), _full_key)
<1>1. Wins(w, ToSet(g)) /\ Wins(s, ToSet(g) \ {w})
  BY RunnerUp
<1>2. Wins(v, ToSet(h)) /\ Wins(t, ToSet(h) \ {v})
  BY RunnerUp
<1>3. ToSet(g) \subseteq PageTarget
  BY ListedPages
<1>4. _decided_by(w, g) = PartedBy(_CRITERION_NAMES, _full_key(w), _full_key(s))
      /\ _decided_by(v, h) = PartedBy(_CRITERION_NAMES, _full_key(v), _full_key(t))
  BY DEF _decided_by
<1>5. Len(g) > 0 /\ Len(h) > 0
  BY ListedPages
<1>6. Shines(_pick_signal_winner(g), ToSet(g)) /\ Shines(_pick_signal_winner(h), ToSet(h))
  BY <1>5, Winner DEF Listed
<1>7. _pick_signal_winner(g) = _pick_signal_winner(h)
  BY <1>3, <1>6, OneWinner
<1>8. Cluster(g) = [keyword |-> w.keyword, decided_by |-> _decided_by(w, g), winner |-> w.page_id,
                    pages |-> Decisions(g, w), conflict |-> Conflict(w, _pick_signal_winner(g))]
      /\ Cluster(h) = [keyword |-> v.keyword, decided_by |-> _decided_by(v, h), winner |-> v.page_id,
                    pages |-> Decisions(h, v), conflict |-> Conflict(v, _pick_signal_winner(h))]
  BY DEF Cluster
<1> HIDE DEF w, v, s, t
<1>9. w = v
  BY <1>1, <1>2, <1>3, OneWinner
<1>10. s = t
  <2>1. ToSet(g) \ {w} \subseteq PageTarget
    BY <1>3
  <2> QED
    BY <1>1, <1>2, <1>9, <2>1, OneWinner
<1>11. Decisions(g, w) = Decisions(h, v)
  BY <1>9 DEF Decisions
<1> QED
  BY <1>4, <1>7, <1>8, <1>9, <1>10, <1>11

LEMMA GroupFacts ==
  ASSUME NEW ps, Listed(ps), NEW fp \in Colliding(ps)
  PROVE  /\ Listed(Group(ps, fp)) /\ Len(Group(ps, fp)) > 1
         /\ ToSet(Group(ps, fp)) = Members(ps, fp) /\ Members(ps, fp) \subseteq ToSet(ps)
         /\ Members(ps, fp) \subseteq PageTarget
         /\ Wins(_pick_winner(Group(ps, fp)), Members(ps, fp))
         /\ _pick_winner(Group(ps, fp)) \in Members(ps, fp)
         /\ Cluster(Group(ps, fp)).winner = _pick_winner(Group(ps, fp)).page_id
         /\ Cluster(Group(ps, fp)).pages = Decisions(Group(ps, fp), _pick_winner(Group(ps, fp)))
<1> DEFINE g == Group(ps, fp)
<1>1. Listed(g) /\ ToSet(g) = Members(ps, fp)
  BY GroupPages
<1>2. Len(g) > 1
  BY DEF Colliding
<1> HIDE DEF g
<1>3. Wins(_pick_winner(g), ToSet(g))
  BY <1>1, <1>2, RunnerUp
<1>4. Members(ps, fp) \subseteq ToSet(ps)
  BY DEF Members
<1>5. Cluster(g).winner = _pick_winner(g).page_id /\ Cluster(g).pages = Decisions(g, _pick_winner(g))
  BY DEF Cluster
<1>6. ToSet(ps) \subseteq PageTarget
  BY ListedPages
<1> QED
  BY <1>1, <1>2, <1>3, <1>4, <1>5, <1>6 DEF Wins, g

\* The page that a cluster names as winner.
LEMMA WinnerByItsId ==
  ASSUME NEW ps, Listed(ps), NEW fp \in Colliding(ps)
  PROVE  (CHOOSE p \in Members(ps, fp) : p.page_id = Cluster(Group(ps, fp)).winner)
           = _pick_winner(Group(ps, fp))
<1> DEFINE w == _pick_winner(Group(ps, fp))
<1>1. w \in Members(ps, fp) /\ Cluster(Group(ps, fp)).winner = w.page_id
  BY GroupFacts
<1> HIDE DEF w
<1>2. \A p \in Members(ps, fp) : p.page_id = w.page_id => p = w
  BY <1>1, GroupFacts, ListedPages
<1> QED
  BY <1>1, <1>2 DEF w

\* A group collides when two pages are in it.
LEMMA CollidingPages ==
  ASSUME NEW ps, Listed(ps), NEW fp
  PROVE  fp \in Colliding(ps) <=> fp \in Range(Fingerprint) /\ \E p, q \in Members(ps, fp) : p # q
<1> DEFINE g == Group(ps, fp)
<1>1. Listed(g) /\ ToSet(g) = Members(ps, fp)
  BY GroupPages
<1>2. fp \in Colliding(ps) <=> fp \in Range(Fingerprint) /\ Len(g) > 1
  BY DEF Colliding
<1> HIDE DEF g
<1> QED
  BY <1>1, <1>2, Several

\* Whoever loses is told what _loser_action says, the winner is told to stay.
LEMMA DecisionsOf ==
  ASSUME NEW g, NEW w, NEW d \in Decisions(g, w)
  PROVE  \E p \in ToSet(g) : /\ d.page_id = p.page_id /\ d.action \in _ACTIONS
                             /\ p.page_id = w.page_id => d.action = "keep"
<1>1. PICK p \in ToSet(g) :
        d = IF p.page_id = w.page_id THEN Decision(p, "keep", None)
            ELSE LET action == _loser_action(p, w)
                 IN  Decision(p, action, IF action = "consolidate_into" THEN w.page_id ELSE None)
  BY DEF Decisions
<1>2. _loser_action(p, w) \in _ACTIONS
  BY DEF _loser_action, _ACTIONS
<1>3. CASE p.page_id = w.page_id
  BY <1>1, <1>3 DEF Decision, _ACTIONS
<1>4. CASE p.page_id # w.page_id
  BY <1>1, <1>2, <1>4 DEF Decision
<1> QED
  BY <1>3, <1>4

LEMMA ResultTyped ==
  ASSUME NEW ps, Listed(ps), NEW fp \in Colliding(ps)
  PROVE  LET c == Cluster(Group(ps, fp)) IN
           /\ c.decided_by \in Range(_CRITERION_NAMES) /\ c.conflict \in BOOLEAN
           /\ c.winner \in PageIds
           /\ \A d \in c.pages : d.page_id \in PageIds /\ d.action \in _ACTIONS
<1> DEFINE g == Group(ps, fp)
           w == _pick_winner(g)
<1>1. /\ Listed(g) /\ Len(g) > 1 /\ ToSet(g) \subseteq PageTarget /\ w \in ToSet(g)
      /\ Cluster(g).winner = w.page_id /\ Cluster(g).pages = Decisions(g, w)
  BY GroupFacts
<1>2. Cluster(g).decided_by = _decided_by(w, g) /\ Cluster(g).conflict = Conflict(w, _pick_signal_winner(g))
  BY DEF Cluster
<1> HIDE DEF g
<1>3. _decided_by(w, g) \in Range(_CRITERION_NAMES)
  BY <1>1, GroupReason
<1> HIDE DEF w
<1>4. Conflict(w, _pick_signal_winner(g)) \in BOOLEAN
  BY DEF Conflict
<1>5. \A p \in PageTarget : p.page_id \in PageIds
  BY DEF PageTarget
<1>6. \A d \in Decisions(g, w) : d.page_id \in PageIds /\ d.action \in _ACTIONS
  BY <1>1, <1>5, DecisionsOf
<1>7. w.page_id \in PageIds
  BY <1>1, <1>5
<1>8. /\ Cluster(g).decided_by \in Range(_CRITERION_NAMES) /\ Cluster(g).conflict \in BOOLEAN
      /\ Cluster(g).winner \in PageIds
      /\ \A d \in Cluster(g).pages : d.page_id \in PageIds /\ d.action \in _ACTIONS
  BY <1>1, <1>2, <1>3, <1>4, <1>6, <1>7
<1> QED
  BY <1>8 DEF g

-----------------------------------------------------------------------------
(***************************************************************************)
(* The site over time.                                                      *)
(***************************************************************************)

\* The result is of the pages ps, of which none is gone that was to be kept.
ResultOf(ps) ==
  /\ Listed(ps) /\ result = detect_keyword_cannibalization(ps)
  /\ ToSet(pages) \subseteq ToSet(ps)
  /\ \A fp \in Colliding(ps) : _pick_winner(Group(ps, fp)) \in ToSet(pages)

IInv == Listed(pages) /\ (result # None => \E ps : ResultOf(ps))

LEMMA ResultClusters ==
  ASSUME NEW ps
  PROVE  /\ detect_keyword_cannibalization(ps).clusters =
              [fp \in Colliding(ps) |-> Cluster(Group(ps, fp))]
         /\ \A d : d \in Advice(detect_keyword_cannibalization(ps)) <=>
                     \E fp \in Colliding(ps) : d \in Cluster(Group(ps, fp)).pages
<1> DEFINE r == detect_keyword_cannibalization(ps)
<1>1. r.clusters = [fp \in Colliding(ps) |-> Cluster(Group(ps, fp))]
  BY DEF detect_keyword_cannibalization
<1> HIDE DEF r
<1>2. Range(r.clusters) = {Cluster(Group(ps, fp)) : fp \in Colliding(ps)}
  BY <1>1 DEF Range
<1>3. Advice(r) = UNION {c.pages : c \in {Cluster(Group(ps, fp)) : fp \in Colliding(ps)}}
  BY <1>2, Zenon DEF Advice
<1>4. \A d : d \in Advice(r) <=> \E fp \in Colliding(ps) : d \in Cluster(Group(ps, fp)).pages
  BY <1>3
<1> QED
  BY <1>1, <1>4 DEF r

LEMMA DeclareKeeps ==
  ASSUME IInv, Declare
  PROVE  IInv'
<1>1. PICK p \in PageTarget :
        (\A q \in ToSet(pages) : q.page_id # p.page_id) /\ pages' = Append(pages, p)
  BY DEF Declare
<1>2. pages \in Seq(PageTarget) /\ IdsDiffer(pages) /\ DOMAIN pages = 1..Len(pages) /\ Len(pages) \in Nat
  BY ListedPages DEF IInv, Listed
<1>3. /\ pages' \in Seq(PageTarget) /\ DOMAIN pages' = 1..Len(pages) + 1
      /\ \A i \in 1..Len(pages) : pages'[i] = pages[i]
      /\ pages'[Len(pages) + 1] = p
  BY <1>1, <1>2
<1>4. \A i \in 1..Len(pages) : pages[i].page_id # p.page_id
  BY <1>1, <1>2 DEF ToSet
<1>5. ASSUME NEW i \in DOMAIN pages', NEW j \in DOMAIN pages', pages'[i].page_id = pages'[j].page_id
      PROVE  i = j
  <2>1. (i \in 1..Len(pages) \/ i = Len(pages) + 1) /\ (j \in 1..Len(pages) \/ j = Len(pages) + 1)
    BY <1>2, <1>3
  <2> QED
    BY <1>2, <1>3, <1>4, <1>5, <2>1 DEF IdsDiffer
<1>6. Listed(pages')
  BY <1>3, <1>5 DEF Listed, IdsDiffer
<1>7. result' = None
  BY DEF Declare
<1> QED
  BY <1>6, <1>7 DEF IInv, Listed, IdsDiffer

LEMMA DetectKeeps ==
  ASSUME IInv, Detect
  PROVE  IInv'
<1>1. result' = detect_keyword_cannibalization(pages) /\ pages' = pages
  BY DEF Detect
<1>2. Listed(pages)
  BY DEF IInv
<1>3. \A fp \in Colliding(pages) : _pick_winner(Group(pages, fp)) \in ToSet(pages)
  BY <1>2, GroupFacts
<1>4. ResultOf(pages)'
  BY <1>1, <1>2, <1>3 DEF ResultOf
<1> QED
  BY <1>1, <1>2, <1>4 DEF IInv

LEMMA FollowKeeps ==
  ASSUME IInv, Follow
  PROVE  IInv'
<1>1. PICK d \in Advice(result) :
        d.action \in {"consolidate_into", "retarget"} /\ pages' = Without(pages, d.page_id)
  BY DEF Follow
<1>2. result # None /\ result' = result
  BY DEF Follow
<1>3. PICK ps : ResultOf(ps)
  BY <1>2 DEF IInv
<1>4. /\ Listed(ps) /\ result = detect_keyword_cannibalization(ps) /\ ToSet(pages) \subseteq ToSet(ps)
      /\ \A fp \in Colliding(ps) : _pick_winner(Group(ps, fp)) \in ToSet(pages)
  BY <1>3 DEF ResultOf
<1>5. PICK fp \in Colliding(ps) : d \in Cluster(Group(ps, fp)).pages
  BY <1>1, <1>4, ResultClusters
<1> DEFINE w == _pick_winner(Group(ps, fp))
<1>6. d \in Decisions(Group(ps, fp), w) /\ ToSet(Group(ps, fp)) = Members(ps, fp)
  BY <1>4, <1>5, GroupFacts
<1>7. PICK p \in Members(ps, fp) : d.page_id = p.page_id /\ (p.page_id = w.page_id => d.action = "keep")
  BY <1>6, DecisionsOf
<1> HIDE DEF w
<1>8. d.page_id # w.page_id
  BY <1>1, <1>7
<1>9. Listed(pages') /\ ToSet(pages') = {q \in ToSet(pages) : q.page_id # d.page_id}
  BY <1>1, WithoutPages DEF IInv
<1>10. ASSUME NEW f \in Colliding(ps) PROVE _pick_winner(Group(ps, f)) \in ToSet(pages')
  <2> DEFINE v == _pick_winner(Group(ps, f))
  <2>1. v \in Members(ps, f) /\ v \in ToSet(pages)
    BY <1>4, GroupFacts
  <2> HIDE DEF v
  <2>2. CASE f = fp
    <3>1. v = w
      BY <2>2 DEF v, w
    <3> QED
      BY <1>8, <1>9, <2>1, <3>1 DEF v
  <2>3. CASE f # fp
    <3>1. p # v /\ p \in ToSet(ps) /\ v \in ToSet(ps)
      BY <1>7, <2>1, <2>3 DEF Members
    <3>2. p.page_id # v.page_id
      BY <1>4, <3>1, ListedPages
    <3> QED
      BY <1>7, <1>9, <2>1, <3>2 DEF v
  <2> QED
    BY <2>2, <2>3
<1>11. ResultOf(ps)'
  BY <1>2, <1>4, <1>9, <1>10 DEF ResultOf
<1> QED
  BY <1>9, <1>11 DEF IInv

LEMMA StepKeeps == IInv /\ [Next]_vars => IInv'
<1> SUFFICES ASSUME IInv, [Next]_vars PROVE IInv'
  OBVIOUS
<1>1. CASE Declare
  BY <1>1, DeclareKeeps
<1>2. CASE Detect
  BY <1>2, DetectKeeps
<1>3. CASE Follow
  BY <1>3, FollowKeeps
<1>4. CASE UNCHANGED vars
  BY <1>4 DEF vars, IInv, Listed, IdsDiffer, ResultOf
<1> QED
  BY <1>1, <1>2, <1>3, <1>4 DEF Next

\* The invariant that carries the others: the pages have ids of their own (cannibalization.py
\* looks the winner up by its id), and a result is of pages that only lost what it let go.
THEOREM Invariance == Spec => []IInv
<1>1. Init => IInv
  <2> SUFFICES ASSUME Init PROVE IInv
    OBVIOUS
  <2>1. pages = <<>> /\ result = None
    BY DEF Init
  <2>2. pages \in Seq(PageTarget) /\ DOMAIN pages = {}
    BY <2>1
  <2> QED
    BY <2>1, <2>2 DEF IInv, Listed, IdsDiffer
<1> QED
  BY <1>1, StepKeeps, PTL DEF Spec

\* Pages and results keep their types, for any pages (PageTarget, and the result of detect_keyword_cannibalization).
THEOREM TypeCorrect == Spec => []TypeOK
<1>1. IInv => TypeOK
  <2> SUFFICES ASSUME IInv PROVE TypeOK
    OBVIOUS
  <2>1. pages \in Seq(PageTarget)
    BY DEF IInv, Listed
  <2>2. CASE result # None
    <3>1. PICK ps : ResultOf(ps)
      BY <2>2 DEF IInv
    <3>2. Listed(ps) /\ result.clusters = [fp \in Colliding(ps) |-> Cluster(Group(ps, fp))]
      BY <3>1, ResultClusters DEF ResultOf
    <3>3. ASSUME NEW fp \in DOMAIN result.clusters
          PROVE  LET c == result.clusters[fp] IN
                   /\ c.decided_by \in Range(_CRITERION_NAMES) /\ c.conflict \in BOOLEAN
                   /\ c.winner \in PageIds
                   /\ \A d \in c.pages : d.page_id \in PageIds /\ d.action \in _ACTIONS
      <4>1. fp \in Colliding(ps) /\ result.clusters[fp] = Cluster(Group(ps, fp))
        BY <3>2, <3>3
      <4> QED
        BY <3>2, <4>1, ResultTyped
    <3> QED
      BY <2>1, <3>3 DEF TypeOK
  <2> QED
    BY <2>1, <2>2 DEF TypeOK
<1> QED
  BY <1>1, Invariance, PTL

\* The criterion a cluster names is why its winner wins (_decided_by, line 161), for any
\* number of rivals, although only the runner-up is looked at.
THEOREM NamedCriterionDecides == Spec => []DecidedByIsTheReason
<1>1. IInv => DecidedByIsTheReason
  <2> SUFFICES ASSUME IInv, NEW fp \in Colliding(pages)
               PROVE  LET c == Cluster(Group(pages, fp))
                          w == CHOOSE p \in Members(pages, fp) : p.page_id = c.winner
                      IN  IsReason(_CRITERION_NAMES, c.decided_by, _full_key(w),
                                   {_full_key(p) : p \in Members(pages, fp) \ {w}})
    BY DEF DecidedByIsTheReason
  <2> DEFINE g == Group(pages, fp)
             w == _pick_winner(g)
  <2>1. Listed(pages)
    BY DEF IInv
  <2>2. Listed(g) /\ Len(g) > 1 /\ ToSet(g) = Members(pages, fp)
    BY <2>1, GroupFacts
  <2>3. (CHOOSE p \in Members(pages, fp) : p.page_id = Cluster(g).winner) = w
    BY <2>1, WinnerByItsId
  <2>4. Cluster(g).decided_by = _decided_by(w, g)
    BY DEF Cluster
  <2> HIDE DEF g
  <2>5. IsReason(_CRITERION_NAMES, _decided_by(w, g), _full_key(w),
                 {_full_key(p) : p \in Members(pages, fp) \ {w}})
    BY <2>2, GroupReason
  <2> QED
    BY <2>3, <2>4, <2>5 DEF g
<1> QED
  BY <1>1, Invariance, PTL

\* What is above in the first criteria is above.
LEMMA AboveInPrefix ==
  ASSUME NEW p \in PageTarget, NEW q \in PageTarget,
         Above(SubSeq(_signal_key(p), 1, 4), SubSeq(_signal_key(q), 1, 4))
  PROVE  Above(_signal_key(p), _signal_key(q))
<1> DEFINE a == _signal_key(p)
           b == _signal_key(q)
<1>1. a \in Seq(Int) /\ b \in Seq(Int) /\ Len(a) = 5 /\ Len(b) = 5
  BY SignalKeys
<1> HIDE DEF a, b
<1>2. /\ DOMAIN SubSeq(a, 1, 4) = 1..4 /\ DOMAIN a = 1..5
      /\ \A i \in 1..4 : SubSeq(a, 1, 4)[i] = a[i] /\ SubSeq(b, 1, 4)[i] = b[i]
  BY <1>1
<1>3. PICK i \in 1..4 : /\ SubSeq(a, 1, 4)[i] > SubSeq(b, 1, 4)[i]
                        /\ \A j \in 1..i - 1 : SubSeq(a, 1, 4)[j] = SubSeq(b, 1, 4)[j]
  BY <1>2 DEF Above, a, b
<1>4. a[i] > b[i] /\ i \in DOMAIN a
  BY <1>2, <1>3
<1>5. ASSUME NEW j \in 1..i - 1 PROVE a[j] = b[j]
  <2>1. j \in 1..4
    BY <1>3
  <2> QED
    BY <1>2, <1>3, <2>1
<1> QED
  BY <1>4, <1>5 DEF Above, a, b

\* A priority that goes against the signals wins, and the cluster says so
\* (priority_override_conflicts_signals, line 284), for any number of rivals.
THEOREM OverridesAreReported == Spec => []OverrideIsNeverSilent
<1>1. IInv => OverrideIsNeverSilent
  <2> SUFFICES ASSUME IInv, NEW fp \in Colliding(pages),
                      NEW p \in Members(pages, fp),
                      Above(SubSeq(_signal_key(p), 1, 4),
                            SubSeq(_signal_key(_pick_winner(Group(pages, fp))), 1, 4))
               PROVE  Cluster(Group(pages, fp)).conflict
                      /\ _pick_winner(Group(pages, fp)).priority # None
    <3>1. ASSUME IInv, NEW f \in Colliding(pages)
          PROVE  (CHOOSE q \in Members(pages, f) : q.page_id = Cluster(Group(pages, f)).winner)
                   = _pick_winner(Group(pages, f))
      BY <3>1, WinnerByItsId DEF IInv
    <3> QED
      BY <3>1, Zenon DEF OverrideIsNeverSilent
  <2> DEFINE g == Group(pages, fp)
             w == _pick_winner(g)
             s == _pick_signal_winner(g)
  <2>1. Listed(pages)
    BY DEF IInv
  <2>2. /\ Listed(g) /\ Len(g) > 1 /\ ToSet(g) = Members(pages, fp) /\ Members(pages, fp) \subseteq PageTarget
        /\ Wins(w, Members(pages, fp)) /\ w \in Members(pages, fp)
    BY <2>1, GroupFacts
  <2>3. Cluster(g).conflict = Conflict(w, s)
    BY DEF Cluster
  <2> HIDE DEF g
  <2>4. Shines(s, Members(pages, fp))
    <3>1. Len(g) > 0
      BY <2>2, ListedPages
    <3> QED
      BY <2>2, <3>1, Winner DEF Listed
  <2>5. Above(_signal_key(p), _signal_key(w))
    BY <2>2, AboveInPrefix DEF g
  <2> HIDE DEF w, s
  <2>6. p \in PageTarget /\ w \in PageTarget /\ s \in PageTarget /\ s \in Members(pages, fp)
    BY <2>2, <2>4 DEF Shines
  <2>typed. _signal_key(p) \in Tuples(5) /\ _signal_key(w) \in Tuples(5)
    BY <2>6, SignalKeys
  <2>7. p # w
    BY <2>5, <2>typed, AboveIsAsymmetric
  <2>8. ~Above(_signal_key(w), _signal_key(p))
    BY <2>5, <2>typed, AboveIsAsymmetric
  <2>9. s # w
    BY <2>4, <2>7, <2>8 DEF Shines
  <2>10. s.page_id # w.page_id
    <3>1. s \in ToSet(pages) /\ w \in ToSet(pages)
      BY <2>2, <2>6 DEF Members
    <3> QED
      BY <2>1, <2>9, <3>1, ListedPages
  <2>11. Above(_full_key(w), _full_key(p))
    BY <2>2, <2>7 DEF Wins
  <2>12. _priority_key(w) > _priority_key(p)
    BY <2>6, <2>8, <2>11, PriorityThenSignals
  <2>13. w.priority # None
    <3>1. /\ _priority_key(w) \in Int /\ _priority_key(p) \in Int /\ _priority_key(p) >= MissingPriority
          /\ _priority_key(w) > MissingPriority => w.priority # None
      BY <2>6, PriorityKeys
    <3>2. MissingPriority \in Int
      BY DEF MissingPriority
    <3> QED
      BY <2>12, <3>1, <3>2
  <2>14. Cluster(g).conflict /\ w.priority # None
    BY <2>3, <2>10, <2>13 DEF Conflict
  <2> QED
    BY <2>14 DEF g, w
<1> QED
  BY <1>1, Invariance, PTL

\* A listing of the same pages has ids of its own, and all the pages.
LEMMA AnotherListing ==
  ASSUME NEW ps, Listed(ps), NEW f \in SetToSeqs(ToSet(ps))
  PROVE  Listed(f) /\ ToSet(f) = ToSet(ps)
<1> DEFINE S == ToSet(ps)
<1>1. IsFiniteSet(S) /\ S \subseteq PageTarget
  BY RowsAreFinite DEF Listed
<1> HIDE DEF S
<1>2. f \in Seq(S) /\ Distinct(f) /\ ToSet(f) = S
  BY <1>1, ListingIsWhole DEF S
<1>3. f \in Seq(PageTarget)
  BY <1>1, <1>2
<1>4. \A p, q \in S : p.page_id = q.page_id => p = q
  BY ListedPages DEF S
<1>5. \A i \in DOMAIN f : f[i] \in S
  BY <1>2 DEF ToSet
<1>6. IdsDiffer(f)
  BY <1>2, <1>4, <1>5 DEF IdsDiffer, Distinct
<1> QED
  BY <1>2, <1>3, <1>6 DEF Listed, S

\* The order in which a site lists its pages decides nothing (max() at line 154 keeps the
\* first of equals), for any number of pages.
THEOREM OrderDecidesNothing == Spec => []OrderIsIrrelevant
<1>1. IInv => OrderIsIrrelevant
  <2> SUFFICES ASSUME IInv, NEW f \in SetToSeqs(ToSet(pages))
               PROVE  detect_keyword_cannibalization(f).clusters
                        = detect_keyword_cannibalization(pages).clusters
    BY DEF OrderIsIrrelevant
  <2>1. Listed(pages) /\ Listed(f) /\ ToSet(f) = ToSet(pages)
    BY AnotherListing DEF IInv
  <2>2. \A fp : Members(f, fp) = Members(pages, fp)
    BY <2>1 DEF Members
  <2>3. Colliding(f) = Colliding(pages)
    <3>1. \A fp : fp \in Colliding(f) <=> fp \in Colliding(pages)
      BY <2>1, <2>2, CollidingPages
    <3> QED
      BY <3>1, Zenon
  <2>4. ASSUME NEW fp \in Colliding(pages) PROVE Cluster(Group(f, fp)) = Cluster(Group(pages, fp))
    BY <2>1, <2>2, <2>3, GroupFacts, ClusterOfSet
  <2>5. [fp \in Colliding(f) |-> Cluster(Group(f, fp))] = [fp \in Colliding(pages) |-> Cluster(Group(pages, fp))]
    BY <2>3, <2>4
  <2> QED
    BY <2>5, ResultClusters
<1> QED
  BY <1>1, Invariance, PTL

\* A page that may still lose to the same winner is told the same.
LEMMA SameAdvice ==
  ASSUME NEW ps, ResultOf(ps), Listed(pages), NEW fp \in Colliding(pages)
  PROVE  fp \in Colliding(ps)
         /\ Cluster(Group(pages, fp)).pages \subseteq Cluster(Group(ps, fp)).pages
<1>1. /\ Listed(ps) /\ ToSet(pages) \subseteq ToSet(ps)
      /\ \A f \in Colliding(ps) : _pick_winner(Group(ps, f)) \in ToSet(pages)
  BY DEF ResultOf
<1>2. Members(pages, fp) \subseteq Members(ps, fp)
  BY <1>1 DEF Members
<1>3. fp \in Colliding(ps)
  BY <1>1, <1>2, CollidingPages
<1> DEFINE g == Group(pages, fp)
           h == Group(ps, fp)
           w == _pick_winner(h)
           v == _pick_winner(g)
<1>4. /\ ToSet(g) = Members(pages, fp) /\ Wins(v, Members(pages, fp))
      /\ Cluster(g).pages = Decisions(g, v)
  BY GroupFacts
<1>5. /\ ToSet(h) = Members(ps, fp) /\ Wins(w, Members(ps, fp)) /\ w \in Members(ps, fp)
      /\ Cluster(h).pages = Decisions(h, w) /\ Members(ps, fp) \subseteq PageTarget
  BY <1>1, <1>3, GroupFacts
<1>6. w \in ToSet(pages)
  BY <1>1, <1>3
<1> HIDE DEF w, v, g, h
<1>7. w \in Members(pages, fp)
  BY <1>5, <1>6 DEF Members
<1>8. Wins(w, Members(pages, fp))
  BY <1>2, <1>5, <1>7 DEF Wins
<1>9. w = v
  <2>1. Members(pages, fp) \subseteq PageTarget
    BY <1>2, <1>5
  <2> QED
    BY <1>4, <1>8, <2>1, OneWinner
<1>10. Decisions(g, w) \subseteq Decisions(h, w)
  BY <1>2, <1>4, <1>5 DEF Decisions
<1> QED
  BY <1>3, <1>4, <1>5, <1>9, <1>10 DEF g, h

\* Advice followed in part is not contradicted by the next report (_loser_action, line 180),
\* in whatever order it is followed.
THEOREM AdviceIsLasting == Spec => AdviceStands
<1>1. ASSUME IInv, [Next]_vars, Detect, result # None PROVE Advice(result') \subseteq Advice(result)
  <2>1. PICK ps : ResultOf(ps)
    BY <1>1 DEF IInv
  <2>2. result = detect_keyword_cannibalization(ps) /\ result' = detect_keyword_cannibalization(pages)
    BY <1>1, <2>1 DEF ResultOf, Detect
  <2>3. ASSUME NEW d \in Advice(result') PROVE d \in Advice(result)
    <3>1. PICK fp \in Colliding(pages) : d \in Cluster(Group(pages, fp)).pages
      BY <2>2, <2>3, ResultClusters
    <3>2. fp \in Colliding(ps) /\ d \in Cluster(Group(ps, fp)).pages
      BY <1>1, <2>1, <3>1, SameAdvice DEF IInv
    <3> QED
      BY <2>2, <3>2, ResultClusters
  <2> QED
    BY <2>3
<1>2. IInv /\ [Next]_vars => [Detect /\ result # None => Advice(result') \subseteq Advice(result)]_vars
  BY <1>1
<1> QED
  BY <1>2, Invariance, PTL DEF Spec, AdviceStands
=============================================================================
