------------------------- MODULE KeywordClusterProofs -------------------------
(***************************************************************************)
(* What cluster_keywords says of its rows, for any rows and markers, called    *)
(* with a list or by the demo report.                                        *)
(***************************************************************************)
EXTENDS DemoReport, ListProofs

-----------------------------------------------------------------------------
(***************************************************************************)
(* Rows and records.                                                        *)
(***************************************************************************)

\* What a caller passes.
Input(row) ==
  /\ row.id \in Nat \cup {None} /\ row.demand \in Int \cup {None}
  /\ row.text \in Seq(ToSet(row.text))

\* What a record has of it.
Recorded(r) ==
  /\ r.id \in Nat /\ r.status \in DOMAIN _DEMAND_STATUS_RANK
  /\ r.status # "unknown" => r.demand \in Int
  /\ r.text \in Seq(ToSet(r.text))
  /\ r.core # <<>>
  /\ r.markers = _find_intent_markers(r.text) /\ r.intent = detect_search_intent(r.markers)
  /\ r.core = topic_core_tokens_for(r.text, r.markers) /\ r.fingerprint = keyword_fingerprint(r.core)

IdsDiffer(rs) == \A i, j \in DOMAIN rs : rs[i].id = rs[j].id => i = j

Listed(rs) == rs \in Seq(ToSet(rs)) /\ IdsDiffer(rs) /\ \A r \in ToSet(rs) : Recorded(r)

LEMMA ListedRecords ==
  ASSUME NEW rs, Listed(rs)
  PROVE  /\ DOMAIN rs = 1..Len(rs) /\ Len(rs) \in Nat
         /\ \A i \in DOMAIN rs : rs[i] \in ToSet(rs) /\ Recorded(rs[i])
         /\ \A r, s \in ToSet(rs) : r.id = s.id => r = s
BY DEF Listed, IdsDiffer, ToSet

LEMMA ContentIsAList ==
  ASSUME NEW S, NEW text \in Seq(S)
  PROVE  Len(content_tokens(text)) \in Nat
<1> DEFINE P == {i \in DOMAIN text : text[i] \notin Stopwords}
<1>1. P \subseteq DOMAIN text /\ content_tokens(text) = Kept(text, P)
  BY DEF content_tokens
<1> HIDE DEF P
<1>2. Kept(text, P) \in Seq(S)
  BY <1>1, KeptRows
<1> QED
  BY <1>1, <1>2, LenProperties

LEMMA RankKeys ==
  ASSUME NEW r, Recorded(r)
  PROVE  _member_rank_key(r) \in Tuples(5) /\ _member_rank_key(r)[5] = -r.id
<1> DEFINE a == _DEMAND_STATUS_RANK[r.status]
           b == IF r.status = "unknown" THEN -1 ELSE r.demand
           c == -Len(content_tokens(r.text))
           d == -Len(r.text)
           e == -r.id
<1>1. a \in Int
  BY DEF Recorded, _DEMAND_STATUS_RANK
<1>2. b \in Int
  BY DEF Recorded
<1>3. r.text \in Seq(ToSet(r.text))
  BY DEF Recorded
<1>4. Len(content_tokens(r.text)) \in Nat
  BY <1>3, ContentIsAList
<1>5. Len(r.text) \in Nat
  BY <1>3, LenProperties
<1>6. c \in Int /\ d \in Int
  BY <1>4, <1>5
<1>7. e \in Int
  BY DEF Recorded
<1>8. _member_rank_key(r) = <<a, b, c, d, e>>
  BY DEF _member_rank_key
<1> DEFINE t == <<a, b, c, d, e>>
<1> HIDE DEF a, b, c, d, e
<1>9. t \in Tuples(5) /\ t[5] = e
  BY <1>1, <1>2, <1>6, <1>7, FiveNumbers, Zenon
<1> QED
  BY <1>8, <1>9, Zenon DEF e

LEMMA KeysDiffer ==
  ASSUME NEW r, NEW s, Recorded(r), Recorded(s), r.id # s.id
  PROVE  _member_rank_key(r) # _member_rank_key(s)
<1>1. -r.id # -s.id
  BY DEF Recorded
<1> QED
  BY <1>1, RankKeys

-----------------------------------------------------------------------------
(***************************************************************************)
(* Heads.                                                                   *)
(***************************************************************************)

\* A record ranks above all others of a set.
Heads(h, M) == h \in M /\ \A r \in M \ {h} : Above(_member_rank_key(h), _member_rank_key(r))

LEMMA OneHead ==
  ASSUME NEW M, \A r \in M : Recorded(r), NEW h, NEW g, Heads(h, M), Heads(g, M)
  PROVE  h = g
<1> SUFFICES ASSUME h # g PROVE FALSE
  OBVIOUS
<1>1. Above(_member_rank_key(h), _member_rank_key(g)) /\ Above(_member_rank_key(g), _member_rank_key(h))
  BY DEF Heads
<1>2. _member_rank_key(h) \in Tuples(5) /\ _member_rank_key(g) \in Tuples(5)
  BY RankKeys DEF Heads
<1> QED
  BY <1>1, <1>2, AboveIsAsymmetric

LEMMA HeadOfList ==
  ASSUME NEW group, Listed(group), Len(group) > 0
  PROVE  Heads(FirstMax(group, _member_rank_key), ToSet(group)) /\ Heads(_pick_head(group), ToSet(group))
<1> DEFINE keys == [i \in DOMAIN group |-> _member_rank_key(group[i])]
           g == FirstGreatest(keys)
<1>1. /\ DOMAIN group = 1..Len(group) /\ Len(group) \in Nat
      /\ \A i \in DOMAIN group : Recorded(group[i])
  BY ListedRecords
<1>2. \A i, j \in DOMAIN group : i # j => group[i].id # group[j].id
  BY DEF Listed, IdsDiffer
<1>3. keys \in Seq(Tuples(5)) /\ Len(keys) > 0 /\ DOMAIN keys = DOMAIN group
  <2>1. \A i \in 1..Len(group) : _member_rank_key(group[i]) \in Tuples(5)
    BY <1>1, RankKeys
  <2> QED
    BY <1>1, <2>1
<1>4. Distinct(keys)
  BY <1>1, <1>2, KeysDiffer DEF Distinct
<1> HIDE DEF keys
<1>5. g \in DOMAIN keys /\ \A j \in DOMAIN keys \ {g} : Above(keys[g], keys[j])
  BY <1>3, <1>4, GreatestOfList
<1>6. FirstMax(group, _member_rank_key) = group[g]
  BY DEF FirstMax, keys
<1> HIDE DEF g
<1>7. /\ g \in DOMAIN group
      /\ \A j \in DOMAIN group \ {g} : Above(_member_rank_key(group[g]), _member_rank_key(group[j]))
  BY <1>3, <1>5 DEF keys
<1>8. Heads(FirstMax(group, _member_rank_key), ToSet(group))
  BY <1>6, <1>7 DEF Heads, ToSet
<1> QED
  BY <1>8 DEF _pick_head

-----------------------------------------------------------------------------
(***************************************************************************)
(* Groups of records.                                                       *)
(***************************************************************************)
LEMMA KeptRecords ==
  ASSUME NEW rs, Listed(rs), NEW P, P \subseteq DOMAIN rs
  PROVE  /\ Listed(Kept(rs, P)) /\ ToSet(Kept(rs, P)) = {rs[i] : i \in P}
         /\ Len(Kept(rs, P)) = Cardinality(P)
<1> DEFINE k == Kept(rs, P)
<1>1. rs \in Seq(ToSet(rs))
  BY DEF Listed
<1>2. /\ k \in Seq(ToSet(rs))
      /\ \E at \in [DOMAIN k -> P] :
           /\ \A i \in DOMAIN k : k[i] = rs[at[i]]
           /\ \A i, j \in DOMAIN k : at[i] = at[j] => i = j
  BY <1>1, KeptFrom
<1>3. ToSet(k) = {rs[i] : i \in P} /\ Len(k) = Cardinality(P)
  BY <1>1, KeptAll
<1> HIDE DEF k
<1>4. PICK at \in [DOMAIN k -> P] :
        /\ \A i \in DOMAIN k : k[i] = rs[at[i]]
        /\ \A i, j \in DOMAIN k : at[i] = at[j] => i = j
  BY <1>2
<1>5. IdsDiffer(k)
  BY <1>4 DEF IdsDiffer, Listed
<1>6. ToSet(k) \subseteq ToSet(rs)
  BY <1>3 DEF ToSet
<1>7. k \in Seq(ToSet(k))
  <2>1. k \in [1..Len(k) -> ToSet(rs)] /\ DOMAIN k = 1..Len(k) /\ Len(k) \in Nat
    BY <1>2, LenProperties
  <2>2. \A i \in 1..Len(k) : k[i] \in ToSet(k)
    BY <2>1 DEF ToSet
  <2> QED
    BY <2>1, <2>2
<1> QED
  BY <1>3, <1>5, <1>6, <1>7 DEF Listed, k

LEMMA OthersOf ==
  ASSUME NEW rs, Listed(rs), NEW h \in ToSet(rs)
  PROVE  Listed(Others(rs, h)) /\ ToSet(Others(rs, h)) = ToSet(rs) \ {h}
<1> DEFINE P == {i \in DOMAIN rs : rs[i].id # h.id}
<1>1. {rs[i] : i \in P} = {r \in ToSet(rs) : r.id # h.id}
  BY DEF ToSet
<1>2. {r \in ToSet(rs) : r.id # h.id} = ToSet(rs) \ {h}
  BY ListedRecords
<1>3. P \subseteq DOMAIN rs /\ Others(rs, h) = Kept(rs, P)
  BY DEF Others
<1> HIDE DEF P
<1> QED
  BY <1>1, <1>2, <1>3, KeptRecords

LEMMA MembersOf ==
  ASSUME NEW rs, Listed(rs), NEW key
  PROVE  Listed(Members(rs, key)) /\ ToSet(Members(rs, key)) = {r \in ToSet(rs) : Key(r) = key}
<1> DEFINE P == {i \in DOMAIN rs : Key(rs[i]) = key}
<1>1. {rs[i] : i \in P} = {r \in ToSet(rs) : Key(r) = key}
  BY DEF ToSet
<1>2. P \subseteq DOMAIN rs /\ Members(rs, key) = Kept(rs, P)
  BY DEF Members
<1> HIDE DEF P
<1> QED
  BY <1>1, <1>2, KeptRecords

LEMMA Several ==
  ASSUME NEW rs, Listed(rs)
  PROVE  /\ Len(rs) > 0 <=> ToSet(rs) # {}
         /\ Len(rs) = 1 <=> \E h : ToSet(rs) = {h}
<1>1. DOMAIN rs = 1..Len(rs) /\ Len(rs) \in Nat
  BY ListedRecords
<1>2. Len(rs) > 0 => 1 \in DOMAIN rs
  BY <1>1
<1>3. ToSet(rs) # {} => Len(rs) > 0
  BY <1>1 DEF ToSet
<1>4. ASSUME Len(rs) = 1 PROVE ToSet(rs) = {rs[1]}
  BY <1>1, <1>4 DEF ToSet
<1>5. ASSUME NEW h, ToSet(rs) = {h} PROVE Len(rs) = 1
  <2>1. \A i \in DOMAIN rs : rs[i] = h
    BY <1>5 DEF ToSet
  <2>2. \A i, j \in DOMAIN rs : i = j
    BY <2>1 DEF Listed, IdsDiffer
  <2>3. Len(rs) > 0
    BY <1>3, <1>5
  <2>4. ~(Len(rs) > 1)
    <3>1. Len(rs) > 1 => 1 \in DOMAIN rs /\ 2 \in DOMAIN rs
      BY <1>1
    <3> QED
      BY <2>2, <3>1
  <2> QED
    BY <1>1, <2>3, <2>4
<1> QED
  BY <1>2, <1>3, <1>4, <1>5 DEF ToSet

LEMMA Names ==
  /\ DOMAIN _HEAD_CRITERION_NAMES = 1..5 /\ Len(_HEAD_CRITERION_NAMES) = 5
  /\ \A i, j \in 1..5 : _HEAD_CRITERION_NAMES[i] = _HEAD_CRITERION_NAMES[j] => i = j
<1>1. DOMAIN _HEAD_CRITERION_NAMES = 1..5 /\ Len(_HEAD_CRITERION_NAMES) = 5
  BY DEF _HEAD_CRITERION_NAMES
<1>2. /\ _HEAD_CRITERION_NAMES[1] = "search_demand_status" /\ _HEAD_CRITERION_NAMES[2] = "search_demand"
      /\ _HEAD_CRITERION_NAMES[3] = "shorter_content_tokens"
      /\ _HEAD_CRITERION_NAMES[4] = "shorter_normalized_surface"
      /\ _HEAD_CRITERION_NAMES[5] = "keyword_id_tiebreak"
  BY DEF _HEAD_CRITERION_NAMES
<1>3. \A i \in 1..5 : i = 1 \/ i = 2 \/ i = 3 \/ i = 4 \/ i = 5
  OBVIOUS
<1> HIDE DEF _HEAD_CRITERION_NAMES
<1>4. \A i, j \in 1..5 : _HEAD_CRITERION_NAMES[i] = _HEAD_CRITERION_NAMES[j] => i = j
  BY <1>2, <1>3
<1> QED
  BY <1>1, <1>4

\* The second of a group, and what parts the head from it.
LEMMA RunnerUp ==
  ASSUME NEW group, Listed(group), Len(group) > 0, Len(group) # 1
  PROVE  LET h == _pick_head(group)
             s == FirstMax(Others(group, h), _member_rank_key)
         IN  /\ Heads(h, ToSet(group)) /\ Heads(s, ToSet(group) \ {h})
             /\ head_decided_by(group, h)
                  = PartedBy(_HEAD_CRITERION_NAMES, _member_rank_key(h), _member_rank_key(s))
<1> DEFINE h == _pick_head(group)
           others == Others(group, h)
           s == FirstMax(others, _member_rank_key)
<1>1. Heads(h, ToSet(group))
  BY HeadOfList
<1>2. head_decided_by(group, h) = PartedBy(_HEAD_CRITERION_NAMES, _member_rank_key(h), _member_rank_key(s))
  BY DEF head_decided_by
<1> HIDE DEF h
<1>3. Listed(others) /\ ToSet(others) = ToSet(group) \ {h}
  BY <1>1, OthersOf DEF Heads
<1>4. Len(others) > 0
  <2>1. ToSet(group) # {h}
    BY Several
  <2>2. ToSet(group) \ {h} # {}
    BY <1>1, <2>1 DEF Heads
  <2> QED
    BY <1>3, <2>2, Several
<1> HIDE DEF others
<1>5. Heads(s, ToSet(others))
  BY <1>3, <1>4, HeadOfList
<1> QED
  BY <1>1, <1>2, <1>3, <1>5 DEF h, others

\* The criterion parts the head from the others.
LEMMA GroupReason ==
  ASSUME NEW group, Listed(group), Len(group) > 0, Len(group) # 1
  PROVE  LET h == _pick_head(group)
         IN  IsReason(_HEAD_CRITERION_NAMES, head_decided_by(group, h), _member_rank_key(h),
                      {_member_rank_key(r) : r \in ToSet(group) \ {h}})
<1> DEFINE h == _pick_head(group)
           s == FirstMax(Others(group, h), _member_rank_key)
           rivals == {_member_rank_key(r) : r \in ToSet(group) \ {h}}
<1>1. /\ Heads(h, ToSet(group)) /\ Heads(s, ToSet(group) \ {h})
      /\ head_decided_by(group, h) = PartedBy(_HEAD_CRITERION_NAMES, _member_rank_key(h), _member_rank_key(s))
  BY RunnerUp
<1>2. \A r \in ToSet(group) : Recorded(r)
  BY DEF Listed
<1> HIDE DEF h, s
<1>3. h \in ToSet(group) /\ s \in ToSet(group) \ {h} /\ Recorded(h) /\ Recorded(s)
  BY <1>1, <1>2 DEF Heads
<1>4. _member_rank_key(h) \in Tuples(5) /\ rivals \subseteq Tuples(5) /\ _member_rank_key(s) \in rivals
  BY <1>2, <1>3, RankKeys
<1>5. Above(_member_rank_key(h), _member_rank_key(s))
  BY <1>1, <1>3 DEF Heads
<1>6. ASSUME NEW k \in rivals
      PROVE  ~Above(k, _member_rank_key(s)) /\ ~Above(k, _member_rank_key(h)) /\ k # _member_rank_key(h)
  <2>1. PICK r \in ToSet(group) \ {h} : k = _member_rank_key(r)
    OBVIOUS
  <2>2. k \in Tuples(5) /\ _member_rank_key(s) \in Tuples(5)
    BY <1>4
  <2>3. Above(_member_rank_key(h), k)
    BY <1>1, <2>1 DEF Heads
  <2>4. r # s => Above(_member_rank_key(s), k)
    BY <1>1, <2>1 DEF Heads
  <2>5. ~Above(k, _member_rank_key(h)) /\ k # _member_rank_key(h)
    BY <1>4, <2>2, <2>3, AboveIsAsymmetric
  <2>6. CASE r = s
    <3>1. k = _member_rank_key(s)
      BY <2>1, <2>6
    <3> QED
      BY <2>2, <2>5, <3>1, AboveIsAsymmetric
  <2>7. CASE r # s
    BY <2>2, <2>4, <2>5, <2>7, AboveIsAsymmetric
  <2> QED
    BY <2>6, <2>7
<1> HIDE DEF rivals
<1>7. IsReason(_HEAD_CRITERION_NAMES, PartedBy(_HEAD_CRITERION_NAMES, _member_rank_key(h), _member_rank_key(s)),
               _member_rank_key(h), rivals)
  BY <1>4, <1>5, <1>6, Names, PartedByIsTheReason
<1> QED
  BY <1>1, <1>7 DEF h, rivals

\* Head and reason depend on the group as a set.
LEMMA HeadOfSet ==
  ASSUME NEW f, NEW g, Listed(f), Listed(g), Len(f) > 0, ToSet(f) = ToSet(g)
  PROVE  /\ _pick_head(f) = _pick_head(g)
         /\ head_decided_by(f, _pick_head(f)) = head_decided_by(g, _pick_head(g))
<1> DEFINE h == _pick_head(f)
           k == _pick_head(g)
<1>1. Len(g) > 0 /\ (Len(f) = 1 <=> Len(g) = 1)
  BY Several
<1>2. \A r \in ToSet(f) : Recorded(r)
  BY DEF Listed
<1>3. Heads(h, ToSet(f)) /\ Heads(k, ToSet(f))
  BY <1>1, HeadOfList
<1> HIDE DEF h, k
<1>4. h = k
  BY <1>2, <1>3, OneHead
<1>5. CASE Len(f) = 1
  <2>1. head_decided_by(f, h) = "singleton" /\ head_decided_by(g, k) = "singleton"
    BY <1>1, <1>5 DEF head_decided_by
  <2> QED
    BY <1>4, <2>1 DEF h, k
<1>6. CASE Len(f) # 1
  <2> DEFINE s == FirstMax(Others(f, h), _member_rank_key)
             t == FirstMax(Others(g, k), _member_rank_key)
  <2>1. /\ Heads(s, ToSet(f) \ {h})
        /\ head_decided_by(f, h) = PartedBy(_HEAD_CRITERION_NAMES, _member_rank_key(h), _member_rank_key(s))
    BY <1>6, RunnerUp DEF h
  <2>2. /\ Heads(t, ToSet(g) \ {k})
        /\ head_decided_by(g, k) = PartedBy(_HEAD_CRITERION_NAMES, _member_rank_key(k), _member_rank_key(t))
    BY <1>1, <1>6, RunnerUp DEF k
  <2> HIDE DEF s, t
  <2>3. s = t
    <3>1. \A r \in ToSet(f) \ {h} : Recorded(r)
      BY <1>2
    <3>2. Heads(t, ToSet(f) \ {h})
      BY <1>4, <2>2
    <3> QED
      BY <2>1, <3>1, <3>2, OneHead
  <2> QED
    BY <1>4, <2>1, <2>2, <2>3 DEF h, k
<1> QED
  BY <1>5, <1>6

\* What is shown of a key.
LEMMA ClusterOfKey ==
  ASSUME NEW rs, Listed(rs), NEW key \in {Key(r) : r \in ToSet(rs)}
  PROVE  LET m == Members(rs, key)
         IN  /\ Listed(m) /\ Len(m) > 0 /\ ToSet(m) = {r \in ToSet(rs) : Key(r) = key}
             /\ Clusters(rs)[key] = [head |-> _pick_head(m), members |-> ToSet(m),
                                     decided_by |-> head_decided_by(m, _pick_head(m))]
<1> DEFINE m == Members(rs, key)
<1>1. Listed(m) /\ ToSet(m) = {r \in ToSet(rs) : Key(r) = key}
  BY MembersOf
<1>2. Clusters(rs)[key] = [head |-> _pick_head(m), members |-> ToSet(m),
                           decided_by |-> head_decided_by(m, _pick_head(m))]
  BY DEF Clusters
<1> HIDE DEF m
<1>3. ToSet(m) # {}
  BY <1>1
<1>4. Len(m) > 0
  BY <1>1, <1>3, Several
<1> QED
  BY <1>1, <1>2, <1>4 DEF m

-----------------------------------------------------------------------------
(***************************************************************************)
(* Reading the rows.                                                        *)
(***************************************************************************)
Reasons ==
  {"empty_keyword_id", "duplicate_keyword_id", "empty_keyword_text", "invalid_demand_status",
   "demand_status_conflict", "missing_search_demand", "negative_search_demand",
   "no_content_tokens", "only_intent_markers"}

LEMMA ChecksOf ==
  ASSUME NEW row
  PROVE  /\ DOMAIN Checks(row) = 1..9
         /\ \A i \in 1..9 : Checks(row)[i].reason \in Reasons
         /\ Checks(row)[1].holds = (row.id = None)
         /\ Checks(row)[2].holds = (row.id \in seen)
         /\ Checks(row)[4].holds = (row.status \notin DOMAIN _DEMAND_STATUS_RANK)
         /\ Checks(row)[6].holds = (row.status \in {"known", "estimated"} /\ row.demand = None)
         /\ Checks(row)[9].holds = (topic_core_tokens_for(row.text, _find_intent_markers(row.text)) = <<>>)
<1>1. /\ DOMAIN Checks(row) = 1..9
      /\ Checks(row)[1].holds = (row.id = None)
      /\ Checks(row)[2].holds = (row.id \in seen)
      /\ Checks(row)[4].holds = (row.status \notin DOMAIN _DEMAND_STATUS_RANK)
      /\ Checks(row)[6].holds = (row.status \in {"known", "estimated"} /\ row.demand = None)
      /\ Checks(row)[9].holds = (topic_core_tokens_for(row.text, _find_intent_markers(row.text)) = <<>>)
  BY DEF Checks
<1>2. /\ Checks(row)[1].reason \in Reasons /\ Checks(row)[2].reason \in Reasons
      /\ Checks(row)[3].reason \in Reasons /\ Checks(row)[4].reason \in Reasons
      /\ Checks(row)[5].reason \in Reasons /\ Checks(row)[6].reason \in Reasons
      /\ Checks(row)[7].reason \in Reasons /\ Checks(row)[8].reason \in Reasons
      /\ Checks(row)[9].reason \in Reasons
  BY DEF Checks, Reasons
<1>3. \A i \in 1..9 : i = 1 \/ i = 2 \/ i = 3 \/ i = 4 \/ i = 5 \/ i = 6 \/ i = 7 \/ i = 8 \/ i = 9
  OBVIOUS
<1>4. \A i \in 1..9 : Checks(row)[i].reason \in Reasons
  BY <1>2, <1>3
<1> QED
  BY <1>1, <1>4

LEMMA ReasonsOf ==
  ASSUME NEW row
  PROVE  Reasons \subseteq {c.reason : c \in ToSet(Checks(row))}
<1>1. DOMAIN Checks(row) = 1..9
  BY ChecksOf
<1>2. /\ Checks(row)[1].reason = "empty_keyword_id" /\ Checks(row)[2].reason = "duplicate_keyword_id"
      /\ Checks(row)[3].reason = "empty_keyword_text" /\ Checks(row)[4].reason = "invalid_demand_status"
      /\ Checks(row)[5].reason = "demand_status_conflict" /\ Checks(row)[6].reason = "missing_search_demand"
      /\ Checks(row)[7].reason = "negative_search_demand" /\ Checks(row)[8].reason = "no_content_tokens"
      /\ Checks(row)[9].reason = "only_intent_markers"
  BY DEF Checks
<1>3. \A i \in 1..9 : Checks(row)[i] \in ToSet(Checks(row))
  BY <1>1 DEF ToSet
<1>4. 1 \in 1..9 /\ 2 \in 1..9 /\ 3 \in 1..9 /\ 4 \in 1..9 /\ 5 \in 1..9 /\ 6 \in 1..9 /\ 7 \in 1..9
      /\ 8 \in 1..9 /\ 9 \in 1..9
  OBVIOUS
<1> QED
  BY <1>2, <1>3, <1>4 DEF Reasons

Account ==
  /\ read \in 0..MaxRows /\ read = Len(records) + Len(skipped)
  /\ skipped \in Seq(ToSet(skipped)) /\ \A s \in ToSet(skipped) : s.reason \in Reasons
  /\ seen = {r.id : r \in ToSet(records)} \cup ({s.row.id : s \in ToSet(skipped)} \ {None})

IInv == Listed(records) /\ Account

LEMMA Appended ==
  ASSUME NEW s, s \in Seq(ToSet(s)), NEW x
  PROVE  /\ Append(s, x) \in Seq(ToSet(Append(s, x))) /\ ToSet(Append(s, x)) = ToSet(s) \cup {x}
         /\ Len(Append(s, x)) = Len(s) + 1 /\ Len(s) \in Nat
         /\ DOMAIN Append(s, x) = 1..Len(s) + 1 /\ DOMAIN s = 1..Len(s)
         /\ \A i \in 1..Len(s) : Append(s, x)[i] = s[i]
         /\ Append(s, x)[Len(s) + 1] = x
<1> DEFINE S == ToSet(s) \cup {x}
           t == Append(s, x)
<1>1. s \in Seq(S)
  OBVIOUS
<1> HIDE DEF S
<1>2. /\ t \in Seq(S) /\ Len(t) = Len(s) + 1 /\ Len(s) \in Nat
      /\ DOMAIN t = 1..Len(s) + 1 /\ DOMAIN s = 1..Len(s)
      /\ \A i \in 1..Len(s) : t[i] = s[i]
      /\ t[Len(s) + 1] = x
  BY <1>1, x \in S DEF S
<1> HIDE DEF t
<1>3. ToSet(t) = ToSet(s) \cup {x}
  <2>1. ASSUME NEW i \in DOMAIN t PROVE t[i] \in ToSet(s) \cup {x}
    <3>1. i \in 1..Len(s) \/ i = Len(s) + 1
      BY <1>2
    <3> QED
      BY <1>2, <3>1 DEF ToSet
  <2>2. \A i \in DOMAIN s : i \in DOMAIN t /\ t[i] = s[i]
    BY <1>2
  <2>3. Len(s) + 1 \in DOMAIN t
    BY <1>2
  <2> QED
    BY <1>2, <2>1, <2>2, <2>3 DEF ToSet
<1> QED
  BY <1>2, <1>3 DEF S, t

\* A row that passes the checks becomes a proper record.
LEMMA RecordOf ==
  ASSUME NEW row, Input(row), \A i \in DOMAIN Checks(row) : ~Checks(row)[i].holds
  PROVE  Recorded(Record(row)) /\ Record(row).id = row.id /\ row.id \notin seen
<1>1. \A i \in 1..9 : ~Checks(row)[i].holds
  BY ChecksOf
<1>2. /\ ~Checks(row)[1].holds /\ ~Checks(row)[2].holds /\ ~Checks(row)[4].holds
      /\ ~Checks(row)[6].holds /\ ~Checks(row)[9].holds
  BY <1>1
<1> DEFINE core == topic_core_tokens_for(row.text, _find_intent_markers(row.text))
<1>3. /\ row.id # None /\ row.id \notin seen /\ row.status \in DOMAIN _DEMAND_STATUS_RANK
      /\ ~(row.status \in {"known", "estimated"} /\ row.demand = None) /\ core # <<>>
  BY <1>2, ChecksOf
<1>4. /\ Record(row).id = row.id /\ Record(row).status = row.status /\ Record(row).demand = row.demand
      /\ Record(row).text = row.text /\ Record(row).core = core
  BY DEF Record
<1> DEFINE r == Record(row)
<1>5. /\ r.markers = _find_intent_markers(r.text) /\ r.intent = detect_search_intent(r.markers)
      /\ r.core = topic_core_tokens_for(r.text, r.markers) /\ r.fingerprint = keyword_fingerprint(r.core)
  BY DEF Record
<1> HIDE DEF core, r
<1>6. row.status # "unknown" => row.status \in {"known", "estimated"}
  BY <1>3 DEF _DEMAND_STATUS_RANK
<1>7. row.id \in Nat
  BY <1>3 DEF Input
<1>8. row.status # "unknown" => row.demand \in Int
  BY <1>3, <1>6 DEF Input
<1> QED
  BY <1>3, <1>4, <1>7, <1>8, <1>5 DEF Recorded, Input, r

LEMMA AcceptKeeps ==
  ASSUME IInv, NEW row, Input(row), Accept(row)
  PROVE  IInv'
<1> DEFINE r == Record(row)
<1>1. /\ read < MaxRows /\ read' = read + 1 /\ \A i \in DOMAIN Checks(row) : ~Checks(row)[i].holds
      /\ seen' = seen \cup {row.id} /\ records' = Append(records, r) /\ skipped' = skipped
  BY DEF Accept
<1>2. Recorded(r) /\ r.id = row.id /\ row.id \notin seen
  BY <1>1, RecordOf
<1> HIDE DEF r
<1>3. /\ records \in Seq(ToSet(records)) /\ IdsDiffer(records) /\ \A q \in ToSet(records) : Recorded(q)
      /\ Account
  BY DEF IInv, Listed
<1>4. /\ records' \in Seq(ToSet(records')) /\ ToSet(records') = ToSet(records) \cup {r}
      /\ Len(records') = Len(records) + 1 /\ Len(records) \in Nat
      /\ DOMAIN records' = 1..Len(records) + 1 /\ DOMAIN records = 1..Len(records)
      /\ \A i \in 1..Len(records) : records'[i] = records[i]
      /\ records'[Len(records) + 1] = r
  BY <1>1, <1>3, Appended
<1>5. \A i \in 1..Len(records) : records[i].id # r.id
  <2>1. \A i \in 1..Len(records) : records[i].id \in seen
    BY <1>3, <1>4 DEF Account, ToSet
  <2> QED
    BY <1>2, <2>1
<1>6. ASSUME NEW i \in DOMAIN records', NEW j \in DOMAIN records', records'[i].id = records'[j].id
      PROVE  i = j
  <2>1. (i \in 1..Len(records) \/ i = Len(records) + 1) /\ (j \in 1..Len(records) \/ j = Len(records) + 1)
    BY <1>4
  <2> QED
    BY <1>3, <1>4, <1>5, <1>6, <2>1 DEF IdsDiffer
<1>7. \A q \in ToSet(records') : Recorded(q)
  BY <1>2, <1>3, <1>4
<1>8. Listed(records')
  BY <1>4, <1>6, <1>7 DEF Listed, IdsDiffer
<1>9. read' \in 0..MaxRows /\ read' = Len(records') + Len(skipped')
  <2>1. /\ read \in 0..MaxRows /\ read = Len(records) + Len(skipped) /\ Len(skipped) \in Nat
        /\ MaxRows \in Nat
    BY <1>3, KeywordAssumption, LenProperties DEF Account
  <2> QED
    BY <1>1, <1>4, <2>1
<1>10. seen' = {q.id : q \in ToSet(records')} \cup ({s.row.id : s \in ToSet(skipped')} \ {None})
  <2>1. seen = {q.id : q \in ToSet(records)} \cup ({s.row.id : s \in ToSet(skipped)} \ {None})
    BY <1>3 DEF Account
  <2>2. {q.id : q \in ToSet(records')} = {q.id : q \in ToSet(records)} \cup {row.id}
    BY <1>2, <1>4
  <2> QED
    BY <1>1, <2>1, <2>2
<1>11. Account'
  BY <1>1, <1>3, <1>9, <1>10 DEF Account
<1>12. Listed(records)'
  BY <1>8 DEF Listed, IdsDiffer
<1> QED
  BY <1>11, <1>12 DEF IInv

LEMMA SkipKeeps ==
  ASSUME IInv, NEW row, Skip(row)
  PROVE  IInv'
<1>1. PICK i \in DOMAIN Checks(row) :
        /\ skipped' = Append(skipped, [row |-> row, reason |-> Checks(row)[i].reason])
        /\ seen' = seen \cup ({row.id} \ {None})
  BY DEF Skip
<1>2. read < MaxRows /\ read' = read + 1 /\ records' = records
  BY DEF Skip
<1> DEFINE x == [row |-> row, reason |-> Checks(row)[i].reason]
<1>3. x.row = row /\ x.reason \in Reasons
  BY ChecksOf
<1>4. skipped' = Append(skipped, x)
  BY <1>1
<1> HIDE DEF x
<1>5. Account
  BY DEF IInv
<1>6. /\ skipped' \in Seq(ToSet(skipped')) /\ ToSet(skipped') = ToSet(skipped) \cup {x}
      /\ Len(skipped') = Len(skipped) + 1 /\ Len(skipped) \in Nat
  BY <1>4, <1>5, Appended DEF Account
<1>7. read' \in 0..MaxRows /\ read' = Len(records') + Len(skipped')
  <2>1. /\ read \in 0..MaxRows /\ read = Len(records) + Len(skipped) /\ Len(records) \in Nat
        /\ MaxRows \in Nat
    BY <1>5, KeywordAssumption, ListedRecords DEF Account, IInv
  <2> QED
    BY <1>2, <1>6, <2>1
<1>8. \A s \in ToSet(skipped') : s.reason \in Reasons
  BY <1>3, <1>5, <1>6 DEF Account
<1>9. seen' = {q.id : q \in ToSet(records')} \cup ({s.row.id : s \in ToSet(skipped')} \ {None})
  <2>1. seen = {q.id : q \in ToSet(records)} \cup ({s.row.id : s \in ToSet(skipped)} \ {None})
    BY <1>5 DEF Account
  <2>2. {s.row.id : s \in ToSet(skipped')} = {s.row.id : s \in ToSet(skipped)} \cup {row.id}
    BY <1>3, <1>6
  <2> QED
    BY <1>1, <1>2, <2>1, <2>2
<1>10. Account'
  BY <1>6, <1>7, <1>8, <1>9 DEF Account
<1>11. Listed(records)'
  BY <1>2 DEF IInv, Listed, IdsDiffer
<1> QED
  BY <1>10, <1>11 DEF IInv

\* Rows of a list and lines of a file are inputs.
LEMMA Inputs ==
  /\ \A row \in Rows : Input(row)
  /\ \A line \in Lines :
       line.kind = "plain" \/ line.id \in Nat \cup {None}
  /\ \A line \in Lines, id \in Nat \cup {None} : Input(KeywordInput(id, line.text, line.blank))
BY KeywordAssumption, LinesAssumption DEF Input, KeywordInput

DemoInv == IInv /\ auto_n \in Nat

LEMMA StepKeeps == DemoInv /\ [DemoNext]_<<vars, demoVars>> => DemoInv'
<1> SUFFICES ASSUME DemoInv, [DemoNext]_<<vars, demoVars>> PROVE DemoInv'
  OBVIOUS
<1>1. CASE Called
  <2>1. PICK row \in Rows : Accept(row) \/ Skip(row)
    BY <1>1 DEF Called, Next
  <2>2. IInv'
    BY <2>1, Inputs, AcceptKeeps, SkipKeeps DEF DemoInv
  <2> QED
    BY <1>1, <2>2 DEF Called, demoVars, DemoInv
<1>2. CASE ReadLine
  <2>1. PICK line \in Lines :
          LET plain == line.kind = "plain"
              item == KeywordInput(IF plain THEN AutoId(auto_n + 1) ELSE line.id, line.text, line.blank)
          IN  /\ Accept(item) \/ Skip(item)
              /\ auto_n' = IF plain THEN auto_n + 1 ELSE auto_n
    BY <1>2 DEF ReadLine
  <2> DEFINE id == IF line.kind = "plain" THEN AutoId(auto_n + 1) ELSE line.id
             item == KeywordInput(id, line.text, line.blank)
  <2>2. (Accept(item) \/ Skip(item)) /\ auto_n' \in Nat
    BY <2>1 DEF DemoInv
  <2>3. id \in Nat \cup {None}
    BY Inputs DEF AutoId, DemoInv
  <2> HIDE DEF id
  <2>4. Input(item)
    BY <2>3, Inputs
  <2> HIDE DEF item
  <2>5. IInv'
    BY <2>2, <2>4, AcceptKeeps, SkipKeeps DEF DemoInv
  <2> QED
    BY <2>2, <2>5 DEF DemoInv
<1>3. CASE WritePage \/ UNCHANGED <<vars, demoVars>>
  BY <1>3 DEF WritePage, vars, demoVars, DemoInv, IInv, Account, Listed, IdsDiffer
<1> QED
  BY <1>1, <1>2, <1>3 DEF DemoNext

\* The invariant that carries the others: records are proper ones with ids of their own, and
\* every id seen is that of a row accepted or refused (seen_ids of cluster_keywords).
THEOREM Invariance == DemoSpec => []DemoInv
<1>1. DemoInit => DemoInv
  <2> SUFFICES ASSUME DemoInit PROVE DemoInv
    OBVIOUS
  <2>1. read = 0 /\ seen = {} /\ records = <<>> /\ skipped = <<>> /\ auto_n = 0
    BY DEF DemoInit, Init
  <2>2. ToSet(<<>>) = {} /\ DOMAIN <<>> = {} /\ Len(<<>>) = 0
    BY DEF ToSet
  <2>3. records \in Seq(ToSet(records)) /\ skipped \in Seq(ToSet(skipped))
    BY <2>1
  <2>4. Listed(records)
    BY <2>1, <2>2, <2>3 DEF Listed, IdsDiffer
  <2>5. Account
    BY <2>1, <2>2, <2>3, KeywordAssumption DEF Account
  <2> QED
    BY <2>1, <2>4, <2>5 DEF DemoInv, IInv
<1> QED
  BY <1>1, StepKeeps, PTL DEF DemoSpec

\* No row is lost and ids are unique (cluster_keywords, lines 383-506 of keyword_cluster.py), for any
\* rows, in any number.
THEOREM TypeCorrect == DemoSpec => []TypeOK
<1>1. DemoInv => TypeOK
  <2> SUFFICES ASSUME DemoInv PROVE TypeOK
    OBVIOUS
  <2>1. Listed(records) /\ Account
    BY DEF DemoInv, IInv
  <2>2. \A s \in ToSet(skipped) : s.reason \in {c.reason : c \in ToSet(Checks(s.row))}
    BY <2>1, ReasonsOf DEF Account
  <2>3. \A r \in ToSet(records) : r.core # <<>> /\ r.status \in DOMAIN _DEMAND_STATUS_RANK
    BY <2>1 DEF Listed, Recorded
  <2> QED
    BY <2>1, <2>2, <2>3 DEF TypeOK, Account, Listed, IdsDiffer
<1> QED
  BY <1>1, Invariance, PTL

\* The criterion that _pick_head names (line 345) is why the head is the head, for clusters
\* of any size.
THEOREM NamedCriterionDecides == DemoSpec => []HeadIsTheReason
<1>1. DemoInv => HeadIsTheReason
  <2> SUFFICES ASSUME DemoInv, NEW key \in DOMAIN Clusters(records)
               PROVE  LET c == Clusters(records)[key]
                          others == c.members \ {c.head}
                      IN  IF others = {} THEN c.decided_by = "singleton"
                          ELSE IsReason(_HEAD_CRITERION_NAMES, c.decided_by, _member_rank_key(c.head),
                                        {_member_rank_key(r) : r \in others})
    BY DEF HeadIsTheReason
  <2> DEFINE c == Clusters(records)[key]
             m == Members(records, key)
             h == _pick_head(m)
  <2>1. Listed(records)
    BY DEF DemoInv, IInv
  <2>2. key \in {Key(r) : r \in ToSet(records)}
    BY DEF Clusters
  <2>3. /\ Listed(m) /\ Len(m) > 0
        /\ c = [head |-> h, members |-> ToSet(m), decided_by |-> head_decided_by(m, h)]
    BY <2>1, <2>2, ClusterOfKey
  <2>4. c.head = h /\ c.members = ToSet(m) /\ c.decided_by = head_decided_by(m, h)
    BY <2>3
  <2> HIDE DEF c, m
  <2>5. CASE Len(m) = 1
    <3>1. PICK x : ToSet(m) = {x}
      BY <2>3, <2>5, Several
    <3>2. h \in ToSet(m)
      BY <2>3, HeadOfList DEF Heads
    <3>3. c.members \ {c.head} = {} /\ c.decided_by = "singleton"
      BY <2>4, <2>5, <3>1, <3>2 DEF head_decided_by
    <3> QED
      BY <3>3 DEF c
  <2>6. CASE Len(m) # 1
    <3>1. IsReason(_HEAD_CRITERION_NAMES, head_decided_by(m, h), _member_rank_key(h),
                   {_member_rank_key(r) : r \in ToSet(m) \ {h}})
      BY <2>3, <2>6, GroupReason
    <3>2. ToSet(m) \ {h} # {}
      <4>1. ToSet(m) # {h}
        BY <2>3, <2>6, Several
      <4>2. h \in ToSet(m)
        BY <2>3, HeadOfList DEF Heads
      <4> QED
        BY <4>1, <4>2
    <3> HIDE DEF h
    <3> QED
      BY <2>4, <3>1, <3>2 DEF c
  <2> QED
    BY <2>5, <2>6
<1> QED
  BY <1>1, Invariance, PTL

LEMMA AnotherListing ==
  ASSUME NEW rs, Listed(rs), NEW f \in SetToSeqs(ToSet(rs))
  PROVE  Listed(f) /\ ToSet(f) = ToSet(rs)
<1> DEFINE S == ToSet(rs)
<1>1. IsFiniteSet(S)
  BY RowsAreFinite DEF Listed
<1> HIDE DEF S
<1>2. f \in Seq(S) /\ Distinct(f) /\ ToSet(f) = S
  BY <1>1, ListingIsWhole DEF S
<1>3. \A r, s \in S : r.id = s.id => r = s
  BY ListedRecords DEF S
<1>4. \A i \in DOMAIN f : f[i] \in S
  BY <1>2 DEF ToSet
<1>5. IdsDiffer(f)
  BY <1>2, <1>3, <1>4 DEF IdsDiffer, Distinct
<1> QED
  BY <1>2, <1>5 DEF Listed, S

\* The order in which keywords are listed decides neither heads nor reasons (the sorted() of
\* line 334 keeps the order of equals), for any number of keywords.
THEOREM OrderDecidesNothing == DemoSpec => []OrderIsIrrelevant
<1>1. DemoInv => OrderIsIrrelevant
  <2> SUFFICES ASSUME DemoInv, NEW f \in SetToSeqs(ToSet(records))
               PROVE  Clusters(f) = Clusters(records)
    BY DEF OrderIsIrrelevant
  <2>1. Listed(records) /\ Listed(f) /\ ToSet(f) = ToSet(records)
    BY AnotherListing DEF DemoInv, IInv
  <2> DEFINE keys == {Key(r) : r \in ToSet(records)}
  <2>2. DOMAIN Clusters(f) = keys /\ DOMAIN Clusters(records) = keys
    BY <2>1 DEF Clusters
  <2>3. ASSUME NEW key \in keys PROVE Clusters(f)[key] = Clusters(records)[key]
    <3> DEFINE m == Members(f, key)
               n == Members(records, key)
    <3>1. /\ Listed(m) /\ Len(m) > 0 /\ ToSet(m) = {r \in ToSet(f) : Key(r) = key}
          /\ Clusters(f)[key] = [head |-> _pick_head(m), members |-> ToSet(m),
                                 decided_by |-> head_decided_by(m, _pick_head(m))]
      BY <2>1, ClusterOfKey
    <3>2. /\ Listed(n) /\ ToSet(n) = {r \in ToSet(records) : Key(r) = key}
          /\ Clusters(records)[key] = [head |-> _pick_head(n), members |-> ToSet(n),
                                       decided_by |-> head_decided_by(n, _pick_head(n))]
      BY <2>1, ClusterOfKey
    <3> HIDE DEF m, n
    <3>3. ToSet(m) = ToSet(n)
      BY <2>1, <3>1, <3>2
    <3>4. _pick_head(m) = _pick_head(n) /\ head_decided_by(m, _pick_head(m)) = head_decided_by(n, _pick_head(n))
      BY <3>1, <3>2, <3>3, HeadOfSet
    <3> QED
      BY <3>1, <3>2, <3>3, <3>4
  <2>4. Clusters(f) = [key \in keys |-> Clusters(f)[key]] /\ Clusters(records) = [key \in keys |-> Clusters(records)[key]]
    BY <2>1 DEF Clusters
  <2> HIDE DEF keys
  <2>5. [key \in keys |-> Clusters(f)[key]] = [key \in keys |-> Clusters(records)[key]]
    BY <2>3
  <2> QED
    BY <2>4, <2>5, Zenon
<1> QED
  BY <1>1, Invariance, PTL
-----------------------------------------------------------------------------
(***************************************************************************)
(* The scan for intent markers.                                             *)
(***************************************************************************)
LEMMA MarkerTokens ==
  ASSUME NEW m \in ToSet(Markers)
  PROVE  /\ m.tokens \in Seq(ToSet(m.tokens)) /\ Len(m.tokens) \in Nat /\ Len(m.tokens) > 0
         /\ DOMAIN m.tokens = 1..Len(m.tokens) /\ m.intent \in ToSet(_INTENT_PRIORITY)
<1>1. \A i \in DOMAIN Markers :
        /\ Markers[i].tokens \in Seq(ToSet(Markers[i].tokens)) /\ Len(Markers[i].tokens) > 0
        /\ Markers[i].intent \in ToSet(_INTENT_PRIORITY)
  BY KeywordAssumption
<1>2. PICK i \in DOMAIN Markers : Markers[i] = m
  BY DEF ToSet
<1>3. /\ m.tokens \in Seq(ToSet(m.tokens)) /\ Len(m.tokens) > 0 /\ m.intent \in ToSet(_INTENT_PRIORITY)
  BY <1>1, <1>2
<1> QED
  BY <1>3, LenProperties

\* Some marker is the longest of those that stand at a token.
LEMMA LongestMarker ==
  ASSUME NEW text, text \in Seq(ToSet(text)), NEW i \in 1..Len(text), MarkersAt(text, i) # {}
  PROVE  LET m == LongestOf(MarkersAt(text, i))
         IN  /\ m \in ToSet(Markers) /\ Matches(text, i, m) /\ Len(m.tokens) \in Nat \ {0}
             /\ i + Len(m.tokens) \in i + 1..Len(text) + 1
             /\ \A n \in MarkersAt(text, i) : Len(n.tokens) <= Len(m.tokens)
<1> DEFINE M == MarkersAt(text, i)
           T == {Len(text) - Len(n.tokens) : n \in M}
<1>1. \A n \in M : /\ n \in ToSet(Markers) /\ Matches(text, i, n)
                   /\ Len(n.tokens) \in Nat \ {0} /\ i + Len(n.tokens) - 1 <= Len(text)
  BY MarkerTokens DEF MarkersAt, Matches
<1>2. Len(text) \in Nat
  BY LenProperties
<1> HIDE DEF M
<1>3. T \subseteq Nat /\ T # {}
  BY <1>1, <1>2 DEF M
<1> HIDE DEF T
<1>4. PICK l \in T : \A k \in T : l <= k
  BY <1>3, Smallest
<1>5. PICK m \in M : l = Len(text) - Len(m.tokens)
  BY DEF T
<1>6. \A n \in M : Len(n.tokens) <= Len(m.tokens)
  <2> SUFFICES ASSUME NEW n \in M PROVE Len(n.tokens) <= Len(m.tokens)
    OBVIOUS
  <2>1. l <= Len(text) - Len(n.tokens)
    BY <1>4 DEF T
  <2> QED
    BY <1>1, <1>2, <1>5, <2>1
<1>7. LongestOf(M) \in M /\ \A n \in M : Len(n.tokens) <= Len(LongestOf(M).tokens)
  BY <1>6, Zenon DEF LongestOf
<1> DEFINE g == LongestOf(M)
<1> HIDE DEF g
<1>8. /\ g \in ToSet(Markers) /\ Matches(text, i, g) /\ Len(g.tokens) \in Nat \ {0}
      /\ i + Len(g.tokens) - 1 <= Len(text)
  BY <1>1, <1>7 DEF g
<1>9. i + Len(g.tokens) \in i + 1..Len(text) + 1
  BY <1>2, <1>8
<1> QED
  BY <1>7, <1>8, <1>9 DEF g, M

\* What the scan finds from token i on, by what it finds further on.
ScanStep(text, from, i) ==
  IF i > Len(text) THEN <<>>
  ELSE IF MarkersAt(text, i) = {} THEN from[i + 1]
  ELSE LET m == LongestOf(MarkersAt(text, i))
       IN  <<[start |-> i, marker |-> m]>> \o from[i + Len(m.tokens)]

ScannedFrom(text, k, f) ==
  DOMAIN f = k..Len(text) + 1 /\ \A i \in k..Len(text) + 1 : f[i] = ScanStep(text, f, i)

LEMMA ScanStepReads ==
  ASSUME NEW text, text \in Seq(ToSet(text)), NEW i \in 1..Len(text) + 1, NEW f, NEW g,
         \A j \in i + 1..Len(text) + 1 : f[j] = g[j]
  PROVE  ScanStep(text, f, i) = ScanStep(text, g, i)
<1>1. Len(text) \in Nat
  BY LenProperties
<1>2. CASE i > Len(text)
  BY <1>2 DEF ScanStep
<1>3. CASE ~(i > Len(text)) /\ MarkersAt(text, i) = {}
  <2>1. i + 1 \in i + 1..Len(text) + 1
    BY <1>1, <1>3
  <2>2. f[i + 1] = g[i + 1]
    BY <2>1
  <2> QED
    BY <1>3, <2>2 DEF ScanStep
<1>4. CASE ~(i > Len(text)) /\ MarkersAt(text, i) # {}
  <2> DEFINE m == LongestOf(MarkersAt(text, i))
  <2>1. i \in 1..Len(text)
    BY <1>1, <1>4
  <2>2. i + Len(m.tokens) \in i + 1..Len(text) + 1
    BY <1>4, <2>1, LongestMarker
  <2>3. f[i + Len(m.tokens)] = g[i + Len(m.tokens)]
    BY <2>2
  <2> QED
    BY <1>4, <2>3 DEF ScanStep
<1> QED
  BY <1>2, <1>3, <1>4

\* The scan is well defined: each step looks further on.
LEMMA ScanExists ==
  ASSUME NEW text, text \in Seq(ToSet(text))
  PROVE  \E f : ScannedFrom(text, 1, f) /\ _find_intent_markers(text) = f[1]
<1> DEFINE L == Len(text) + 1
           Bad == {d \in 0..Len(text) : ~\E f : ScannedFrom(text, L - d, f)}
<1>1. Len(text) \in Nat /\ L \in Nat /\ L - 1 = Len(text) /\ L - Len(text) = 1
  BY LenProperties
<1>2. Bad = {}
  <2> SUFFICES ASSUME Bad # {} PROVE FALSE
    OBVIOUS
  <2>1. PICK d \in Bad : \A e \in Bad : d <= e
    <3>1. Bad \subseteq Nat
      BY <1>1
    <3> HIDE DEF Bad
    <3> QED
      BY <3>1, Smallest
  <2>2. d \in Nat /\ d \in 0..Len(text) /\ ~\E f : ScannedFrom(text, L - d, f)
    BY <1>1
  <2>3. CASE d = 0
    <3> DEFINE g == [i \in L..L |-> <<>>]
    <3> HIDE DEF Bad
    <3>1. ScannedFrom(text, L, g)
      <4>1. \A i \in L..L : i > Len(text)
        BY <1>1
      <4>2. \A i \in L..L : ScanStep(text, g, i) = <<>>
        BY <4>1 DEF ScanStep
      <4> QED
        BY <4>2, Zenon DEF ScannedFrom
    <3>2. L - d = L
      BY <1>1, <2>3
    <3> QED
      BY <2>2, <3>1, <3>2
  <2>4. CASE d # 0
    <3> DEFINE k == L - d
    <3>1. d - 1 \in 0..Len(text) /\ d - 1 \notin Bad /\ L - (d - 1) = k + 1 /\ k \in 1..Len(text)
      BY <1>1, <2>1, <2>2, <2>4
    <3>2. PICK f : ScannedFrom(text, k + 1, f)
      BY <3>1
    <3> DEFINE g == [i \in k..L |-> IF i = k THEN ScanStep(text, f, k) ELSE f[i]]
    <3> HIDE DEF k, Bad
    <3>3. \A i \in k..L : i \in 1..L /\ (i = k \/ i \in k + 1..L)
      BY <1>1, <3>1
    <3>4. \A j \in k + 1..L : f[j] = g[j]
      BY <1>1, <3>1
    <3>5. \A i \in k..L : \A j \in i + 1..L : f[j] = g[j]
      <4>1. \A i \in k..L : \A j \in i + 1..L : j \in k + 1..L
        BY <1>1, <3>1
      <4> QED
        BY <3>4, <4>1
    <3> HIDE DEF g
    <3>6. \A i \in k..L : ScanStep(text, f, i) = ScanStep(text, g, i)
      BY <3>3, <3>5, ScanStepReads
    <3>7. \A i \in k..L : g[i] = ScanStep(text, f, i)
      <4> SUFFICES ASSUME NEW i \in k..L PROVE g[i] = ScanStep(text, f, i)
        OBVIOUS
      <4>1. CASE i = k
        BY <4>1 DEF g
      <4>2. CASE i # k
        <5>1. i \in k + 1..L
          BY <3>3, <4>2
        <5> QED
          BY <3>2, <3>4, <5>1 DEF ScannedFrom
      <4> QED
        BY <4>1, <4>2
    <3>8. ScannedFrom(text, k, g)
      BY <3>6, <3>7 DEF ScannedFrom, g
    <3> QED
      BY <2>2, <3>8 DEF k
  <2> QED
    BY <2>3, <2>4
<1>3. PICK f : ScannedFrom(text, 1, f)
  BY <1>1, <1>2
<1> DEFINE g == [i \in 1..L |-> f[i]]
<1>4. g = [i \in 1..L |-> ScanStep(text, g, i)]
  <2>1. \A i \in 1..L : \A j \in i + 1..L : f[j] = g[j]
    BY <1>1
  <2>2. \A i \in 1..L : g[i] = ScanStep(text, f, i)
    BY <1>3 DEF ScannedFrom
  <2> HIDE DEF g
  <2>3. \A i \in 1..L : ScanStep(text, f, i) = ScanStep(text, g, i)
    BY <2>1, ScanStepReads
  <2>4. [i \in 1..L |-> g[i]] = [i \in 1..L |-> ScanStep(text, g, i)]
    BY <2>2, <2>3
  <2> QED
    BY <2>4 DEF g
<1>5. _find_intent_markers(text) = (CHOOSE h : h = [i \in 1..L |-> ScanStep(text, h, i)])[1]
  BY Zenon DEF _find_intent_markers, ScanStep
<1> DEFINE F == CHOOSE h : h = [i \in 1..L |-> ScanStep(text, h, i)]
<1> HIDE DEF g
<1>6. F = [i \in 1..L |-> ScanStep(text, F, i)]
  BY <1>4, Zenon
<1> HIDE DEF F
<1>7. ScannedFrom(text, 1, F)
  <2>1. DOMAIN F = 1..L
    BY <1>6
  <2>2. \A i \in 1..L : F[i] = ScanStep(text, F, i)
    BY <1>6
  <2> QED
    BY <2>1, <2>2 DEF ScannedFrom
<1> QED
  BY <1>5, <1>7 DEF F

\* What the scan has found from token k on: markers that stand there, the longest at each
\* place, apart from each other, and no place passed over.
Tiled(text, k, fired) ==
  /\ fired \in Seq([start : k..Len(text), marker : ToSet(Markers)])
  /\ \A n \in DOMAIN fired :
       /\ Matches(text, fired[n].start, fired[n].marker)
       /\ \A m \in MarkersAt(text, fired[n].start) : Len(m.tokens) <= Len(fired[n].marker.tokens)
  /\ \A n, l \in DOMAIN fired : n # l => Span(fired[n]) \cap Span(fired[l]) = {}
  /\ \A i \in k..Len(text) : MarkersAt(text, i) # {} => \E n \in DOMAIN fired : i \in Span(fired[n])

\* A list with one more before it.
LEMMA OneBefore ==
  ASSUME NEW S, NEW x \in S, NEW s \in Seq(S)
  PROVE  /\ <<x>> \o s \in Seq(S) /\ DOMAIN (<<x>> \o s) = 1..Len(s) + 1 /\ Len(s) \in Nat
         /\ (<<x>> \o s)[1] = x
         /\ \A n \in 1..Len(s) + 1 : n # 1 => n - 1 \in DOMAIN s /\ (<<x>> \o s)[n] = s[n - 1]
         /\ \A n \in DOMAIN s : n + 1 \in 1..Len(s) + 1 /\ (<<x>> \o s)[n + 1] = s[n]
<1> DEFINE one == <<x>>
           t == one \o s
<1>1. one \in Seq(S) /\ Len(one) = 1 /\ one[1] = x
  OBVIOUS
<1> HIDE DEF one
<1>2. /\ t \in Seq(S) /\ Len(t) = 1 + Len(s) /\ Len(s) \in Nat
      /\ \A n \in 1..1 + Len(s) : t[n] = IF n <= 1 THEN one[n] ELSE s[n - 1]
  <2>1. /\ t \in Seq(S) /\ Len(t) = Len(one) + Len(s)
        /\ \A n \in 1..Len(one) + Len(s) : t[n] = IF n <= Len(one) THEN one[n] ELSE s[n - Len(one)]
    BY <1>1, ConcatProperties
  <2> QED
    BY <1>1, <2>1, LenProperties
<1>3. DOMAIN t = 1..Len(s) + 1 /\ DOMAIN s = 1..Len(s)
  BY <1>2
<1> HIDE DEF t
<1>4. t[1] = x
  BY <1>1, <1>2
<1>5. \A n \in 1..Len(s) + 1 : n # 1 => n - 1 \in DOMAIN s /\ t[n] = s[n - 1]
  BY <1>2, <1>3
<1>6. \A n \in DOMAIN s : n + 1 \in 1..Len(s) + 1 /\ t[n + 1] = s[n]
  BY <1>2, <1>3
<1> QED
  BY <1>2, <1>3, <1>4, <1>5, <1>6 DEF t, one

\* A marker at token i, before what is found behind it.
LEMMA TileNext ==
  ASSUME NEW text, text \in Seq(ToSet(text)), NEW i \in 1..Len(text), MarkersAt(text, i) # {}, NEW fired,
         Tiled(text, i + Len(LongestOf(MarkersAt(text, i)).tokens), fired)
  PROVE  Tiled(text, i, <<[start |-> i, marker |-> LongestOf(MarkersAt(text, i))]>> \o fired)
<1> DEFINE m == LongestOf(MarkersAt(text, i))
           e == i + Len(m.tokens)
           x == [start |-> i, marker |-> m]
           both == <<x>> \o fired
           S == [start : i..Len(text), marker : ToSet(Markers)]
<1>1. /\ m \in ToSet(Markers) /\ Matches(text, i, m) /\ Len(m.tokens) \in Nat \ {0}
      /\ e \in i + 1..Len(text) + 1
      /\ \A n \in MarkersAt(text, i) : Len(n.tokens) <= Len(m.tokens)
  BY LongestMarker
<1>2. Len(text) \in Nat /\ i \in Nat /\ e \in Nat /\ i < e
  BY <1>1, LenProperties
<1> HIDE DEF m
<1>3. Span(x) = i..e - 1
  BY DEF Span
<1>4. x \in S /\ x.start = i /\ x.marker = m
  BY <1>1, <1>2
<1>5. Tiled(text, e, fired)
  BY DEF m
<1> HIDE DEF e
<1>6. /\ fired \in Seq([start : e..Len(text), marker : ToSet(Markers)])
      /\ \A n \in DOMAIN fired : fired[n] \in [start : e..Len(text), marker : ToSet(Markers)]
  <2> DEFINE T == [start : e..Len(text), marker : ToSet(Markers)]
  <2>1. fired \in Seq(T)
    BY <1>5, Zenon DEF Tiled
  <2> HIDE DEF T
  <2>2. \A n \in DOMAIN fired : fired[n] \in T
    BY <2>1
  <2> QED
    BY <2>1, <2>2 DEF T
<1>7. [start : e..Len(text), marker : ToSet(Markers)] \subseteq S
  BY <1>2
<1> HIDE DEF S, x
<1>8. fired \in Seq(S)
  BY <1>6, <1>7
<1>9. /\ both \in Seq(S) /\ DOMAIN both = 1..Len(fired) + 1 /\ both[1] = x /\ Len(fired) \in Nat
      /\ \A n \in 1..Len(fired) + 1 : n # 1 => n - 1 \in DOMAIN fired /\ both[n] = fired[n - 1]
      /\ \A n \in DOMAIN fired : n + 1 \in 1..Len(fired) + 1 /\ both[n + 1] = fired[n]
  BY <1>4, <1>8, OneBefore
<1> HIDE DEF both
<1>10. \A n \in DOMAIN both : /\ Matches(text, both[n].start, both[n].marker)
                              /\ \A k \in MarkersAt(text, both[n].start) : Len(k.tokens) <= Len(both[n].marker.tokens)
  <2> SUFFICES ASSUME NEW n \in DOMAIN both
               PROVE  /\ Matches(text, both[n].start, both[n].marker)
                      /\ \A k \in MarkersAt(text, both[n].start) : Len(k.tokens) <= Len(both[n].marker.tokens)
    OBVIOUS
  <2>1. CASE n = 1
    BY <1>1, <1>4, <1>9, <2>1
  <2>2. CASE n # 1
    BY <1>5, <1>9, <2>2 DEF Tiled
  <2> QED
    BY <2>1, <2>2
<1>11. \A n \in DOMAIN fired : Span(fired[n]) \cap Span(x) = {}
  <2> SUFFICES ASSUME NEW n \in DOMAIN fired PROVE Span(fired[n]) \cap Span(x) = {}
    OBVIOUS
  <2>1. fired[n].start \in e..Len(text)
    BY <1>6
  <2>2. \A j \in Span(fired[n]) : j >= fired[n].start
    BY DEF Span
  <2> QED
    BY <1>2, <1>3, <2>1, <2>2
<1>12. ASSUME NEW n \in DOMAIN both, NEW l \in DOMAIN both, n # l
       PROVE  Span(both[n]) \cap Span(both[l]) = {}
  <2>1. CASE n # 1 /\ l # 1
    <3>1. n - 1 \in DOMAIN fired /\ l - 1 \in DOMAIN fired /\ n - 1 # l - 1
      BY <1>9, <1>12, <2>1
    <3>2. both[n] = fired[n - 1] /\ both[l] = fired[l - 1]
      BY <1>9, <2>1
    <3> QED
      BY <1>5, <3>1, <3>2 DEF Tiled
  <2>2. CASE n = 1 \/ l = 1
    BY <1>9, <1>11, <1>12, <2>2
  <2> QED
    BY <2>1, <2>2
<1>13. ASSUME NEW j \in i..Len(text), MarkersAt(text, j) # {}
       PROVE  \E n \in DOMAIN both : j \in Span(both[n])
  <2>1. CASE j < e
    <3>1. j \in Span(x) /\ 1 \in DOMAIN both
      BY <1>2, <1>3, <1>9, <2>1
    <3> QED
      BY <1>9, <3>1
  <2>2. CASE ~(j < e)
    <3>1. j \in e..Len(text)
      BY <1>2, <2>2
    <3>2. PICK n \in DOMAIN fired : j \in Span(fired[n])
      BY <1>5, <1>13, <3>1 DEF Tiled
    <3> QED
      BY <1>9, <3>2
  <2> QED
    BY <2>1, <2>2
<1>14. Tiled(text, i, both)
  BY <1>9, <1>10, <1>12, <1>13 DEF Tiled, S
<1> QED
  BY <1>14 DEF both, x, m

\* The scan tiles the text.
LEMMA ScanTiles ==
  ASSUME NEW text, text \in Seq(ToSet(text))
  PROVE  Tiled(text, 1, _find_intent_markers(text))
<1> DEFINE L == Len(text) + 1
<1>1. Len(text) \in Nat /\ L \in Nat /\ L - 1 = Len(text) /\ L - Len(text) = 1
  BY LenProperties
<1>2. PICK f : ScannedFrom(text, 1, f) /\ _find_intent_markers(text) = f[1]
  BY ScanExists
<1> DEFINE Bad == {d \in 0..Len(text) : ~Tiled(text, L - d, f[L - d])}
<1>3. Bad = {}
  <2> SUFFICES ASSUME Bad # {} PROVE FALSE
    OBVIOUS
  <2>1. PICK d \in Bad : \A c \in Bad : d <= c
    <3>1. Bad \subseteq Nat
      BY <1>1
    <3> HIDE DEF Bad
    <3> QED
      BY <3>1, Smallest
  <2>2. d \in Nat /\ d \in 0..Len(text) /\ ~Tiled(text, L - d, f[L - d])
    BY <1>1
  <2> DEFINE i == L - d
  <2>3. i \in 1..L /\ f[i] = ScanStep(text, f, i)
    <3>1. i \in 1..L
      BY <1>1, <2>2
    <3> HIDE DEF i, Bad
    <3> QED
      BY <1>2, <3>1 DEF ScannedFrom
  <2>4. \A k \in i + 1..L : Tiled(text, k, f[k])
    <3> SUFFICES ASSUME NEW k \in i + 1..L PROVE Tiled(text, k, f[k])
      OBVIOUS
    <3>1. L - k \in 0..Len(text) /\ L - (L - k) = k /\ L - k < d
      BY <1>1, <2>2
    <3>2. L - k \notin Bad
      BY <1>1, <2>1, <2>2, <3>1
    <3> QED
      BY <3>1, <3>2
  <2>5. ~Tiled(text, i, f[i])
    BY <2>2
  <2> HIDE DEF i, Bad
  <2>6. CASE i > Len(text)
    <3>1. f[i] = <<>>
      BY <2>3, <2>6 DEF ScanStep
    <3>2. i..Len(text) = {}
      BY <1>1, <2>3, <2>6
    <3>3. Tiled(text, i, <<>>)
      BY <3>2 DEF Tiled
    <3> QED
      BY <2>5, <3>1, <3>3
  <2>7. CASE ~(i > Len(text)) /\ MarkersAt(text, i) = {}
    <3>1. f[i] = f[i + 1]
      BY <2>3, <2>7 DEF ScanStep
    <3>2. i + 1 \in i + 1..L
      BY <1>1, <2>3, <2>7
    <3>3. Tiled(text, i + 1, f[i])
      BY <2>4, <3>1, <3>2
    <3>4. [start : i + 1..Len(text), marker : ToSet(Markers)] \subseteq [start : i..Len(text), marker : ToSet(Markers)]
      BY <1>1, <2>3
    <3>5. f[i] \in Seq([start : i..Len(text), marker : ToSet(Markers)])
      <4> DEFINE T == [start : i + 1..Len(text), marker : ToSet(Markers)]
                 U == [start : i..Len(text), marker : ToSet(Markers)]
      <4>1. f[i] \in Seq(T)
        BY <3>3, Zenon DEF Tiled
      <4>2. T \subseteq U
        BY <3>4
      <4> HIDE DEF T, U
      <4>3. f[i] \in Seq(U)
        BY <4>1, <4>2
      <4> QED
        BY <4>3 DEF U
    <3>6. \A j \in i..Len(text) : j = i \/ j \in i + 1..Len(text)
      BY <1>1, <2>3
    <3>7. Tiled(text, i, f[i])
      BY <2>7, <3>3, <3>5, <3>6 DEF Tiled
    <3> QED
      BY <2>5, <3>7
  <2>8. CASE ~(i > Len(text)) /\ MarkersAt(text, i) # {}
    <3> DEFINE m == LongestOf(MarkersAt(text, i))
    <3>1. i \in 1..Len(text)
      BY <1>1, <2>3, <2>8
    <3>2. f[i] = <<[start |-> i, marker |-> m]>> \o f[i + Len(m.tokens)]
      BY <2>3, <2>8 DEF ScanStep
    <3>3. i + Len(m.tokens) \in i + 1..L
      BY <2>8, <3>1, LongestMarker
    <3>4. Tiled(text, i + Len(m.tokens), f[i + Len(m.tokens)])
      BY <2>4, <3>3
    <3>5. Tiled(text, i, <<[start |-> i, marker |-> m]>> \o f[i + Len(m.tokens)])
      BY <2>8, <3>1, <3>4, TileNext
    <3> QED
      BY <2>5, <3>2, <3>5
  <2> QED
    BY <2>6, <2>7, <2>8
<1>4. Tiled(text, L - Len(text), f[L - Len(text)])
  BY <1>1, <1>3
<1> QED
  BY <1>1, <1>2, <1>4

\* The markers found in a text do not overlap, are each the longest of the catalog that stands
\* where they begin, and leave no place at which one stands uncovered (_find_intent_markers),
\* for any texts and catalog.
THEOREM ScanIsATiling == DemoSpec => []MarkersTile
<1>1. DemoInv => MarkersTile
  <2> SUFFICES ASSUME DemoInv, NEW r \in ToSet(records)
               PROVE  /\ \A f, g \in ToSet(r.markers) : f # g => Span(f) \cap Span(g) = {}
                      /\ \A f \in ToSet(r.markers) :
                           /\ Matches(r.text, f.start, f.marker)
                           /\ \A m \in MarkersAt(r.text, f.start) : Len(m.tokens) <= Len(f.marker.tokens)
                      /\ \A i \in DOMAIN r.text :
                           MarkersAt(r.text, i) # {} => \E f \in ToSet(r.markers) : i \in Span(f)
    BY DEF MarkersTile
  <2> DEFINE text == r.text
             fired == r.markers
  <2>1. text \in Seq(ToSet(text)) /\ fired = _find_intent_markers(text)
    BY DEF DemoInv, IInv, Listed, Recorded
  <2> HIDE DEF text, fired
  <2>2. Tiled(text, 1, fired)
    BY <2>1, ScanTiles
  <2>3. \A f \in ToSet(fired) : \E n \in DOMAIN fired : f = fired[n]
    BY DEF ToSet
  <2>4. \A n \in DOMAIN fired : fired[n] \in ToSet(fired)
    BY DEF ToSet
  <2>5. DOMAIN text = 1..Len(text)
    BY <2>1
  <2>6. \A f, g \in ToSet(fired) : f # g => Span(f) \cap Span(g) = {}
    <3> SUFFICES ASSUME NEW f \in ToSet(fired), NEW g \in ToSet(fired), f # g
                 PROVE  Span(f) \cap Span(g) = {}
      OBVIOUS
    <3>1. PICK n \in DOMAIN fired : f = fired[n]
      BY <2>3
    <3>2. PICK l \in DOMAIN fired : g = fired[l]
      BY <2>3
    <3> QED
      BY <2>2, <3>1, <3>2 DEF Tiled
  <2>7. \A f \in ToSet(fired) :
          /\ Matches(text, f.start, f.marker)
          /\ \A m \in MarkersAt(text, f.start) : Len(m.tokens) <= Len(f.marker.tokens)
    BY <2>2, <2>3 DEF Tiled
  <2>8. \A i \in DOMAIN text : MarkersAt(text, i) # {} => \E f \in ToSet(fired) : i \in Span(f)
    BY <2>2, <2>4, <2>5 DEF Tiled
  <2> QED
    BY <2>6, <2>7, <2>8 DEF text, fired
<1> QED
  BY <1>1, Invariance, PTL

-----------------------------------------------------------------------------
(***************************************************************************)
(* The topic core.                                                          *)
(***************************************************************************)

\* The places of a text that count.
Content(text) == {i \in DOMAIN text : text[i] \notin Stopwords}

\* A list is made, one for one, of what stands at some places of a text.
MadeOf(list, text, P, at) == at \in Bijection(DOMAIN list, P) /\ \A j \in DOMAIN list : list[j] = text[at[j]]

\* The content of a marker is, one for one, the content of the text it covers.
LEMMA MarkerPlaces ==
  ASSUME NEW text, text \in Seq(ToSet(text)), NEW f, f.start \in 1..Len(text),
         f.marker \in ToSet(Markers), Matches(text, f.start, f.marker)
  PROVE  LET list == content_tokens(f.marker.tokens)
         IN  /\ list \in Seq(ToSet(f.marker.tokens))
             /\ \E at : MadeOf(list, text, Content(text) \cap Span(f), at)
<1> DEFINE tokens == f.marker.tokens
           start == f.start
           n == Len(tokens)
           P == {i \in DOMAIN tokens : tokens[i] \notin Stopwords}
           R == Content(text) \cap Span(f)
           list == content_tokens(tokens)
<1>1. tokens \in Seq(ToSet(tokens)) /\ n \in Nat /\ DOMAIN tokens = 1..n
  BY MarkerTokens
<1>2. Len(text) \in Nat /\ DOMAIN text = 1..Len(text) /\ start \in Nat /\ start >= 1
  BY LenProperties
<1>3. start + n - 1 <= Len(text) /\ SubSeq(text, start, start + n - 1) = tokens
  BY DEF Matches
<1>4. P \subseteq DOMAIN tokens /\ list = Kept(tokens, P)
  BY DEF content_tokens
<1>5. Span(f) = start..start + n - 1
  BY DEF Span
<1> HIDE DEF tokens, start, n
<1>6. \A j \in 1..n : start + j - 1 \in DOMAIN text /\ text[start + j - 1] = tokens[j]
  <2> DEFINE e == start + n - 1
  <2>1. e \in Int /\ start \in Int /\ e - start + 1 = n
    BY <1>1, <1>2
  <2>2. \A i \in start..e : text[i] \in ToSet(text)
    <3>1. \A i \in start..e : i \in DOMAIN text
      BY <1>1, <1>2, <1>3
    <3> QED
      BY <3>1 DEF ToSet
  <2>3. SubSeq(text, start, e) = tokens
    BY <1>3
  <2> HIDE DEF e
  <2>4. \A j \in 1..e - start + 1 : SubSeq(text, start, e)[j] = text[start + j - 1]
    BY <2>1, <2>2, SubSeqProperties
  <2>5. \A j \in 1..n : text[start + j - 1] = tokens[j]
    BY <2>1, <2>3, <2>4
  <2>6. \A j \in 1..n : start + j - 1 \in DOMAIN text
    BY <1>1, <1>2, <1>3
  <2> QED
    BY <2>5, <2>6
<1> HIDE DEF list, P
<1>7. list \in Seq(ToSet(tokens))
  BY <1>1, <1>4, KeptPlaces
<1>8. PICK to \in Bijection(DOMAIN list, P) : \A j \in DOMAIN list : list[j] = tokens[to[j]]
  BY <1>1, <1>4, KeptPlaces
<1>9. /\ to \in [DOMAIN list -> P]
      /\ \A j, k \in DOMAIN list : to[j] = to[k] => j = k
      /\ \A i \in P : \E j \in DOMAIN list : to[j] = i
  BY DEF Bijection, Injection, Surjection, IsInjective
<1>10. \A i \in P : i \in 1..n /\ tokens[i] \notin Stopwords
  BY <1>1 DEF P
<1> DEFINE at == [j \in DOMAIN list |-> start + to[j] - 1]
<1>11. ASSUME NEW j \in DOMAIN list
       PROVE  at[j] \in R /\ list[j] = text[at[j]] /\ to[j] \in Nat /\ at[j] = start + to[j] - 1
  <2>1. to[j] \in 1..n /\ tokens[to[j]] \notin Stopwords /\ list[j] = tokens[to[j]]
    BY <1>8, <1>9, <1>10
  <2>2. start + to[j] - 1 \in DOMAIN text /\ text[start + to[j] - 1] = tokens[to[j]]
    BY <1>6, <2>1
  <2>3. start + to[j] - 1 \in Span(f)
    BY <1>1, <1>2, <1>5, <2>1
  <2> QED
    BY <2>1, <2>2, <2>3 DEF Content
<1>12. \A j, k \in DOMAIN list : at[j] = at[k] => j = k
  <2> SUFFICES ASSUME NEW j \in DOMAIN list, NEW k \in DOMAIN list, at[j] = at[k] PROVE j = k
    OBVIOUS
  <2>1. to[j] = to[k]
    BY <1>2, <1>11
  <2> QED
    BY <1>9, <2>1
<1>13. \A i \in R : \E j \in DOMAIN list : at[j] = i
  <2> SUFFICES ASSUME NEW i \in R PROVE \E j \in DOMAIN list : at[j] = i
    OBVIOUS
  <2> DEFINE l == i - start + 1
  <2>1. i \in start..start + n - 1 /\ text[i] \notin Stopwords
    BY <1>5 DEF Content
  <2>2. l \in 1..n /\ start + l - 1 = i
    BY <1>1, <1>2, <2>1
  <2> HIDE DEF l
  <2>3. l \in P
    BY <1>1, <1>6, <2>1, <2>2 DEF P
  <2>4. PICK j \in DOMAIN list : to[j] = l
    BY <1>9, <2>3
  <2> QED
    BY <1>11, <2>2, <2>4
<1>14. at \in [DOMAIN list -> R]
  BY <1>11
<1>15. at \in Bijection(DOMAIN list, R)
  <2> HIDE DEF at, R
  <2> QED
    BY <1>12, <1>13, <1>14 DEF Bijection, Injection, Surjection, IsInjective
<1>16. \A j \in DOMAIN list : list[j] = text[at[j]]
  BY <1>11
<1>17. MadeOf(list, text, R, at)
  BY <1>15, <1>16 DEF MadeOf
<1> QED
  BY <1>7, <1>17 DEF list, tokens, R

\* The places the fired markers cover.
Covered(fired) == UNION {Span(f) : f \in ToSet(fired)}

Surfaces(fired) == [k \in DOMAIN fired |-> content_tokens(fired[k].marker.tokens)]

\* The lists are made, one for one, of what stands at some places of a text.
AllMadeOf(lists, text, P, at) ==
  at \in Bijection(Places(lists), P) /\ \A p \in Places(lists) : lists[p[1]][p[2]] = text[at[p]]

\* The content of all fired markers is, one for one, the content they cover.
LEMMA SurfacePlaces ==
  ASSUME NEW text, text \in Seq(ToSet(text)), NEW fired, Tiled(text, 1, fired)
  PROVE  /\ \E U : Surfaces(fired) \in Seq(Seq(U))
         /\ \E at : AllMadeOf(Surfaces(fired), text, Content(text) \cap Covered(fired), at)
<1> DEFINE L == Surfaces(fired)
           U == UNION {ToSet(m.tokens) : m \in ToSet(Markers)}
           R(k) == Content(text) \cap Span(fired[k])
           to(k) == CHOOSE g : MadeOf(L[k], text, R(k), g)
           at == [p \in Places(L) |-> to(p[1])[p[2]]]
           All == Content(text) \cap Covered(fired)
<1>1. DOMAIN fired = 1..Len(fired) /\ Len(fired) \in Nat /\ DOMAIN L = DOMAIN fired
  <2>1. \E T : fired \in Seq(T)
    BY DEF Tiled
  <2> QED
    BY <2>1 DEF Surfaces
<1>2. ASSUME NEW k \in DOMAIN fired
      PROVE  /\ fired[k].start \in 1..Len(text) /\ fired[k].marker \in ToSet(Markers)
             /\ Matches(text, fired[k].start, fired[k].marker)
  <2> DEFINE T == [start : 1..Len(text), marker : ToSet(Markers)]
  <2>1. fired \in Seq(T)
    BY Zenon DEF Tiled
  <2> HIDE DEF T
  <2>2. fired[k] \in T
    BY <2>1
  <2> QED
    BY <2>2 DEF T, Tiled
<1>3. ASSUME NEW k \in DOMAIN fired
      PROVE  /\ L[k] \in Seq(U) /\ to(k) \in Bijection(DOMAIN L[k], R(k))
             /\ \A j \in DOMAIN L[k] : L[k][j] = text[to(k)[j]]
  <2>1. L[k] = content_tokens(fired[k].marker.tokens)
    BY DEF Surfaces
  <2>2. L[k] \in Seq(ToSet(fired[k].marker.tokens))
    BY <1>2, <2>1, MarkerPlaces
  <2>3. ToSet(fired[k].marker.tokens) \subseteq U
    BY <1>2
  <2>4. \E g : MadeOf(L[k], text, R(k), g)
    BY <1>2, <2>1, MarkerPlaces
  <2> HIDE DEF L, R, U
  <2>5. L[k] \in Seq(U)
    BY <2>2, <2>3
  <2>6. MadeOf(L[k], text, R(k), to(k))
    BY <2>4, Zenon
  <2> QED
    BY <2>5, <2>6 DEF MadeOf
<1>4. ASSUME NEW k \in DOMAIN fired
      PROVE  /\ \A j \in DOMAIN L[k] : to(k)[j] \in R(k) /\ L[k][j] = text[to(k)[j]]
             /\ \A j, l \in DOMAIN L[k] : to(k)[j] = to(k)[l] => j = l
             /\ \A i \in R(k) : \E j \in DOMAIN L[k] : to(k)[j] = i
  <2> HIDE DEF to, R, L
  <2> QED
    BY <1>3 DEF Bijection, Injection, Surjection, IsInjective
<1>5. \A k \in DOMAIN fired : \A i \in R(k) : i \in All /\ i \in Span(fired[k])
  BY DEF Covered, ToSet
<1>6. \A i \in All : \E k \in DOMAIN fired : i \in R(k)
  BY DEF Covered, ToSet
<1>7. \A k, l \in DOMAIN fired : k # l => Span(fired[k]) \cap Span(fired[l]) = {}
  BY DEF Tiled
<1> HIDE DEF R, to, L, All
<1>8. ASSUME NEW p \in Places(L)
      PROVE  /\ p = <<p[1], p[2]>> /\ p[1] \in DOMAIN fired /\ p[2] \in DOMAIN L[p[1]]
             /\ at[p] = to(p[1])[p[2]] /\ at[p] \in R(p[1]) /\ L[p[1]][p[2]] = text[at[p]]
  BY <1>1, <1>4, PlacesAre
<1> HIDE DEF at
<1>9. \A p, q \in Places(L) : at[p] = at[q] => p = q
  <2> SUFFICES ASSUME NEW p \in Places(L), NEW q \in Places(L), at[p] = at[q] PROVE p = q
    OBVIOUS
  <2>1. p[1] = q[1]
    BY <1>5, <1>7, <1>8
  <2>2. p[2] = q[2]
    BY <1>4, <1>8, <2>1
  <2> QED
    BY <1>8, <2>1, <2>2
<1>10. \A i \in All : \E p \in Places(L) : at[p] = i
  <2> SUFFICES ASSUME NEW i \in All PROVE \E p \in Places(L) : at[p] = i
    OBVIOUS
  <2>1. PICK k \in DOMAIN fired : i \in R(k)
    BY <1>6
  <2>2. PICK j \in DOMAIN L[k] : to(k)[j] = i
    BY <1>4, <2>1
  <2> DEFINE p == <<k, j>>
  <2>3. p \in Places(L) /\ p[1] = k /\ p[2] = j
    BY <1>1, PlacesAre
  <2> HIDE DEF p
  <2> QED
    BY <1>8, <2>2, <2>3
<1>11. at \in [Places(L) -> All]
  <2>1. \A p \in Places(L) : at[p] \in All
    BY <1>5, <1>8
  <2> QED
    BY <2>1 DEF at
<1>12. at \in Bijection(Places(L), All)
  BY <1>9, <1>10, <1>11 DEF Bijection, Injection, Surjection, IsInjective
<1>13. L \in Seq(Seq(U))
  <2> DEFINE V == Seq(U)
  <2>1. \A k \in 1..Len(fired) : L[k] \in V
    BY <1>1, <1>3
  <2>2. L = [k \in 1..Len(fired) |-> L[k]]
    BY <1>1 DEF L, Surfaces
  <2> HIDE DEF V
  <2>3. L \in Seq(V)
    BY <1>1, <2>1, <2>2
  <2> QED
    BY <2>3 DEF V
<1>14. AllMadeOf(L, text, All, at)
  BY <1>8, <1>12 DEF AllMadeOf
<1> QED
  BY <1>13, <1>14 DEF L, All

\* A list has what stands at some places of a text.
Counts(list, text, P) == \A x : Times(list, x) = Cardinality({i \in P : text[i] = x})

\* What the markers take from the content is what they cover of it.
LEMMA StrippedTimes ==
  ASSUME NEW text, text \in Seq(ToSet(text)), NEW fired, Tiled(text, 1, fired)
  PROVE  LET content == content_tokens(text)
             stripped == _strip_marker_tokens(content, fired)
         IN  /\ content \in Seq(ToSet(text)) /\ stripped \in Seq(ToSet(text))
             /\ Counts(content, text, Content(text))
             /\ Counts(stripped, text, Content(text) \ Covered(fired))
<1> DEFINE P == Content(text)
           C == Covered(fired)
           At(S, x) == {i \in S : text[i] = x}
           content == content_tokens(text)
           stripped == _strip_marker_tokens(content, fired)
           gone == Joined(Surfaces(fired))
<1>1. P \subseteq DOMAIN text /\ content = Kept(text, P)
  BY DEF content_tokens, Content
<1> HIDE DEF P
<1>2. content \in Seq(ToSet(text)) /\ IsFiniteSet(P)
  BY <1>1, KeptPlaces
<1>3. \A x : Times(content, x) = Cardinality(At(P, x)) /\ IsFiniteSet(At(P, x))
  BY <1>1, TimesKept
<1> HIDE DEF content
<1>4. PICK U : Surfaces(fired) \in Seq(Seq(U))
  BY SurfacePlaces
<1> DEFINE L == Surfaces(fired)
<1>5. PICK at : at \in Bijection(Places(L), P \cap C) /\ \A p \in Places(L) : L[p[1]][p[2]] = text[at[p]]
  BY SurfacePlaces DEF AllMadeOf, P
<1> HIDE DEF L, C
<1>6. gone \in Seq(U)
  BY <1>4, JoinedPlaces
<1>7. ASSUME NEW x PROVE Times(gone, x) = Cardinality(At(P \cap C, x))
  <2> DEFINE A == {p \in Places(L) : L[p[1]][p[2]] = x}
             B == At(P \cap C, x)
  <2>1. Times(gone, x) = Cardinality(A) /\ IsFiniteSet(Places(L))
    BY <1>4, TimesJoined DEF L
  <2>2. at \in [Places(L) -> P \cap C]
    BY <1>5 DEF Bijection, Injection
  <2>3. A \subseteq Places(L) /\ B \subseteq P \cap C /\ \A p \in Places(L) : p \in A <=> at[p] \in B
    BY <1>5, <2>2
  <2> HIDE DEF A, B
  <2>4. Cardinality(A) = Cardinality(B)
    BY <1>5, <2>1, <2>3, SameCount
  <2> QED
    BY <2>1, <2>4 DEF B
<1>8. ASSUME NEW x
      PROVE  /\ Cardinality(At(P \cap C, x)) <= Cardinality(At(P, x))
             /\ Cardinality(At(P \ C, x)) = Cardinality(At(P, x)) - Cardinality(At(P \cap C, x))
  <2> DEFINE A == At(P, x)
             B == At(P \cap C, x)
             D == At(P \ C, x)
  <2>1. IsFiniteSet(A) /\ B \subseteq A /\ D = A \ B
    BY <1>3
  <2> HIDE DEF A, B, D
  <2>2. IsFiniteSet(B) /\ Cardinality(B) <= Cardinality(A) /\ A \cap B = B
    BY <2>1, FS_Subset
  <2>3. Cardinality(D) = Cardinality(A) - Cardinality(A \cap B)
    BY <2>1, FS_Difference
  <2> QED
    BY <2>2, <2>3 DEF A, B, D
<1> HIDE DEF At
<1>9. \A x : Times(gone, x) <= Times(content, x)
  BY <1>3, <1>7, <1>8
<1>10. Len(gone) \in Nat
  BY <1>6, LenProperties
<1> HIDE DEF gone
<1> DEFINE f == CHOOSE h : Removing(content, gone, h)
<1>11. Removing(content, gone, f)
  BY <1>10, RemovalExists, Zenon
<1>12. stripped = f[Len(gone)]
  BY Zenon DEF _strip_marker_tokens, Surfaces, Removing, gone
<1> HIDE DEF f, stripped
<1>13. /\ stripped \in Seq(ToSet(text))
       /\ \A x : Times(stripped, x) = Times(content, x) - Times(gone, x)
  BY <1>2, <1>6, <1>9, <1>11, <1>12, RemovedTimes
<1>14. \A x : Times(stripped, x) = Cardinality(At(P \ C, x))
  BY <1>3, <1>7, <1>8, <1>13
<1>15. Counts(content, text, P) /\ Counts(stripped, text, P \ C)
  BY <1>3, <1>14 DEF At, Counts
<1> QED
  BY <1>2, <1>13, <1>15 DEF content, stripped, P, C

\* The topic core of a keyword is, up to its order, its content outside the fired markers, or all
\* of its content when only insufficient words stand there (_strip_marker_tokens and
\* topic_core_tokens_for), for any texts, stopwords and catalog.
THEOREM CoreStandsOutsideMarkers == DemoSpec => []CoreIsWhatMarkersLeave
<1>1. DemoInv => CoreIsWhatMarkersLeave
  <2> SUFFICES ASSUME DemoInv, NEW r \in ToSet(records)
               PROVE  LET covered == UNION {Span(f) : f \in ToSet(r.markers)}
                          content == {i \in DOMAIN r.text : r.text[i] \notin Stopwords}
                          left == content \ covered
                          core == IF \A i \in left : r.text[i] \in Insufficient THEN content ELSE left
                      IN  /\ left # {}
                          /\ \A t \in ToSet(r.text) \cup ToSet(r.core) :
                               Cardinality({i \in DOMAIN r.core : r.core[i] = t}) =
                                 Cardinality({i \in core : r.text[i] = t})
    BY DEF CoreIsWhatMarkersLeave
  <2> DEFINE text == r.text
             fired == r.markers
             content == content_tokens(text)
             stripped == _strip_marker_tokens(content, fired)
             P == Content(text)
             left == P \ Covered(fired)
             core == IF \A i \in left : text[i] \in Insufficient THEN P ELSE left
  <2>1. /\ text \in Seq(ToSet(text)) /\ fired = _find_intent_markers(text)
        /\ r.core = topic_core_tokens_for(text, fired) /\ r.core # <<>>
    BY DEF DemoInv, IInv, Listed, Recorded
  <2> HIDE DEF text, fired
  <2>2. Tiled(text, 1, fired)
    BY <2>1, ScanTiles
  <2>3. /\ content \in Seq(ToSet(text)) /\ stripped \in Seq(ToSet(text))
        /\ Counts(content, text, P) /\ Counts(stripped, text, left)
    BY <2>1, <2>2, StrippedTimes
  <2>4. r.core = IF _core_is_usable(stripped) \/ stripped = <<>> THEN stripped ELSE content
    BY <2>1 DEF topic_core_tokens_for
  <2> HIDE DEF content, stripped, P
  <2>5. IsFiniteSet(left)
    <3>1. P \subseteq DOMAIN text
      BY DEF P, Content
    <3>2. DOMAIN text = 1..Len(text) /\ Len(text) \in Nat
      BY <2>1, LenProperties
    <3>3. IsFiniteSet(DOMAIN text)
      BY <3>2, FS_Interval
    <3>4. left \subseteq DOMAIN text
      BY <3>1
    <3> HIDE DEF left
    <3> QED
      BY <3>3, <3>4, FS_Subset
  <2> HIDE DEF left
  <2>6. \A x : x \in ToSet(stripped) <=> \E i \in left : text[i] = x
    <3> SUFFICES ASSUME NEW x PROVE x \in ToSet(stripped) <=> \E i \in left : text[i] = x
      OBVIOUS
    <3> DEFINE A == {i \in left : text[i] = x}
    <3>1. Times(stripped, x) > 0 <=> \E i \in DOMAIN stripped : stripped[i] = x
      BY <2>3, TimesIsNat
    <3>2. IsFiniteSet(A)
      BY <2>5, FS_Subset
    <3>3. Times(stripped, x) = Cardinality(A)
      BY <2>3 DEF Counts
    <3>4. A # {} <=> \E i \in left : text[i] = x
      OBVIOUS
    <3> HIDE DEF A
    <3>5. Cardinality(A) \in Nat /\ (Cardinality(A) = 0 <=> A = {})
      BY <3>2, FS_CardinalityType, FS_EmptySet
    <3> QED
      BY <3>1, <3>3, <3>4, <3>5 DEF ToSet
  <2>7. stripped # <<>>
    BY <2>1, <2>4
  <2>8. left # {}
    <3>1. \E i \in DOMAIN stripped : stripped[i] \in ToSet(stripped)
      <4>1. 1 \in DOMAIN stripped
        BY <2>3, <2>7
      <4> QED
        BY <4>1 DEF ToSet
    <3> QED
      BY <2>6, <3>1
  <2>9. _core_is_usable(stripped) <=> ~\A i \in left : text[i] \in Insufficient
    BY <2>6 DEF _core_is_usable
  <2>10. r.core \in Seq(ToSet(text)) /\ Counts(r.core, text, core)
    <3>1. CASE _core_is_usable(stripped)
      <4>1. core = left /\ r.core = stripped
        BY <2>4, <2>9, <3>1
      <4> QED
        BY <2>3, <4>1
    <3>2. CASE ~_core_is_usable(stripped)
      <4>1. core = P /\ r.core = content
        BY <2>4, <2>7, <2>9, <3>2
      <4> QED
        BY <2>3, <4>1
    <3> QED
      BY <3>1, <3>2
  <2> HIDE DEF core
  <2>11. \A t : Cardinality({i \in DOMAIN r.core : r.core[i] = t}) = Cardinality({i \in core : text[i] = t})
    BY <2>10 DEF Counts, Times
  <2> QED
    BY <2>8, <2>11 DEF core, left, P, text, fired, Content, Covered
<1> QED
  BY <1>1, Invariance, PTL

-----------------------------------------------------------------------------
(***************************************************************************)
(* The page of the demo.                                                     *)
(***************************************************************************)
Intents == {"transactional", "commercial", "informational", "navigational", "unknown"}

\* Every intent has its place in the order of the page.
LEMMA RankOfIntent ==
  ASSUME NEW intent \in Intents
  PROVE  _INTENT_RANK(intent) \in Nat
<1>1. \E i \in 1..5 : _INTENT_ORDER[i] = intent
  <2>1. /\ _INTENT_ORDER[1] = "transactional" /\ _INTENT_ORDER[2] = "commercial"
        /\ _INTENT_ORDER[3] = "informational" /\ _INTENT_ORDER[4] = "navigational"
        /\ _INTENT_ORDER[5] = "unknown"
    BY DEF _INTENT_ORDER
  <2> QED
    BY <2>1 DEF Intents
<1>2. DOMAIN _INTENT_ORDER = 1..5
  BY DEF _INTENT_ORDER
<1>3. _INTENT_RANK(intent) \in DOMAIN _INTENT_ORDER
  BY <1>1, <1>2 DEF _INTENT_RANK
<1> QED
  BY <1>2, <1>3

LEMMA DetectedIntent ==
  ASSUME NEW text, text \in Seq(ToSet(text))
  PROVE  detect_search_intent(_find_intent_markers(text)) \in Intents
<1> DEFINE fired == _find_intent_markers(text)
           found == {f.marker.intent : f \in ToSet(fired)}
           P == {i \in DOMAIN _INTENT_PRIORITY : _INTENT_PRIORITY[i] \in found}
           categories == Kept(_INTENT_PRIORITY, P)
<1>1. found \subseteq ToSet(_INTENT_PRIORITY)
  <2> SUFFICES ASSUME NEW f \in ToSet(fired) PROVE f.marker.intent \in ToSet(_INTENT_PRIORITY)
    OBVIOUS
  <2> DEFINE T == [start : 1..Len(text), marker : ToSet(Markers)]
  <2>1. fired \in Seq(T)
    BY ScanTiles, Zenon DEF Tiled
  <2> HIDE DEF T, fired
  <2>2. f \in T
    BY <2>1 DEF ToSet
  <2>3. f.marker \in ToSet(Markers)
    BY <2>2 DEF T
  <2> QED
    BY <2>3, MarkerTokens
<1>2. _INTENT_PRIORITY \in Seq(Intents) /\ ToSet(_INTENT_PRIORITY) \subseteq Intents
  BY DEF _INTENT_PRIORITY, Intents, ToSet
<1>3. detect_search_intent(fired) =
        IF found = {} THEN "unknown"
        ELSE IF /\ {"informational", "transactional"} \subseteq found
                /\ Earliest(fired, "informational").start < Earliest(fired, "transactional").start
        THEN "informational"
        ELSE categories[1]
  BY DEF detect_search_intent
<1>4. P \subseteq DOMAIN _INTENT_PRIORITY /\ (found # {} => P # {})
  BY <1>1 DEF ToSet
<1> HIDE DEF P, found
<1>5. ASSUME P # {} PROVE categories[1] \in Intents
  <2>1. /\ categories \in Seq(Intents) /\ IsFiniteSet(P)
        /\ Len(categories) = Cardinality(P) /\ DOMAIN categories = 1..Len(categories)
    BY <1>2, <1>4, KeptPlaces
  <2>2. Cardinality(P) \in Nat /\ Cardinality(P) # 0
    BY <1>5, <2>1, FS_CardinalityType, FS_EmptySet
  <2> HIDE DEF categories
  <2>3. 1 \in DOMAIN categories
    BY <2>1, <2>2
  <2> QED
    BY <2>1, <2>3
<1> HIDE DEF fired, categories
<1>6. "unknown" \in Intents /\ "informational" \in Intents
  BY DEF Intents
<1>7. detect_search_intent(fired) \in Intents
  BY <1>3, <1>4, <1>5, <1>6
<1> QED
  BY <1>7 DEF fired

LEMMA KeysAreFinite ==
  ASSUME NEW rs, Listed(rs)
  PROVE  /\ DOMAIN Clusters(rs) = {Key(r) : r \in ToSet(rs)}
         /\ IsFiniteSet(ToSet(rs)) /\ IsFiniteSet(DOMAIN Clusters(rs))
<1> DEFINE rows == ToSet(rs)
           keys == DOMAIN Clusters(rs)
           by == [r \in rows |-> Key(r)]
<1>1. keys = {Key(r) : r \in rows}
  BY DEF Clusters
<1>2. rs \in Seq(rows)
  BY DEF Listed
<1>3. IsFiniteSet(rows)
  BY <1>2, RowsAreFinite
<1> HIDE DEF rows, keys
<1>4. by \in Surjection(rows, keys)
  BY <1>1 DEF Surjection
<1> HIDE DEF by
<1>5. IsFiniteSet(keys)
  BY <1>3, <1>4, FS_Surjection
<1> QED
  BY <1>1, <1>3, <1>5 DEF rows, keys

\* What a hub is made of.
HubFits(rs, fp) ==
  LET keys == {key \in DOMAIN Clusters(rs) : key.fingerprint = fp}
      topic == {i \in DOMAIN rs : rs[i].fingerprint = fp}
      hub == group_topic_hubs(Clusters(rs))[fp]
  IN  /\ \E i \in topic : hub.label = rs[i].core
      /\ hub.intent_count = Cardinality(keys)
      /\ hub.intent_count = Cardinality({rs[i].intent : i \in topic})
      /\ hub.keyword_count = Cardinality({r \in ToSet(rs) : r.fingerprint = fp})
      /\ hub.keyword_count = Cardinality(topic)

LEMMA HubOfTopic ==
  ASSUME NEW rs, Listed(rs), NEW fp \in {key.fingerprint : key \in DOMAIN Clusters(rs)}
  PROVE  HubFits(rs, fp)
<1> DEFINE cl == Clusters(rs)
           keys == {key \in DOMAIN cl : key.fingerprint = fp}
           topic == {i \in DOMAIN rs : rs[i].fingerprint = fp}
           rows == {r \in ToSet(rs) : r.fingerprint = fp}
           hub == group_topic_hubs(cl)[fp]
           first == CHOOSE k \in keys : \A l \in keys : _INTENT_RANK(k.intent) <= _INTENT_RANK(l.intent)
<1>1. /\ DOMAIN rs = 1..Len(rs) /\ Len(rs) \in Nat
      /\ \A i \in DOMAIN rs : rs[i] \in ToSet(rs) /\ Recorded(rs[i])
      /\ \A r, s \in ToSet(rs) : r.id = s.id => r = s
  BY ListedRecords
<1>2. DOMAIN cl = {Key(r) : r \in ToSet(rs)}
  BY DEF Clusters
<1>3. hub = [label |-> cl[first].head.core,
             intent_count |-> Cardinality({k.intent : k \in keys}),
             keyword_count |-> Cardinality(InClusters(cl, keys))]
  BY DEF group_topic_hubs
<1>4. \A k \in DOMAIN cl : /\ k = [fingerprint |-> k.fingerprint, intent |-> k.intent]
                           /\ cl[k].members = {r \in ToSet(rs) : Key(r) = k} /\ cl[k].head \in cl[k].members
  <2> SUFFICES ASSUME NEW k \in DOMAIN cl
               PROVE  /\ k = [fingerprint |-> k.fingerprint, intent |-> k.intent]
                      /\ cl[k].members = {r \in ToSet(rs) : Key(r) = k} /\ cl[k].head \in cl[k].members
    OBVIOUS
  <2> DEFINE m == Members(rs, k)
  <2>1. k \in {Key(r) : r \in ToSet(rs)}
    BY <1>2
  <2>2. /\ Listed(m) /\ Len(m) > 0 /\ ToSet(m) = {r \in ToSet(rs) : Key(r) = k}
        /\ cl[k] = [head |-> _pick_head(m), members |-> ToSet(m), decided_by |-> head_decided_by(m, _pick_head(m))]
    BY <2>1, ClusterOfKey
  <2> HIDE DEF m, cl
  <2>3. cl[k].head = _pick_head(m) /\ cl[k].members = ToSet(m)
    BY <2>2
  <2>4. _pick_head(m) \in ToSet(m)
    BY <2>2, HeadOfList DEF Heads
  <2>5. k = [fingerprint |-> k.fingerprint, intent |-> k.intent]
    BY <2>1 DEF Key
  <2> QED
    BY <2>2, <2>3, <2>4, <2>5
<1>5. \A r \in ToSet(rs) : /\ Key(r) \in DOMAIN cl /\ Key(r).fingerprint = r.fingerprint /\ Key(r).intent = r.intent
                           /\ r.intent \in Intents /\ keyword_fingerprint(r.core) = r.fingerprint
  <2> SUFFICES ASSUME NEW r \in ToSet(rs)
               PROVE  /\ Key(r) \in DOMAIN cl /\ Key(r).fingerprint = r.fingerprint /\ Key(r).intent = r.intent
                      /\ r.intent \in Intents /\ keyword_fingerprint(r.core) = r.fingerprint
    OBVIOUS
  <2>1. Recorded(r)
    BY DEF Listed
  <2>2. r.intent \in Intents
    BY <2>1, DetectedIntent DEF Recorded
  <2> QED
    BY <1>2, <2>1, <2>2 DEF Key, Recorded
<1>6. \A k \in DOMAIN cl : \E r \in ToSet(rs) : k = Key(r) /\ r \in cl[k].members
  BY <1>2, <1>4
<1> HIDE DEF cl
<1>7. \A k \in DOMAIN cl : k.intent \in Intents /\ _INTENT_RANK(k.intent) \in Nat
  BY <1>5, <1>6, RankOfIntent
<1>8. first \in keys
  <2> DEFINE ranks == {_INTENT_RANK(k.intent) : k \in keys}
  <2>1. ranks \subseteq Nat
    BY <1>7
  <2>2. ranks # {}
    BY DEF cl
  <2> HIDE DEF ranks
  <2>3. PICK n \in ranks : \A m \in ranks : n <= m
    BY <2>1, <2>2, Smallest
  <2>4. PICK k \in keys : n = _INTENT_RANK(k.intent)
    BY DEF ranks
  <2>5. \A l \in keys : _INTENT_RANK(k.intent) <= _INTENT_RANK(l.intent)
    BY <2>3, <2>4 DEF ranks
  <2> HIDE DEF keys
  <2> QED
    BY <2>5, Zenon
<1>9. \E i \in topic : hub.label = rs[i].core
  <2>1. first \in DOMAIN cl /\ first.fingerprint = fp
    BY <1>8
  <2> DEFINE h == cl[first].head
  <2>2. hub.label = h.core
    BY <1>3
  <2> HIDE DEF first, hub
  <2>3. h \in ToSet(rs) /\ Key(h) = first
    BY <1>4, <2>1
  <2> HIDE DEF h
  <2>4. PICK i \in DOMAIN rs : rs[i] = h
    BY <2>3 DEF ToSet
  <2>5. rs[i].fingerprint = fp
    BY <1>5, <2>1, <2>3, <2>4
  <2> QED
    BY <2>2, <2>4, <2>5
<1>10. {k.intent : k \in keys} = {rs[i].intent : i \in topic}
  <2>1. ASSUME NEW k \in keys PROVE \E i \in topic : rs[i].intent = k.intent
    <3>1. PICK r \in ToSet(rs) : k = Key(r)
      BY <1>6
    <3>2. PICK i \in DOMAIN rs : rs[i] = r
      BY DEF ToSet
    <3> QED
      BY <1>5, <3>1, <3>2
  <2>2. ASSUME NEW i \in topic PROVE \E k \in keys : k.intent = rs[i].intent
    <3>1. rs[i] \in ToSet(rs)
      BY <1>1
    <3> QED
      BY <1>5, <3>1
  <2> HIDE DEF keys, topic
  <2> QED
    BY <2>1, <2>2
<1>11. InClusters(cl, keys) = rows
  <2>1. ASSUME NEW k \in keys, NEW r \in cl[k].members PROVE r \in rows
    BY <1>4, <1>5, <2>1
  <2>2. ASSUME NEW r \in rows PROVE \E k \in keys : r \in cl[k].members
    BY <1>4, <1>5
  <2> HIDE DEF keys, rows
  <2> QED
    BY <2>1, <2>2 DEF InClusters
<1>12. IsFiniteSet(ToSet(rs)) /\ IsFiniteSet(DOMAIN rs)
  <2>1. rs \in Seq(ToSet(rs))
    BY DEF Listed
  <2>2. IsFiniteSet(ToSet(rs))
    BY <2>1, RowsAreFinite
  <2>3. IsFiniteSet(1..Len(rs))
    BY <1>1, FS_Interval
  <2> QED
    BY <1>1, <2>2, <2>3
<1>13. IsFiniteSet(DOMAIN cl)
  BY KeysAreFinite DEF cl
<1>14. Cardinality({k.intent : k \in keys}) = Cardinality(keys)
  <2> DEFINE T == {k.intent : k \in keys}
             at == [k \in keys |-> k.intent]
  <2>1. at \in Bijection(keys, T)
    <3>1. at \in [keys -> T] /\ \A t \in T : \E k \in keys : at[k] = t
      OBVIOUS
    <3>2. \A k, l \in keys : at[k] = at[l] => k = l
      BY <1>4
    <3> HIDE DEF at, keys, T
    <3> QED
      BY <3>1, <3>2 DEF Bijection, Injection, Surjection, IsInjective
  <2>2. IsFiniteSet(keys)
    BY <1>13, FS_Subset
  <2> HIDE DEF at, keys, T
  <2>3. ExistsBijection(keys, T)
    BY <2>1 DEF ExistsBijection
  <2>4. Cardinality(T) = Cardinality(keys)
    BY <2>2, <2>3, FS_Bijection
  <2> QED
    BY <2>4 DEF T
<1>15. Cardinality(topic) = Cardinality(rows)
  <2> DEFINE at == [i \in DOMAIN rs |-> rs[i]]
  <2>1. at \in Bijection(DOMAIN rs, ToSet(rs))
    <3>1. at \in [DOMAIN rs -> ToSet(rs)] /\ \A r \in ToSet(rs) : \E i \in DOMAIN rs : at[i] = r
      BY <1>1 DEF ToSet
    <3>2. \A i, j \in DOMAIN rs : at[i] = at[j] => i = j
      BY DEF Listed, IdsDiffer
    <3> HIDE DEF at
    <3> QED
      BY <3>1, <3>2 DEF Bijection, Injection, Surjection, IsInjective
  <2>2. topic \subseteq DOMAIN rs /\ rows \subseteq ToSet(rs) /\ \A i \in DOMAIN rs : i \in topic <=> at[i] \in rows
    BY <1>1
  <2> HIDE DEF at, topic, rows
  <2> QED
    BY <1>12, <2>1, <2>2, SameCount
<1>16. hub.intent_count = Cardinality({k.intent : k \in keys}) /\ hub.keyword_count = Cardinality(rows)
  <2> HIDE DEF hub, keys, rows, first
  <2>1. hub.intent_count = Cardinality({k.intent : k \in keys}) /\ hub.keyword_count = Cardinality(InClusters(cl, keys))
    BY <1>3
  <2> QED
    BY <1>11, <2>1
<1> HIDE DEF hub, keys, rows, topic
<1>17. /\ hub.intent_count = Cardinality(keys) /\ hub.intent_count = Cardinality({rs[i].intent : i \in topic})
       /\ hub.keyword_count = Cardinality(topic)
  BY <1>10, <1>14, <1>15, <1>16
<1> QED
  BY <1>9, <1>16, <1>17 DEF hub, keys, rows, topic, cl, HubFits

\* The numbers of the hubs, and of the intents, add up to those of rows and clusters.
LEMMA HubsAddUp ==
  ASSUME NEW rs, Listed(rs)
  PROVE  LET cl == Clusters(rs)
             hubs == group_topic_hubs(cl)
             distribution == [intent \in {key.intent : key \in DOMAIN cl} |->
                                Cardinality({key \in DOMAIN cl : key.intent = intent})]
         IN  /\ Total([fp \in DOMAIN hubs |-> hubs[fp].keyword_count]) = Len(rs)
             /\ Total([fp \in DOMAIN hubs |-> hubs[fp].intent_count]) = Cardinality(DOMAIN cl)
             /\ Total(distribution) = Cardinality(DOMAIN cl)
<1> DEFINE cl == Clusters(rs)
           keys == DOMAIN cl
           rows == ToSet(rs)
           hubs == group_topic_hubs(cl)
           X == {key.fingerprint : key \in keys}
           Y == {key.intent : key \in keys}
<1>1. keys = {Key(r) : r \in rows} /\ IsFiniteSet(rows) /\ IsFiniteSet(keys)
  BY KeysAreFinite
<1>2. DOMAIN hubs = X
  BY DEF group_topic_hubs
<1>3. ASSUME NEW fp \in X
      PROVE  /\ hubs[fp].intent_count = Cardinality({key \in keys : key.fingerprint = fp})
             /\ hubs[fp].keyword_count = Cardinality({r \in rows : r.fingerprint = fp})
  <2>1. HubFits(rs, fp)
    BY HubOfTopic
  <2> QED
    BY <2>1 DEF HubFits
<1> HIDE DEF cl, keys, hubs
<1>4. Total([fp \in DOMAIN hubs |-> hubs[fp].keyword_count]) = Cardinality(rows)
  <2> DEFINE of == [r \in rows |-> r.fingerprint]
             f == [fp \in DOMAIN hubs |-> hubs[fp].keyword_count]
  <2>1. of \in [rows -> X]
    <3>1. \A r \in rows : Key(r) \in keys /\ Key(r).fingerprint = r.fingerprint
      BY <1>1 DEF Key
    <3>2. \A r \in rows : r.fingerprint \in X
      BY <3>1
    <3> HIDE DEF X, rows
    <3> QED
      BY <3>2
  <2>2. DOMAIN f = X
    BY <1>2
  <2>3. \A fp \in X : f[fp] = Cardinality({r \in rows : of[r] = fp})
    <3> SUFFICES ASSUME NEW fp \in X PROVE f[fp] = Cardinality({r \in rows : of[r] = fp})
      OBVIOUS
    <3>1. {r \in rows : of[r] = fp} = {r \in rows : r.fingerprint = fp}
      OBVIOUS
    <3>2. f[fp] = hubs[fp].keyword_count
      BY <1>2
    <3> HIDE DEF X, rows, of, f
    <3> QED
      BY <1>3, <3>1, <3>2
  <2> HIDE DEF of, f, X, rows
  <2>4. Total(f) = Cardinality(rows)
    BY <1>1, <2>1, <2>2, <2>3, PartsAddUp
  <2> QED
    BY <2>4 DEF f
<1>5. Total([fp \in DOMAIN hubs |-> hubs[fp].intent_count]) = Cardinality(keys)
  <2> DEFINE of == [key \in keys |-> key.fingerprint]
             f == [fp \in DOMAIN hubs |-> hubs[fp].intent_count]
  <2>1. of \in [keys -> X]
    OBVIOUS
  <2>2. DOMAIN f = X
    BY <1>2
  <2>3. \A fp \in X : f[fp] = Cardinality({key \in keys : of[key] = fp})
    <3> SUFFICES ASSUME NEW fp \in X PROVE f[fp] = Cardinality({key \in keys : of[key] = fp})
      OBVIOUS
    <3>1. {key \in keys : of[key] = fp} = {key \in keys : key.fingerprint = fp}
      OBVIOUS
    <3>2. f[fp] = hubs[fp].intent_count
      BY <1>2
    <3> HIDE DEF X, of, f
    <3> QED
      BY <1>3, <3>1, <3>2
  <2> HIDE DEF of, f, X
  <2>4. Total(f) = Cardinality(keys)
    BY <1>1, <2>1, <2>2, <2>3, PartsAddUp
  <2> QED
    BY <2>4 DEF f
<1>6. Total([intent \in Y |-> Cardinality({key \in keys : key.intent = intent})]) = Cardinality(keys)
  <2> DEFINE of == [key \in keys |-> key.intent]
             f == [intent \in Y |-> Cardinality({key \in keys : key.intent = intent})]
  <2>1. of \in [keys -> Y]
    OBVIOUS
  <2>2. DOMAIN f = Y
    OBVIOUS
  <2>3. \A intent \in Y : f[intent] = Cardinality({key \in keys : of[key] = intent})
    <3> SUFFICES ASSUME NEW intent \in Y PROVE f[intent] = Cardinality({key \in keys : of[key] = intent})
      OBVIOUS
    <3>1. {key \in keys : of[key] = intent} = {key \in keys : key.intent = intent}
      OBVIOUS
    <3>2. f[intent] = Cardinality({key \in keys : key.intent = intent})
      OBVIOUS
    <3> HIDE DEF Y, of, f
    <3> QED
      BY <3>1, <3>2
  <2> HIDE DEF of, f, Y
  <2>4. Total(f) = Cardinality(keys)
    BY <1>1, <2>1, <2>2, <2>3, PartsAddUp
  <2> QED
    BY <2>4 DEF f
<1>7. Cardinality(rows) = Len(rs)
  <2> DEFINE at == [i \in 1..Len(rs) |-> rs[i]]
  <2>1. DOMAIN rs = 1..Len(rs) /\ Len(rs) \in Nat /\ \A i \in DOMAIN rs : rs[i] \in rows
    BY ListedRecords
  <2>2. at \in [1..Len(rs) -> rows] /\ \A r \in rows : \E i \in 1..Len(rs) : at[i] = r
    BY <2>1 DEF ToSet
  <2>3. \A i, j \in 1..Len(rs) : at[i] = at[j] => i = j
    BY <2>1 DEF Listed, IdsDiffer
  <2> HIDE DEF at, rows
  <2>4. at \in Bijection(1..Len(rs), rows)
    BY <2>2, <2>3 DEF Bijection, Injection, Surjection, IsInjective
  <2>5. IsFiniteSet(1..Len(rs)) /\ Cardinality(1..Len(rs)) = Len(rs)
    BY <2>1, FS_Interval
  <2>6. ExistsBijection(1..Len(rs), rows)
    BY <2>4 DEF ExistsBijection
  <2> QED
    BY <2>5, <2>6, FS_Bijection
<1> QED
  BY <1>4, <1>5, <1>6, <1>7 DEF cl, keys, hubs

\* The page, once written, is that of the records, for a file.
PageShown == page = None \/ (caller = "file" /\ page = render_demo_html)

LEMMA PageKept == DemoInv /\ PageShown /\ [DemoNext]_<<vars, demoVars>> => PageShown'
<1> SUFFICES ASSUME PageShown, [DemoNext]_<<vars, demoVars>> PROVE PageShown'
  OBVIOUS
<1>1. CASE Called
  BY <1>1 DEF Called, demoVars, PageShown
<1>2. CASE ReadLine
  BY <1>2 DEF ReadLine, PageShown
<1>3. CASE WritePage \/ UNCHANGED <<vars, demoVars>>
  <2>1. render_demo_html' = render_demo_html
    BY <1>3 DEF WritePage, vars, demoVars, render_demo_html
  <2> QED
    BY <1>3, <2>1 DEF WritePage, vars, demoVars, PageShown
<1> QED
  BY <1>1, <1>2, <1>3 DEF DemoNext

\* The page of write_demo_report accounts for every line of the file: the numbers of
\* group_topic_hubs add up to those of the summary, and a hub has exactly the keywords whose
\* cores have one fingerprint and the core of one of them as its label, for files of any
\* length and any second analysis of the core.
THEOREM PageAddsUp == DemoSpec => []PageAccountsForAll
<1>1. DemoInit => PageShown
  BY DEF DemoInit, PageShown
<1>2. DemoSpec => []PageShown
  BY <1>1, Invariance, PageKept, PTL DEF DemoSpec
<1>3. DemoInv /\ PageShown => PageAccountsForAll
  <2> SUFFICES ASSUME DemoInv, page = render_demo_html, page # None
               PROVE  PageAccountsForAll
    BY DEF PageShown, PageAccountsForAll
  <2> DEFINE cl == Clusters(records)
             hubs == group_topic_hubs(cl)
             distribution == [intent \in {key.intent : key \in DOMAIN cl} |->
                                Cardinality({key \in DOMAIN cl : key.intent = intent})]
             topic(fp) == {i \in DOMAIN records : keyword_fingerprint(records[i].core) = fp}
  <2>1. Listed(records) /\ read = Len(records) + Len(skipped)
    BY DEF DemoInv, IInv, Account
  <2>2. /\ page.input = read /\ page.clusters = Cardinality(DOMAIN cl) /\ page.hubs = hubs
        /\ page.skipped = Len(skipped) /\ page.distribution = distribution
    BY DEF render_demo_html
  <2>3. /\ Total([fp \in DOMAIN hubs |-> hubs[fp].keyword_count]) = Len(records)
        /\ Total([fp \in DOMAIN hubs |-> hubs[fp].intent_count]) = Cardinality(DOMAIN cl)
        /\ Total(distribution) = Cardinality(DOMAIN cl)
    BY <2>1, HubsAddUp
  <2>4. ASSUME NEW fp \in DOMAIN hubs
        PROVE  /\ \E i \in topic(fp) : hubs[fp].label = records[i].core
               /\ hubs[fp].keyword_count = Cardinality(topic(fp))
               /\ hubs[fp].intent_count = Cardinality({records[i].intent : i \in topic(fp)})
    <3>1. fp \in {key.fingerprint : key \in DOMAIN cl}
      BY DEF group_topic_hubs
    <3>2. topic(fp) = {i \in DOMAIN records : records[i].fingerprint = fp}
      BY <2>1, ListedRecords DEF Recorded
    <3>3. HubFits(records, fp)
      BY <2>1, <3>1, HubOfTopic
    <3>4. LET t == {i \in DOMAIN records : records[i].fingerprint = fp}
          IN  /\ \E i \in t : hubs[fp].label = records[i].core
              /\ hubs[fp].keyword_count = Cardinality(t)
              /\ hubs[fp].intent_count = Cardinality({records[i].intent : i \in t})
      BY <3>3 DEF HubFits
    <3> HIDE DEF topic, hubs
    <3> QED
      BY <3>2, <3>4
  <2> HIDE DEF hubs, distribution, cl, topic
  <2>5. /\ page.input = Total([fp \in DOMAIN page.hubs |-> page.hubs[fp].keyword_count]) + page.skipped
        /\ page.clusters = Total([fp \in DOMAIN page.hubs |-> page.hubs[fp].intent_count])
        /\ page.clusters = Total(page.distribution)
    BY <2>1, <2>2, <2>3
  <2>6. \A fp \in DOMAIN page.hubs :
          /\ \E i \in topic(fp) : page.hubs[fp].label = records[i].core
          /\ page.hubs[fp].keyword_count = Cardinality(topic(fp))
          /\ page.hubs[fp].intent_count = Cardinality({records[i].intent : i \in topic(fp)})
    BY <2>2, <2>4
  <2> QED
    BY <2>5, <2>6 DEF PageAccountsForAll, topic
<1> QED
  BY <1>2, <1>3, Invariance, PTL
=============================================================================
