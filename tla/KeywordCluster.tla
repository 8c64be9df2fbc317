--------------------------- MODULE KeywordCluster ---------------------------
(***************************************************************************)
(* cluster_keywords (keyword_cluster.py): rows of keywords are read one by   *)
(* one, refused for the first reason that applies or made a record; records    *)
(* whose topic core and intent agree form a cluster with a head.  A text is    *)
(* the sequence of its tokens after analyze_form, each one letter long, and    *)
(* blank if it had nothing but white space before; a fingerprint is a bag of    *)
(* tokens (order_sensitive=False).                                           *)
(***************************************************************************)
EXTENDS Lists, SequencesExt

CONSTANTS
  Rows,           \* the rows a caller may pass: KeywordInput
  Analysed(_),    \* the tokens of analyze_form when a list of tokens, joined by spaces, goes through it again
  Stopwords,      \* tokens that are no content
  Markers,        \* the catalog: sequence of [tokens, intent], as specified
  Insufficient,   \* _INSUFFICIENT_CORE_TOKENS
  MaxRows,        \* bound: rows of one call
  None            \* an empty id, an absent demand

_INTENT_PRIORITY == <<"transactional", "commercial", "informational", "navigational">>

_DEMAND_STATUS_RANK == [known |-> 2, estimated |-> 1, unknown |-> 0]

_HEAD_CRITERION_NAMES ==
  <<"search_demand_status", "search_demand", "shorter_content_tokens",
    "shorter_normalized_surface", "keyword_id_tiebreak">>

ASSUME KeywordAssumption ==
  /\ \A r \in Rows :
       /\ r.id \in Nat \cup {None} /\ r.demand \in Int \cup {None} /\ r.status \in STRING
       /\ r.text \in Seq(ToSet(r.text)) /\ r.blank \in BOOLEAN /\ (r.blank => r.text = <<>>)
  /\ \A i, j \in DOMAIN Markers : Markers[i].tokens = Markers[j].tokens => i = j
  /\ \A i \in DOMAIN Markers :
       /\ Markers[i].tokens \in Seq(ToSet(Markers[i].tokens)) /\ Len(Markers[i].tokens) > 0
       /\ Markers[i].intent \in ToSet(_INTENT_PRIORITY)
  /\ MaxRows \in Nat

VARIABLES
  read,      \* rows read so far
  seen,      \* seen_ids
  records,   \* the rows accepted, in order
  skipped    \* [row, reason] of the rows refused, in order

vars == <<read, seen, records, skipped>>

(***************************************************************************)
(* Intent markers.                                                          *)
(***************************************************************************)
content_tokens(text) == Kept(text, {i \in DOMAIN text : text[i] \notin Stopwords})

Matches(text, i, m) ==
  i + Len(m.tokens) - 1 <= Len(text) /\ SubSeq(text, i, i + Len(m.tokens) - 1) = m.tokens

MarkersAt(text, i) == {m \in ToSet(Markers) : Matches(text, i, m)}

\* Mutant: the catalog is in the order of its specification.
FirstOf(ms) ==
  Markers[CHOOSE i \in DOMAIN Markers : Markers[i] \in ms /\ \A j \in 1..i - 1 : Markers[j] \notin ms]

\* The catalog is sorted longest first.
LongestOf(ms) == CHOOSE m \in ms : \A n \in ms : Len(n.tokens) <= Len(m.tokens)

\* _find_intent_markers, from token i on: the tokens of a marker are consumed.
_find_intent_markers(text) ==
  LET from[i \in 1..Len(text) + 1] ==
        IF i > Len(text) THEN <<>>
        ELSE IF MarkersAt(text, i) = {} THEN from[i + 1]
        ELSE LET m == LongestOf(MarkersAt(text, i))
             IN  <<[start |-> i, marker |-> m]>> \o from[i + Len(m.tokens)]
  IN  from[1]

\* The earliest marker of an intent
Earliest(fired, intent) ==
  CHOOSE f \in ToSet(fired) :
    f.marker.intent = intent /\ \A g \in ToSet(fired) : g.marker.intent = intent => f.start <= g.start

detect_search_intent(fired) ==
  LET intents == {f.marker.intent : f \in ToSet(fired)}
      categories == Kept(_INTENT_PRIORITY, {i \in DOMAIN _INTENT_PRIORITY : _INTENT_PRIORITY[i] \in intents})
  IN  IF intents = {} THEN "unknown"
      ELSE IF /\ {"informational", "transactional"} \subseteq intents
              /\ Earliest(fired, "informational").start < Earliest(fired, "transactional").start
      THEN "informational"
      ELSE categories[1]

(***************************************************************************)
(* The topic core.                                                          *)
(***************************************************************************)

\* Mutant: a marker's tokens are removed wherever they stand.
StripAll(content, fired) ==
  LET gone == UNION {ToSet(f.marker.tokens) : f \in ToSet(fired)}
  IN  SelectSeq(content, LAMBDA t : t \notin gone)

\* Each marker removes one occurrence of each of its content tokens, the first.
_strip_marker_tokens(content, fired) ==
  LET surfaces == Joined([k \in DOMAIN fired |-> content_tokens(fired[k].marker.tokens)])
      remaining[n \in 0..Len(surfaces)] ==
        IF n = 0 THEN content ELSE RemoveFirst(remaining[n - 1], surfaces[n])
  IN  remaining[Len(surfaces)]

_core_is_usable(tokens) == ToSet(tokens) \ Insufficient # {}

topic_core_tokens_for(text, fired) ==
  LET content == content_tokens(text)
      stripped == _strip_marker_tokens(content, fired)
  IN  IF _core_is_usable(stripped) \/ stripped = <<>> THEN stripped ELSE content

\* The core is joined and analysed again, which is not the identity: a prefix joins the
\* word that now follows it, and a stopword may appear.
keyword_fingerprint(tokens) ==
  LET content == content_tokens(Analysed(tokens))
  IN  [t \in ToSet(content) |-> Cardinality({i \in DOMAIN content : content[i] = t})]

(***************************************************************************)
(* Reading the rows.                                                        *)
(***************************************************************************)

\* The checks of the loop, in order: a reason and when it applies.
Checks(row) ==
  LET numeric == row.status \in {"known", "estimated"}
  IN  <<[reason |-> "empty_keyword_id", holds |-> row.id = None],
        [reason |-> "duplicate_keyword_id", holds |-> row.id \in seen],
        [reason |-> "empty_keyword_text", holds |-> row.blank],
        [reason |-> "invalid_demand_status", holds |-> row.status \notin DOMAIN _DEMAND_STATUS_RANK],
        [reason |-> "demand_status_conflict", holds |-> row.status = "unknown" /\ row.demand # None],
        [reason |-> "missing_search_demand", holds |-> numeric /\ row.demand = None],
        [reason |-> "negative_search_demand", holds |-> numeric /\ row.demand # None /\ row.demand < 0],
        [reason |-> "no_content_tokens", holds |-> content_tokens(row.text) = <<>>],
        [reason |-> "only_intent_markers",
         holds |-> topic_core_tokens_for(row.text, _find_intent_markers(row.text)) = <<>>]>>

Record(row) ==
  LET fired == _find_intent_markers(row.text)
      core == topic_core_tokens_for(row.text, fired)
  IN  [id |-> row.id, text |-> row.text, core |-> core, fingerprint |-> keyword_fingerprint(core),
       intent |-> detect_search_intent(fired), markers |-> fired,
       demand |-> row.demand, status |-> row.status]

Init == read = 0 /\ seen = {} /\ records = <<>> /\ skipped = <<>>

Accept(row) ==
  /\ read < MaxRows /\ read' = read + 1
  /\ \A i \in DOMAIN Checks(row) : ~Checks(row)[i].holds
  /\ seen' = seen \cup {row.id}
  /\ records' = Append(records, Record(row))
  /\ UNCHANGED skipped

\* Mutant: a row refused for a later reason leaves its id free.
SkipForgetting(row) ==
  /\ read < MaxRows /\ read' = read + 1
  /\ \E i \in DOMAIN Checks(row) :
       /\ Checks(row)[i].holds /\ \A j \in 1..i - 1 : ~Checks(row)[j].holds
       /\ skipped' = Append(skipped, [row |-> row, reason |-> Checks(row)[i].reason])
  /\ UNCHANGED <<seen, records>>

\* An id is seen as soon as it is read, whatever is wrong with its row then.
Skip(row) ==
  /\ read < MaxRows /\ read' = read + 1
  /\ \E i \in DOMAIN Checks(row) :
       /\ Checks(row)[i].holds /\ \A j \in 1..i - 1 : ~Checks(row)[j].holds
       /\ skipped' = Append(skipped, [row |-> row, reason |-> Checks(row)[i].reason])
       /\ seen' = seen \cup ({row.id} \ {None})
  /\ UNCHANGED records

Next == \E row \in Rows : Accept(row) \/ Skip(row)

Spec == Init /\ [][Next]_vars

(***************************************************************************)
(* Clusters of the records.                                                 *)
(***************************************************************************)

\* Mutant: the id does not decide.
RankKeyWithoutId(r) ==
  <<_DEMAND_STATUS_RANK[r.status], IF r.status = "unknown" THEN -1 ELSE r.demand,
    -Len(content_tokens(r.text)), -Len(r.text), 0>>

\* The code sorts ascending; the signs are turned here, the head is the greatest.
\* The demand of an unknown status counts below every other.
_member_rank_key(r) ==
  <<_DEMAND_STATUS_RANK[r.status], IF r.status = "unknown" THEN -1 ELSE r.demand,
    -Len(content_tokens(r.text)), -Len(r.text), -r.id>>

Others(members, head) == Kept(members, {i \in DOMAIN members : members[i].id # head.id})

_pick_head(members) == FirstMax(members, _member_rank_key)

\* Mutant: the head is compared with the last in the input, not with the runner-up.
DecidedByLast(members, head) ==
  IF Len(members) = 1 THEN "singleton"
  ELSE PartedBy(_HEAD_CRITERION_NAMES, _member_rank_key(head),
                _member_rank_key(Last(Others(members, head))))

head_decided_by(members, head) ==
  IF Len(members) = 1 THEN "singleton"
  ELSE PartedBy(_HEAD_CRITERION_NAMES, _member_rank_key(head),
                _member_rank_key(FirstMax(Others(members, head), _member_rank_key)))

Key(r) == [fingerprint |-> r.fingerprint, intent |-> r.intent]

Members(rs, key) == Kept(rs, {i \in DOMAIN rs : Key(rs[i]) = key})

\* clusters by key; the members, sorted by id in the code, are a set here.
Clusters(rs) ==
  [key \in {Key(r) : r \in ToSet(rs)} |->
     LET members == Members(rs, key)
         head == _pick_head(members)
     IN  [head |-> head, members |-> ToSet(members), decided_by |-> head_decided_by(members, head)]]

(***************************************************************************)
(* Properties.                                                              *)
(***************************************************************************)

\* No row is lost, records have distinct ids and a core that is not empty, and an id is seen if and
\* only if a row of that id was read, accepted or refused (seen_ids.add, line 406).
TypeOK ==
  /\ read \in 0..MaxRows /\ read = Len(records) + Len(skipped)
  /\ \A i, j \in DOMAIN records : records[i].id = records[j].id => i = j
  /\ \A r \in ToSet(records) : r.core # <<>> /\ r.status \in DOMAIN _DEMAND_STATUS_RANK
  /\ \A s \in ToSet(skipped) : s.reason \in {c.reason : c \in ToSet(Checks(s.row))}
  /\ seen = {r.id : r \in ToSet(records)} \cup ({s.row.id : s \in ToSet(skipped)} \ {None})

Span(f) == f.start..f.start + Len(f.marker.tokens) - 1

\* The scan of _find_intent_markers is the one ADR-0010 describes, left to right and the
\* longest first: fired markers do not overlap, each is the longest of the catalog that
\* stands there, and a marker that stands in the text and did not fire begins inside
\* one that did.
MarkersTile ==
  \A r \in ToSet(records) :
    LET fired == ToSet(r.markers)
    IN  /\ \A f, g \in fired : f # g => Span(f) \cap Span(g) = {}
        /\ \A f \in fired :
             /\ Matches(r.text, f.start, f.marker)
             /\ \A m \in MarkersAt(r.text, f.start) : Len(m.tokens) <= Len(f.marker.tokens)
        /\ \A i \in DOMAIN r.text : MarkersAt(r.text, i) # {} => \E f \in fired : i \in Span(f)

\* _strip_marker_tokens knows tokens and not positions, the content has lost the
\* positions of the text, and yet the topic core is, up to its order, the content that
\* stands outside the fired markers, or all content if only insufficient words stand there:
\* a token that stands both inside a marker and outside remains once.
CoreIsWhatMarkersLeave ==
  \A r \in ToSet(records) :
    LET covered == UNION {Span(f) : f \in ToSet(r.markers)}
        content == {i \in DOMAIN r.text : r.text[i] \notin Stopwords}
        left == content \ covered
        core == IF \A i \in left : r.text[i] \in Insufficient THEN content ELSE left
    IN  /\ left # {}
        /\ \A t \in ToSet(r.text) \cup ToSet(r.core) :
             Cardinality({i \in DOMAIN r.core : r.core[i] = t}) = Cardinality({i \in core : r.text[i] = t})

\* What head_decided_by tells the reader of a cluster is why the head is the head, against
\* every other member: the criterion in which all members that equal the head in the
\* criteria before are below it (_pick_head compares it with the second of them only).
HeadIsTheReason ==
  LET clusters == Clusters(records)
  IN  \A key \in DOMAIN clusters :
        LET c == clusters[key]
            others == c.members \ {c.head}
        IN  IF others = {} THEN c.decided_by = "singleton"
            ELSE IsReason(_HEAD_CRITERION_NAMES, c.decided_by, _member_rank_key(c.head),
                          {_member_rank_key(r) : r \in others})

\* The clusters, their heads and their reasons do not depend on the order in which the
\* keywords are listed (ids being distinct; of rows with one id the first counts).
OrderIsIrrelevant ==
  \A listing \in SetToSeqs(ToSet(records)) : Clusters(listing) = Clusters(records)
=============================================================================
