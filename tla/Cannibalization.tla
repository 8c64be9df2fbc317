--------------------------- MODULE Cannibalization ---------------------------
(***************************************************************************)
(* detect_keyword_cannibalization (cannibalization.py): pages that declare   *)
(* one keyword collide; one of them is kept and each of the others gets an     *)
(* advice.  Around the function stands the site it is for: pages are declared, *)
(* the advice is computed, and the owner follows it page by page.             *)
(* Page ids are numbers in their lexicographic order.  How well title and h1   *)
(* match the keyword is a field of the page.                                  *)
(***************************************************************************)
EXTENDS Lists, SequencesExt

CONSTANTS
  PageIds,
  Keywords,         \* declared keywords; None is the empty one
  Fingerprint,      \* Keywords -> keyword_fingerprint
  Priorities,       \* explicit priorities
  Matches,          \* how many of title and h1 may match: of 0..2
  PageRoles,        \* roles as pages spell them, known or not; "" is none
  Links, Words,     \* inbound_internal_links and word_count
  Threshold,        \* significant_word_count
  MaxPages,         \* bound: pages of the site
  None

_ROLE_RANK == [pillar |-> 3, commercial |-> 2, informational |-> 1, other |-> 0]

\* -10**12 in the code, below any priority a human gives
MissingPriority == -1000000

_CRITERION_NAMES ==
  <<"priority", "title_h1_match", "page_role", "internal_links", "word_count", "page_id_tiebreak">>

PageTarget ==
  [page_id : PageIds, keyword : Keywords \cup {None}, priority : Priorities \cup {None},
   title_h1 : Matches, role : PageRoles, links : Links, words : Words]

ASSUME CannibalizationAssumption ==
  /\ Matches \subseteq 0..2
  /\ PageIds \subseteq Nat /\ Links \subseteq Nat /\ Words \subseteq Nat
  /\ \A n \in Priorities : n \in Int /\ n > MissingPriority
  /\ Threshold \in Nat /\ MaxPages \in Nat
  /\ None \notin Keywords /\ DOMAIN Fingerprint = Keywords

VARIABLES
  pages,    \* the pages handed to the function, in order
  result    \* the last result, None when the site has changed otherwise since

vars == <<pages, result>>

(***************************************************************************)
(* The order of pages.                                                      *)
(***************************************************************************)
_normalize_role(role) == IF role \in DOMAIN _ROLE_RANK THEN role ELSE "other"

\* A missing priority is below every explicit one.
_priority_key(p) == IF p.priority = None THEN MissingPriority ELSE p.priority

_signal_key(p) ==
  <<p.title_h1, _ROLE_RANK[_normalize_role(p.role)], p.links, p.words, p.page_id>>

\* Mutant: without the page id, pages may be equal.
FullKeyWithoutId(p) == <<_priority_key(p)>> \o [_signal_key(p) EXCEPT ![5] = 0]

_full_key(p) == <<_priority_key(p)>> \o _signal_key(p)

_pick_winner(group) == FirstMax(group, _full_key)

_pick_signal_winner(group) == FirstMax(group, _signal_key)

\* The pages of a list but for those with an id
Without(ps, id) == Kept(ps, {i \in DOMAIN ps : ps[i].page_id # id})

\* Mutant: the criterion that parts the winner from the last of the others.
DecidedByLast(winner, group) ==
  PartedBy(_CRITERION_NAMES, _full_key(winner), _full_key(Last(Without(group, winner.page_id))))

\* The first criterion that parts the winner from the runner-up.
_decided_by(winner, group) ==
  PartedBy(_CRITERION_NAMES, _full_key(winner),
           _full_key(FirstMax(Without(group, winner.page_id), _full_key)))

(***************************************************************************)
(* The advice.                                                              *)
(***************************************************************************)
_ACTIONS == {"keep", "consolidate_into", "retarget", "differentiate"}

\* Mutant: a thin page of the winner's role is taken out of the index.
LoserNoindex(loser, winner) ==
  IF _normalize_role(loser.role) # _normalize_role(winner.role) THEN "differentiate"
  ELSE IF loser.words >= Threshold THEN "retarget" ELSE "noindex"

_loser_action(loser, winner) ==
  IF _normalize_role(loser.role) # _normalize_role(winner.role) THEN "differentiate"
  ELSE IF loser.words >= Threshold THEN "retarget" ELSE "consolidate_into"

\* Mutant: the override is reported only when the winner's role is the lesser one.
ConflictOfRoles(winner, signal_winner) ==
  /\ _ROLE_RANK[_normalize_role(winner.role)] < _ROLE_RANK[_normalize_role(signal_winner.role)]
  /\ winner.priority # None

\* priority_override_conflicts_signals
Conflict(winner, signal_winner) ==
  winner.page_id # signal_winner.page_id /\ winner.priority # None

Decision(p, action, target) ==
  [page_id |-> p.page_id, action |-> action, target |-> target,
   unknown_role |-> p.role \notin DOMAIN _ROLE_RANK \cup {""}]

\* Mutant: the roles of the losers are compared with that of the signals' winner.
DecisionsBySignals(group, winner) ==
  {IF p.page_id = winner.page_id THEN Decision(p, "keep", None)
   ELSE LET action == _loser_action(p, _pick_signal_winner(group))
        IN  Decision(p, action, IF action = "consolidate_into" THEN winner.page_id ELSE None) :
   p \in ToSet(group)}

Decisions(group, winner) ==
  {IF p.page_id = winner.page_id THEN Decision(p, "keep", None)
   ELSE LET action == _loser_action(p, winner)
        IN  Decision(p, action, IF action = "consolidate_into" THEN winner.page_id ELSE None) :
   p \in ToSet(group)}

Cluster(group) ==
  LET winner == _pick_winner(group)
  IN  [keyword |-> winner.keyword, decided_by |-> _decided_by(winner, group),
       winner |-> winner.page_id, pages |-> Decisions(group, winner),
       conflict |-> Conflict(winner, _pick_signal_winner(group))]

Group(ps, fp) ==
  Kept(ps, {i \in DOMAIN ps : ps[i].keyword # None /\ Fingerprint[ps[i].keyword] = fp})

Colliding(ps) == {fp \in Range(Fingerprint) : Len(Group(ps, fp)) > 1}

detect_keyword_cannibalization(ps) ==
  [clusters |-> [fp \in Colliding(ps) |-> Cluster(Group(ps, fp))],
   skipped |-> Kept(ps, {i \in DOMAIN ps : ps[i].keyword = None})]

(***************************************************************************)
(* The site.                                                                *)
(***************************************************************************)
Init == pages = <<>> /\ result = None

\* Ids identify pages: the function looks the winner up by its id.
Declare ==
  /\ Len(pages) < MaxPages
  /\ \E p \in PageTarget :
       /\ \A q \in ToSet(pages) : q.page_id # p.page_id
       /\ pages' = Append(pages, p)
  /\ result' = None

Detect == result' = detect_keyword_cannibalization(pages) /\ UNCHANGED pages

Advice(r) == UNION {c.pages : c \in Range(r.clusters)}

\* The owner redirects a page, or gives it a keyword of its own; a page to be
\* differentiated stays.  The result is now stale.
Follow ==
  /\ result # None
  /\ \E d \in Advice(result) :
       /\ d.action \in {"consolidate_into", "retarget"}
       /\ \E p \in ToSet(pages) : p.page_id = d.page_id
       /\ pages' = Without(pages, d.page_id)
  /\ UNCHANGED result

Next == Declare \/ Detect \/ Follow

Spec == Init /\ [][Next]_vars

(***************************************************************************)
(* Properties.                                                              *)
(***************************************************************************)
TypeOK ==
  /\ pages \in Seq(PageTarget)
  /\ result # None =>
       \A fp \in DOMAIN result.clusters : LET c == result.clusters[fp] IN
         /\ c.decided_by \in Range(_CRITERION_NAMES) /\ c.conflict \in BOOLEAN
         /\ c.winner \in PageIds
         /\ \A d \in c.pages : d.page_id \in PageIds /\ d.action \in _ACTIONS

\* The pages of the cluster fp, by the pages the result is of
Members(ps, fp) == {p \in ToSet(ps) : p.keyword # None /\ Fingerprint[p.keyword] = fp}

\* ADR-0007: decided_by names the criterion that parts the winner from the rest:
\* some rival is its equal in all criteria before, and every rival that is its
\* equal there is below it in this one, whichever rival comes second.
DecidedByIsTheReason ==
  \A fp \in Colliding(pages) :
    LET c == Cluster(Group(pages, fp))
        w == CHOOSE p \in Members(pages, fp) : p.page_id = c.winner
    IN  IsReason(_CRITERION_NAMES, c.decided_by, _full_key(w),
                 {_full_key(p) : p \in Members(pages, fp) \ {w}})

\* The order in which the site lists its pages decides nothing.
OrderIsIrrelevant ==
  \A f \in SetToSeqs(ToSet(pages)) :
    detect_keyword_cannibalization(f).clusters = detect_keyword_cannibalization(pages).clusters

\* ADR-0007: the human's priority prevails but never silently: when some page has
\* the better signals (title and h1, role, links, words, in this order), the
\* winner has an explicit priority and the cluster says that it conflicts.
OverrideIsNeverSilent ==
  \A fp \in Colliding(pages) :
    LET c == Cluster(Group(pages, fp))
        w == CHOOSE p \in Members(pages, fp) : p.page_id = c.winner
        signals(p) == SubSeq(_signal_key(p), 1, 4)
    IN  (\E p \in Members(pages, fp) : Above(signals(p), signals(w))) =>
          c.conflict /\ w.priority # None

\* The advice stands while it is followed: when the pages changed only because
\* some of it was acted on, the next result keeps the same pages and repeats to
\* every page still in a cluster what it was told before.
AdviceStands ==
  [][Detect /\ result # None => Advice(result') \subseteq Advice(result)]_vars
=============================================================================
