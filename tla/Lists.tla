-------------------------------- MODULE Lists --------------------------------
(***************************************************************************)
(* What the Python code does with lists: filtering and joining them, choosing from *)
(* them by a tuple of criteria, as cannibalization.py and keyword_cluster.py    *)
(* do with max(), sorted() and zip().                                        *)
(***************************************************************************)
EXTENDS Integers, Sequences, FiniteSets

\* What stands at some positions of a sequence, in its order.
Kept(s, positions) ==
  [k \in 1..Cardinality(positions) |->
     s[CHOOSE i \in positions : Cardinality({j \in positions : j <= i}) = k]]

\* A list of lists as one: what extend() and + of a loop over them build.
Joined(lists) ==
  LET upTo[n \in 0..Len(lists)] == IF n = 0 THEN <<>> ELSE upTo[n - 1] \o lists[n]
  IN  upTo[Len(lists)]

\* The sum of the numbers of a function, as the number of places they make.
Total(f) == Cardinality(UNION {{x} \X (1..f[x]) : x \in DOMAIN f})

\* Python's order of tuples of one length
Above(a, b) == \E i \in DOMAIN a : a[i] > b[i] /\ \A j \in 1..i - 1 : a[j] = b[j]

\* The position of the first of the greatest keys.
FirstGreatest(keys) ==
  CHOOSE i \in DOMAIN keys :
    /\ \A j \in DOMAIN keys : ~Above(keys[j], keys[i])
    /\ \A j \in 1..i - 1 : Above(keys[i], keys[j])

\* max(group, key=key)
FirstMax(group, key(_)) == group[FirstGreatest([i \in DOMAIN group |-> key(group[i])])]

\* The name of the first criterion in which two keys differ, of the last if none.
PartedBy(names, a, b) ==
  LET parts == {i \in DOMAIN a : a[i] # b[i]}
  IN  IF parts = {} THEN names[Len(names)]
      ELSE names[CHOOSE i \in parts : \A j \in parts : i <= j]

\* The criterion parts the key best from the rivals' keys: some equal it in all
\* criteria before, and all that do are below it in this one.
IsReason(names, name, best, rivals) ==
  LET n == CHOOSE i \in DOMAIN names : names[i] = name
      level == {r \in rivals : \A i \in 1..n - 1 : r[i] = best[i]}
  IN  level # {} /\ \A r \in level : r[n] < best[n]
=============================================================================
