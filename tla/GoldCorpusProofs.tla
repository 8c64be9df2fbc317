--------------------------- MODULE GoldCorpusProofs ---------------------------
(***************************************************************************)
(* What the scripts do to the corpus, for any sentences, terminals, scripts, *)
(* tokenizers and any number of commands.  Every file a script writes is a     *)
(* Corpus when the file it read was one: the argument is about a file alone,    *)
(* so that it does not matter which script overwrites which.                  *)
(***************************************************************************)
EXTENDS GoldCorpus, ListProofs

-----------------------------------------------------------------------------
(***************************************************************************)
(* Slices of lists, and what a source may be found to have.                 *)
(***************************************************************************)

LEMMA TakeRows ==
  ASSUME NEW S, NEW s \in Seq(S), NEW n \in Int
  PROVE  Take(s, n) \in Seq(S) /\ ToSet(Take(s, n)) \subseteq ToSet(s)
<1> DEFINE b == IF n < Len(s) THEN n ELSE Len(s)
<1>1. b \in Int /\ b <= Len(s)
  OBVIOUS
<1> HIDE DEF b
<1>2. SubSeq(s, 1, b) \in Seq(S) /\ ToSet(SubSeq(s, 1, b)) \subseteq ToSet(s)
  BY <1>1, SliceRows
<1> QED
  BY <1>2 DEF Take, b

LEMMA TakeDistinct ==
  ASSUME NEW S, NEW s \in Seq(S), Distinct(s), NEW n \in Int
  PROVE  Distinct(Take(s, n))
<1> DEFINE b == IF n < Len(s) THEN n ELSE Len(s)
<1>1. b \in Int /\ b <= Len(s) /\ DOMAIN s = 1..Len(s)
  OBVIOUS
<1> HIDE DEF b
<1>2. /\ Len(SubSeq(s, 1, b)) = (IF 1 <= b THEN b ELSE 0) /\ DOMAIN SubSeq(s, 1, b) = 1..Len(SubSeq(s, 1, b))
      /\ \A i \in 1..Len(SubSeq(s, 1, b)) : SubSeq(s, 1, b)[i] = s[i]
  BY <1>1
<1>3. Distinct(SubSeq(s, 1, b))
  BY <1>1, <1>2 DEF Distinct
<1> QED
  BY <1>3 DEF Take, b

\* Of the finds of a set none has the sentence of another.
OneFind(S) == \A x, y \in S : x.text = y.text => x = y

LEMMA Arranged ==
  ASSUME NEW S, IsFiniteSet(S), NEW s \in Arrangements(S)
  PROVE  s \in Seq(S) /\ Distinct(s)
<1>1. PICK C \in SUBSET S : s \in SetToSeqs(C)
  BY DEF Arrangements
<1>2. IsFiniteSet(C)
  BY <1>1, FS_Subset
<1>3. s \in Seq(C) /\ Distinct(s)
  BY <1>1, <1>2, OrderedRows
<1> QED
  BY <1>1, <1>3

LEMMA Found ==
  ASSUME NEW F, IsFiniteSet(F), NEW s \in Finds(F)
  PROVE  s \in Seq(F) /\ Distinct(s) /\ OneFind(ToSet(s))
<1>1. PICK C \in SUBSET F : s \in SetToSeqs(C) /\ OneFind(C)
  BY DEF Finds, OneFind
<1>2. IsFiniteSet(C)
  BY <1>1, FS_Subset
<1>3. s \in Seq(C) /\ Distinct(s)
  BY <1>1, <1>2, OrderedRows
<1>4. ToSet(s) \subseteq C
  BY <1>3, RowsAreFinite
<1> QED
  BY <1>1, <1>3, <1>4 DEF OneFind

-----------------------------------------------------------------------------
(***************************************************************************)
(* Corpora: what holds of every file a script reads or writes.              *)
(***************************************************************************)
Row == [id : Ids, text : Texts, place : Sites, tokens : TokenLists, ezafe : LabelLists \cup {None},
        verified : BOOLEAN, ambiguous : BOOLEAN, seen : Seen \cup {None}]

\* A row is labelled as the human did it, on its own tokens.
Labelled(e) ==
  /\ e.ezafe # None => e.ezafe \in Labels(e.tokens)
  /\ e.verified <=> e.ezafe # None
  /\ e.ezafe # None => e.seen # None /\ e.seen.tokens = e.tokens /\ e.seen.ezafe = e.ezafe

\* The doubt that was given with the labels, where it is read, is on the row.
Doubted(e) == e.ezafe # None => (e.ambiguous <=> FlagRead(e.seen))

SameHalf(e, f) == IsWiki(e) <=> IsWiki(f)

\* In each half of the corpus a sentence has one row, which may stand there twice.
OneText(R) == \A e, f \in R : e.text = f.text /\ SameHalf(e, f) => e = f

\* Of the rows that share an id one at most is labelled.
OneLabel(R) == \A e, f \in R : e.ezafe # None /\ f.ezafe # None /\ e.id = f.id => e = f

CorpusSet(R) ==
  /\ R \subseteq Row
  /\ \A e \in R : Labelled(e) /\ Doubted(e)
  /\ OneText(R) /\ OneLabel(R)

Corpus(rows) == rows \in Seq(Row) /\ CorpusSet(RowsOf(rows))

Fresh(e) == e \in Row /\ e.ezafe = None /\ e.verified = FALSE

LEMMA Part ==
  ASSUME NEW B, CorpusSet(B), NEW R, R \subseteq B
  PROVE  CorpusSet(R)
BY DEF CorpusSet, OneText, OneLabel

\* A file grows by sentences it does not have.
LEMMA Grown ==
  ASSUME NEW B, CorpusSet(B), NEW F, \A f \in F : Fresh(f), OneText(F),
         \A f \in F, e \in B : f.text # e.text,
         NEW R, R \subseteq B \cup F
  PROVE  CorpusSet(R)
<1>1. R \subseteq Row /\ \A e \in R : Labelled(e) /\ Doubted(e)
  BY DEF CorpusSet, Fresh, Labelled, Doubted
<1>2. OneText(R)
  BY DEF CorpusSet, OneText
<1>3. OneLabel(R)
  BY DEF CorpusSet, OneLabel, Fresh
<1> QED
  BY <1>1, <1>2, <1>3 DEF CorpusSet

LEMMA ListPart ==
  ASSUME NEW base, Corpus(base), NEW rows \in Seq(Row), RowsOf(rows) \subseteq RowsOf(base)
  PROVE  Corpus(rows)
BY Part DEF Corpus

LEMMA NoRows == Corpus(<<>>)
<1>1. ToSet(<<>>) = {} /\ <<>> \in Seq(Row)
  BY DEF ToSet
<1> QED
  BY <1>1 DEF Corpus, CorpusSet, OneText, OneLabel, RowsOf

\* Tokens of a sentence are a list that may be labelled.
LEMMA TokensAreLists ==
  ASSUME NEW t \in Texts, NEW k \in Tokenizers PROVE Tokens[t][k] \in TokenLists
BY DEF TokenLists

LEMMA FreshRow ==
  ASSUME NEW id \in Ids, NEW x, x.text \in Texts, x.place \in Sites,
         NEW tokens \in TokenLists, NEW b \in BOOLEAN
  PROVE  /\ Fresh(Unlabeled(id, x, tokens, b))
         /\ Unlabeled(id, x, tokens, b).text = x.text
         /\ Unlabeled(id, x, tokens, b).place = x.place
         /\ Unlabeled(id, x, tokens, b).id = id
BY DEF Fresh, Unlabeled, Row

\* A row is made of one of the finds.
MadeOf(f, found) == \E x \in ToSet(found) : f.text = x.text /\ f.place = x.place

LEMMA Offers ==
  ASSUME NEW x \in Offered
  PROVE  x.text \in Texts /\ x.place \in Sites /\ Source[x.place] \in Range(Source)
<1>1. x \in [text : Texts, place : Sites] /\ DOMAIN Source = Sites
  BY GoldAssumption
<1>2. x.text \in Texts /\ x.place \in Sites
  BY <1>1
<1> QED
  BY <1>1, <1>2 DEF Range

\* What a harvest finds becomes rows.
LEMMA FreshRows ==
  ASSUME NEW found \in Seq(Offered), Distinct(found), OneFind(ToSet(found)),
         NEW ids \in [1..Len(found) -> Ids],
         NEW rows, rows = [i \in 1..Len(found) |-> Harvested(ids[i], found[i])]
  PROVE  /\ rows \in Seq(Row)
         /\ \A f \in RowsOf(rows) : Fresh(f) /\ MadeOf(f, found)
         /\ OneText(RowsOf(rows))
<1>1. \A i \in 1..Len(found) :
        Fresh(rows[i]) /\ rows[i].text = found[i].text /\ rows[i].place = found[i].place
  <2> TAKE i \in 1..Len(found)
  <2> DEFINE x == found[i]
             new == Unlabeled(ids[i], x, Tokens[x.text]["raw"], FALSE)
  <2>1. ids[i] \in Ids /\ x.text \in Texts /\ x.place \in Sites
    BY Offers
  <2>2. Tokens[x.text]["raw"] \in TokenLists
    BY <2>1, TokensAreLists DEF Tokenizers
  <2>3. rows[i] = new
    BY DEF Harvested
  <2> HIDE DEF x
  <2>4. Fresh(new) /\ new.text = x.text /\ new.place = x.place
    BY <2>1, <2>2, FreshRow
  <2> QED
    BY <2>3, <2>4 DEF x
<1>2. DOMAIN rows = 1..Len(found) /\ Len(found) \in Nat /\ DOMAIN found = 1..Len(found)
  OBVIOUS
<1>3. rows \in Seq(Row)
  <2>1. \A i \in 1..Len(found) : rows[i] \in Row
    BY <1>1 DEF Fresh
  <2> QED
    BY <1>2, <2>1
<1>4. \A f \in RowsOf(rows) : Fresh(f) /\ MadeOf(f, found)
  BY <1>1, <1>2 DEF RowsOf, ToSet, MadeOf
<1>5. ASSUME NEW i \in 1..Len(found), NEW j \in 1..Len(found), rows[i].text = rows[j].text
      PROVE  rows[i] = rows[j]
  <2>1. found[i] \in ToSet(found) /\ found[j] \in ToSet(found) /\ found[i].text = found[j].text
    BY <1>1, <1>2, <1>5 DEF ToSet
  <2>2. found[i] = found[j]
    BY <2>1 DEF OneFind
  <2>3. i = j
    BY <1>2, <2>2 DEF Distinct
  <2> QED
    BY <2>3
<1>6. OneText(RowsOf(rows))
  BY <1>2, <1>5 DEF OneText, RowsOf, ToSet
<1> QED
  BY <1>3, <1>4, <1>6

LEMMA NumberedRows ==
  ASSUME NEW prefix \in {"wiki", "web", "ecom"}, NEW found \in Seq(Offered), Distinct(found),
         OneFind(ToSet(found))
  PROVE  /\ Numbered(prefix, found) \in Seq(Row)
         /\ \A f \in RowsOf(Numbered(prefix, found)) : Fresh(f) /\ MadeOf(f, found)
         /\ OneText(RowsOf(Numbered(prefix, found)))
<1> DEFINE ids == [i \in 1..Len(found) |-> <<prefix, Source[found[i].place], i - 1>>]
<1>1. ids \in [1..Len(found) -> Ids]
  <2>1. \A i \in 1..Len(found) : Source[found[i].place] \in Range(Source) /\ i - 1 \in Nat
    BY Offers
  <2> QED
    BY <2>1 DEF Ids
<1>2. Numbered(prefix, found) = [i \in 1..Len(found) |-> Harvested(ids[i], found[i])]
  BY DEF Numbered
<1> HIDE DEF ids
<1> QED
  BY <1>1, <1>2, FreshRows

\* Two harvests of different sentences, or of different halves, are one.
LEMMA Harvests ==
  ASSUME NEW A, NEW B, OneText(A), OneText(B), \A e \in A, f \in B : e.text # f.text \/ ~SameHalf(e, f)
  PROVE  OneText(A \cup B)
BY DEF OneText, SameHalf

LEMMA Sources ==
  /\ IsFiniteSet(Wikis) /\ IsFiniteSet(Webs) /\ IsFiniteSet({x \in Offered : IsShop(x)})
  /\ Wikis \in SUBSET Offered /\ Webs \in SUBSET Offered
  /\ \A e \in Wikis, f \in Webs : ~SameHalf(e, f)
<1>1. \A F \in SUBSET Offered : IsFiniteSet(F)
  BY GoldAssumption, FS_Subset
<1>2. Wikis \in SUBSET Offered /\ Webs \in SUBSET Offered
  BY DEF Wikis, Webs
<1>3. {x \in Offered : IsShop(x)} \in SUBSET Offered
  OBVIOUS
<1>4. \A e \in Wikis, f \in Webs : IsWiki(e) /\ ~IsWiki(f)
  BY DEF Wikis, Webs
<1>5. \A e \in Wikis, f \in Webs : ~SameHalf(e, f)
  BY <1>4 DEF SameHalf
<1> QED
  BY <1>1, <1>2, <1>3, <1>5

LEMMA CollectKeeps ==
  ASSUME NEW w \in Finds(Wikis), NEW x \in Finds(Webs),
         NEW rows \in Arrangements(RowsOf(CollectedRows(w, x)))
  PROVE  Corpus(rows)
<1>1. /\ w \in Seq(Offered) /\ Distinct(w) /\ OneFind(ToSet(w))
      /\ x \in Seq(Offered) /\ Distinct(x) /\ OneFind(ToSet(x))
      /\ ToSet(w) \subseteq Wikis /\ ToSet(x) \subseteq Webs
  <2>1. /\ w \in Seq(Wikis) /\ Distinct(w) /\ OneFind(ToSet(w))
        /\ x \in Seq(Webs) /\ Distinct(x) /\ OneFind(ToSet(x))
    BY Found, Sources
  <2>2. ToSet(w) \subseteq Wikis /\ ToSet(x) \subseteq Webs
    BY <2>1, RowsAreFinite
  <2> QED
    BY <2>1, <2>2, Sources
<1> DEFINE A == Numbered("wiki", w)
           ids == [i \in 1..Len(x) |-> <<"web", None, i - 1>>]
           B == [i \in 1..Len(x) |-> Harvested(ids[i], x[i])]
<1>2. CollectedRows(w, x) = A \o B
  BY DEF CollectedRows
<1>3. A \in Seq(Row) /\ OneText(RowsOf(A)) /\ \A f \in RowsOf(A) : Fresh(f) /\ MadeOf(f, w)
  BY <1>1, NumberedRows
<1>4. B \in Seq(Row) /\ OneText(RowsOf(B)) /\ \A f \in RowsOf(B) : Fresh(f) /\ MadeOf(f, x)
  <2>1. ids \in [1..Len(x) -> Ids]
    BY DEF Ids
  <2> HIDE DEF ids
  <2> QED
    BY <1>1, <2>1, FreshRows
<1> HIDE DEF A, B
<1>5. A \o B \in Seq(Row) /\ RowsOf(A \o B) = RowsOf(A) \cup RowsOf(B)
  BY <1>3, <1>4, ConcatRows DEF RowsOf
<1>6. \A e \in RowsOf(A), f \in RowsOf(B) : ~SameHalf(e, f)
  <2> TAKE e \in RowsOf(A), f \in RowsOf(B)
  <2>1. PICK y \in Wikis : e.place = y.place
    BY <1>1, <1>3 DEF MadeOf
  <2>2. PICK z \in Webs : f.place = z.place
    BY <1>1, <1>4 DEF MadeOf
  <2>3. ~SameHalf(y, z)
    BY Sources
  <2> QED
    BY <2>1, <2>2, <2>3 DEF SameHalf, IsWiki
<1>7. OneText(RowsOf(A \o B)) /\ \A f \in RowsOf(A \o B) : Fresh(f)
  BY <1>3, <1>4, <1>5, <1>6, Harvests
<1>8. rows \in Seq(RowsOf(A \o B))
  <2>1. IsFiniteSet(RowsOf(A \o B))
    BY <1>5, RowsAreFinite DEF RowsOf
  <2> QED
    BY <1>2, <2>1, Arranged
<1>9. RowsOf(rows) \subseteq RowsOf(A \o B)
  BY <1>8, RowsAreFinite DEF RowsOf
<1>10. RowsOf(A \o B) \subseteq Row
  BY <1>5, RowsAreFinite DEF RowsOf
<1>11. CorpusSet({}) /\ rows \in Seq(Row)
  BY <1>8, <1>10 DEF CorpusSet, OneText, OneLabel
<1> QED
  BY <1>7, <1>9, <1>11, Grown DEF Corpus

LEMMA DedupeRows ==
  ASSUME NEW rows \in Seq(Row)
  PROVE  /\ dedupe_template_clusters(rows) \in Seq(Row)
         /\ RowsOf(dedupe_template_clusters(rows)) \subseteq RowsOf(rows)
<1> DEFINE earlier(i) == {j \in 1..i : Template[rows[j].text] = Template[rows[i].text]}
           P == {i \in DOMAIN rows : Cardinality(earlier(i)) <= MaxPerCluster}
<1>1. dedupe_template_clusters(rows) = Kept(rows, P)
  BY DEF dedupe_template_clusters
<1>2. P \subseteq DOMAIN rows
  OBVIOUS
<1> HIDE DEF P
<1> QED
  BY <1>1, <1>2, KeptRows DEF RowsOf

LEMMA WebSelectionRows ==
  ASSUME NEW web \in Seq(Row)
  PROVE  WebSelection(web) \in Seq(Row) /\ RowsOf(WebSelection(web)) \subseteq RowsOf(web)
<1> DEFINE ecom == Kept(web, {i \in DOMAIN web : IsShop(web[i])})
           other == Kept(web, {i \in DOMAIN web : ~IsShop(web[i])})
           half == WebKeep \div 2
           cap == IF EcomTarget > half THEN EcomTarget ELSE half
           floor == IF Len(ecom) < cap THEN Len(ecom) ELSE cap
           top == Take(ecom, floor)
           more == SubSeq(ecom, floor + 1, Len(ecom))
           rest == other \o more
<1>1. WebSelection(web) = top \o Take(rest, WebKeep - floor)
  BY DEF WebSelection
<1>2. WebKeep \in Nat /\ EcomTarget \in Nat
  BY GoldAssumption
<1>3. ecom \in Seq(Row) /\ ToSet(ecom) \subseteq ToSet(web)
  <2>1. {i \in DOMAIN web : IsShop(web[i])} \subseteq DOMAIN web
    OBVIOUS
  <2> QED
    BY <2>1, KeptRows
<1>4. other \in Seq(Row) /\ ToSet(other) \subseteq ToSet(web)
  <2>1. {i \in DOMAIN web : ~IsShop(web[i])} \subseteq DOMAIN web
    OBVIOUS
  <2> QED
    BY <2>1, KeptRows
<1> HIDE DEF ecom, other
<1>5. cap \in Nat
  BY <1>2
<1> HIDE DEF cap
<1>6. floor \in Nat /\ floor \in Int /\ Len(ecom) \in Nat
  BY <1>3, <1>5
<1> HIDE DEF floor
<1>7. top \in Seq(Row) /\ ToSet(top) \subseteq ToSet(ecom)
  BY <1>3, <1>6, TakeRows
<1>8. more \in Seq(Row) /\ ToSet(more) \subseteq ToSet(ecom)
  <2>1. floor + 1 \in Nat \ {0} /\ Len(ecom) \in Int
    BY <1>6
  <2> QED
    BY <1>3, <2>1, SliceRows
<1> HIDE DEF top, more
<1>9. rest \in Seq(Row) /\ ToSet(rest) = ToSet(other) \cup ToSet(more)
  BY <1>4, <1>8, ConcatRows
<1> HIDE DEF rest
<1>10. Take(rest, WebKeep - floor) \in Seq(Row) /\ ToSet(Take(rest, WebKeep - floor)) \subseteq ToSet(rest)
  <2>1. WebKeep - floor \in Int
    BY <1>2, <1>6
  <2> QED
    BY <1>9, <2>1, TakeRows
<1>11. /\ WebSelection(web) \in Seq(Row)
       /\ ToSet(WebSelection(web)) = ToSet(top) \cup ToSet(Take(rest, WebKeep - floor))
  BY <1>1, <1>7, <1>10, ConcatRows
<1> QED
  BY <1>3, <1>4, <1>7, <1>8, <1>9, <1>10, <1>11 DEF RowsOf

\* What is harvested and not known yet.
News(found, known) == {i \in DOMAIN found : found[i].text \notin known}

LEMMA Unknown ==
  ASSUME NEW F \in SUBSET Offered, IsFiniteSet(F), NEW found \in Finds(F), NEW known
  PROVE  /\ Kept(found, News(found, known)) \in Seq(Offered)
         /\ Distinct(Kept(found, News(found, known)))
         /\ OneFind(ToSet(Kept(found, News(found, known))))
         /\ \A x \in ToSet(Kept(found, News(found, known))) : x \in F /\ x.text \notin known
<1> DEFINE P == News(found, known)
<1>1. found \in Seq(F) /\ Distinct(found) /\ OneFind(ToSet(found))
  BY Found
<1>2. P \subseteq DOMAIN found
  BY DEF News
<1>3. /\ Kept(found, P) \in Seq(F) /\ Distinct(Kept(found, P))
      /\ ToSet(Kept(found, P)) \subseteq ToSet(found)
  BY <1>1, <1>2, KeptRows, KeptDistinct
<1>4. ToSet(Kept(found, P)) \subseteq {found[i] : i \in P}
  BY <1>1, <1>2, KeptRows
<1>5. \A x \in ToSet(Kept(found, P)) : x \in F /\ x.text \notin known
  BY <1>1, <1>2, <1>4 DEF News
<1>6. Kept(found, P) \in Seq(Offered)
  BY <1>3
<1>7. OneFind(ToSet(Kept(found, P)))
  BY <1>1, <1>3 DEF OneFind
<1> QED
  BY <1>3, <1>5, <1>6, <1>7

LEMMA CleanKeeps ==
  ASSUME NEW base, Corpus(base), NEW w \in Finds(Wikis), NEW x \in Finds(Webs)
  PROVE  Corpus(CleanRows(base, w, x))
<1> DEFINE kept == {i \in DOMAIN base : base[i].text \notin Rejected}
           first == Kept(base, {i \in kept : IsWiki(base[i])})
           wiki == dedupe_template_clusters(first)
           web == Kept(base, {i \in kept : ~IsWiki(base[i])})
           known == Rejected \cup TextsOf(wiki) \cup TextsOf(web)
           new(found, old) == Kept(found, {i \in DOMAIN found : found[i].text \notin old})
           extra == IF Len(wiki) < WikiKeep THEN new(w, known) ELSE <<>>
           more == new(x, known \cup TextsOf(extra))
           shops == Cardinality({i \in 1..Len(web) : IsShop(web[i])})
           A == Numbered("wiki", extra)
           B == Numbered("web", more)
           wikiTop == IF Len(wiki) < WikiKeep THEN dedupe_template_clusters(wiki \o A) ELSE wiki
           webTop == IF Len(web) < WebKeep \/ shops < EcomTarget THEN web \o B ELSE web
<1>1. CleanRows(base, w, x) = Take(wikiTop, WikiKeep) \o WebSelection(webTop)
  BY DEF CleanRows
<1>2. base \in Seq(Row) /\ CorpusSet(ToSet(base))
  BY DEF Corpus, RowsOf
<1>3. first \in Seq(Row) /\ ToSet(first) \subseteq ToSet(base)
  <2>1. {i \in kept : IsWiki(base[i])} \subseteq DOMAIN base
    OBVIOUS
  <2> QED
    BY <1>2, <2>1, KeptRows
<1>4. web \in Seq(Row) /\ ToSet(web) \subseteq ToSet(base)
  <2>1. {i \in kept : ~IsWiki(base[i])} \subseteq DOMAIN base
    OBVIOUS
  <2> QED
    BY <1>2, <2>1, KeptRows
<1> HIDE DEF first, web, shops
<1>5. wiki \in Seq(Row) /\ ToSet(wiki) \subseteq ToSet(base)
  BY <1>3, DedupeRows DEF RowsOf
<1> HIDE DEF wiki, known
<1>6. /\ extra \in Seq(Offered) /\ Distinct(extra) /\ OneFind(ToSet(extra))
      /\ \A y \in ToSet(extra) : y.text \notin known
  <2>1. Wikis \in SUBSET Offered /\ IsFiniteSet(Wikis)
    BY Sources
  <2>2. new(w, known) = Kept(w, News(w, known))
    BY DEF News
  <2> HIDE DEF new
  <2>3. /\ new(w, known) \in Seq(Offered) /\ Distinct(new(w, known)) /\ OneFind(ToSet(new(w, known)))
        /\ \A y \in ToSet(new(w, known)) : y.text \notin known
    BY <2>1, <2>2, Unknown
  <2>4. <<>> \in Seq(Offered) /\ Distinct(<<>>) /\ ToSet(<<>>) = {}
    BY DEF Distinct, ToSet
  <2> QED
    BY <2>3, <2>4 DEF OneFind
<1> HIDE DEF extra
<1>7. /\ more \in Seq(Offered) /\ Distinct(more) /\ OneFind(ToSet(more))
      /\ \A y \in ToSet(more) : y.text \notin known /\ y.text \notin TextsOf(extra)
  <2> DEFINE old == known \cup TextsOf(extra)
  <2>1. Webs \in SUBSET Offered /\ IsFiniteSet(Webs)
    BY Sources
  <2>2. more = Kept(x, News(x, old))
    BY DEF News
  <2> HIDE DEF more, old
  <2>3. /\ more \in Seq(Offered) /\ Distinct(more) /\ OneFind(ToSet(more))
        /\ \A y \in ToSet(more) : y.text \notin old
    BY <2>1, <2>2, Unknown
  <2> QED
    BY <2>3 DEF old
<1> HIDE DEF more, new
<1>8. A \in Seq(Row) /\ OneText(ToSet(A)) /\ \A f \in ToSet(A) : Fresh(f) /\ MadeOf(f, extra)
  BY <1>6, NumberedRows DEF RowsOf
<1>9. B \in Seq(Row) /\ OneText(ToSet(B)) /\ \A f \in ToSet(B) : Fresh(f) /\ MadeOf(f, more)
  BY <1>7, NumberedRows DEF RowsOf
<1> HIDE DEF A, B
<1>10. wikiTop \in Seq(Row) /\ ToSet(wikiTop) \subseteq ToSet(wiki) \cup ToSet(A)
  <2>1. wiki \o A \in Seq(Row) /\ ToSet(wiki \o A) = ToSet(wiki) \cup ToSet(A)
    BY <1>5, <1>8, ConcatRows
  <2>2. /\ dedupe_template_clusters(wiki \o A) \in Seq(Row)
        /\ ToSet(dedupe_template_clusters(wiki \o A)) \subseteq ToSet(wiki \o A)
    BY <2>1, DedupeRows DEF RowsOf
  <2> QED
    BY <1>5, <2>1, <2>2
<1>11. webTop \in Seq(Row) /\ ToSet(webTop) \subseteq ToSet(web) \cup ToSet(B)
  BY <1>4, <1>9, ConcatRows
<1> HIDE DEF wikiTop, webTop
<1>12. Take(wikiTop, WikiKeep) \in Seq(Row) /\ ToSet(Take(wikiTop, WikiKeep)) \subseteq ToSet(wikiTop)
  <2>1. WikiKeep \in Int
    BY GoldAssumption
  <2> QED
    BY <1>10, <2>1, TakeRows
<1>13. WebSelection(webTop) \in Seq(Row) /\ ToSet(WebSelection(webTop)) \subseteq ToSet(webTop)
  BY <1>11, WebSelectionRows DEF RowsOf
<1>14. /\ CleanRows(base, w, x) \in Seq(Row)
       /\ ToSet(CleanRows(base, w, x)) \subseteq (ToSet(wiki) \cup ToSet(web)) \cup (ToSet(A) \cup ToSet(B))
  BY <1>1, <1>10, <1>11, <1>12, <1>13, ConcatRows
<1>15. CorpusSet(ToSet(wiki) \cup ToSet(web))
  BY <1>2, <1>4, <1>5, Part
<1>16. OneText(ToSet(A) \cup ToSet(B))
  <2>1. \A e \in ToSet(A), f \in ToSet(B) : e.text # f.text
    BY <1>7, <1>8, <1>9 DEF MadeOf, TextsOf
  <2> QED
    BY <1>8, <1>9, <2>1, Harvests
<1>17. \A f \in ToSet(A) \cup ToSet(B), e \in ToSet(wiki) \cup ToSet(web) : f.text # e.text
  BY <1>6, <1>7, <1>8, <1>9 DEF known, TextsOf, MadeOf
<1>18. CorpusSet(ToSet(CleanRows(base, w, x)))
  <2>1. \A f \in ToSet(A) \cup ToSet(B) : Fresh(f)
    BY <1>8, <1>9
  <2> QED
    BY <1>14, <1>15, <1>16, <1>17, <2>1, Grown
<1> QED
  BY <1>14, <1>18 DEF Corpus, RowsOf

LEMMA ExpandKeeps ==
  ASSUME NEW base, Corpus(base), NEW x \in Finds({f \in Offered : IsShop(f)})
  PROVE  Corpus(ExpandedRows(base, x))
<1> DEFINE have == Cardinality({i \in 1..Len(base) : IsShop(base[i])})
           fresh == Kept(x, {i \in DOMAIN x : x[i].text \notin TextsOf(base)})
           n == IF EcomTarget > have THEN EcomTarget - have ELSE 0
           added == Take(fresh, n)
           id(i) == LET own == <<"ecom", Source[added[i].place], i - 1>>
                    IN  IF own \in IdsOf(base) THEN <<"ecom", None, Len(base) + i - 1>> ELSE own
           ids == [i \in 1..Len(added) |-> id(i)]
           new == [i \in 1..Len(added) |-> Harvested(ids[i], added[i])]
<1>1. ExpandedRows(base, x) = base \o new
  BY DEF ExpandedRows
<1>2. base \in Seq(Row) /\ CorpusSet(ToSet(base)) /\ Len(base) \in Nat
  BY DEF Corpus, RowsOf
<1>3. n \in Int
  <2>1. have \in Nat
    <3> DEFINE P == {i \in 1..Len(base) : IsShop(base[i])}
    <3>1. P \subseteq 1..Len(base)
      OBVIOUS
    <3> HIDE DEF P
    <3>2. Cardinality(P) \in Nat
      BY <1>2, <3>1, UpToIsFinite
    <3> QED
      BY <3>2 DEF P
  <2> QED
    BY <2>1, GoldAssumption
<1> HIDE DEF n
<1>4. /\ fresh \in Seq(Offered) /\ Distinct(fresh) /\ OneFind(ToSet(fresh))
      /\ \A y \in ToSet(fresh) : y.text \notin TextsOf(base)
  <2>1. {f \in Offered : IsShop(f)} \in SUBSET Offered /\ IsFiniteSet({f \in Offered : IsShop(f)})
    BY Sources
  <2>2. fresh = Kept(x, News(x, TextsOf(base)))
    BY DEF News
  <2> HIDE DEF fresh
  <2> QED
    BY <2>1, <2>2, Unknown
<1> HIDE DEF fresh
<1>5. added \in Seq(Offered) /\ Distinct(added) /\ ToSet(added) \subseteq ToSet(fresh)
  BY <1>3, <1>4, TakeRows, TakeDistinct
<1> HIDE DEF added
<1>6. ids \in [1..Len(added) -> Ids]
  <2>1. ASSUME NEW i \in 1..Len(added) PROVE id(i) \in Ids
    <3>1. /\ added[i] \in Offered /\ Source[added[i].place] \in Range(Source)
          /\ i - 1 \in Nat /\ Len(base) + i - 1 \in Nat
      BY <1>2, <1>5, Offers
    <3> QED
      BY <3>1 DEF Ids
  <2> QED
    BY <2>1
<1> HIDE DEF ids
<1>7. /\ new \in Seq(Row) /\ OneText(ToSet(new))
      /\ \A f \in ToSet(new) : Fresh(f) /\ MadeOf(f, added)
  <2>1. OneFind(ToSet(added))
    BY <1>4, <1>5 DEF OneFind
  <2> QED
    BY <1>5, <1>6, <2>1, FreshRows DEF RowsOf
<1> HIDE DEF new
<1>8. base \o new \in Seq(Row) /\ ToSet(base \o new) = ToSet(base) \cup ToSet(new)
  BY <1>2, <1>7, ConcatRows
<1>9. \A f \in ToSet(new), e \in ToSet(base) : f.text # e.text
  BY <1>4, <1>5, <1>7 DEF TextsOf, MadeOf
<1>10. CorpusSet(ToSet(base \o new))
  BY <1>2, <1>7, <1>8, <1>9, Grown
<1> QED
  BY <1>1, <1>8, <1>10 DEF Corpus, RowsOf

LEMMA MigrateKeeps ==
  ASSUME NEW base, Corpus(base)
  PROVE  Corpus(MigratedRows(base))
<1> DEFINE P == {i \in DOMAIN base : base[i].place \notin Blocked}
<1>1. MigratedRows(base) = Kept(base, P)
  BY DEF MigratedRows
<1>2. P \subseteq DOMAIN base /\ base \in Seq(Row)
  BY DEF Corpus
<1> HIDE DEF P
<1>3. Kept(base, P) \in Seq(Row) /\ ToSet(Kept(base, P)) \subseteq ToSet(base)
  BY <1>2, KeptRows
<1> QED
  BY <1>1, <1>3, ListPart DEF RowsOf

\* Labels are gone and sentences stay.
LEMMA RemintKeeps ==
  ASSUME NEW base, Corpus(base), NEW v \in Versions
  PROVE  Corpus(RemintedRows(base, v))
<1> DEFINE new == RemintedRows(base, v)
<1>1. base \in Seq(Row) /\ DOMAIN base = 1..Len(base) /\ Len(base) \in Nat
  BY DEF Corpus
<1>2. \A i \in 1..Len(base) :
        Fresh(new[i]) /\ new[i].text = base[i].text /\ new[i].place = base[i].place
  <2> TAKE i \in 1..Len(base)
  <2> DEFINE e == base[i]
             n == Unlabeled(e.id, e, Tokens[e.text][v], e.ambiguous)
  <2>1. base[i] \in Row
    BY <1>1
  <2>2. /\ e.id \in Ids /\ e.text \in Texts /\ e.place \in Sites /\ e.ambiguous \in BOOLEAN
        /\ Tokens[e.text][v] \in TokenLists
    BY <2>1, TokensAreLists DEF Row, Tokenizers
  <2>3. new[i] = n
    BY DEF RemintedRows, Reminted
  <2> HIDE DEF e
  <2>4. Fresh(n) /\ n.text = e.text /\ n.place = e.place
    BY <2>2, FreshRow
  <2> QED
    BY <2>3, <2>4 DEF e
<1>3. DOMAIN new = 1..Len(base)
  BY DEF RemintedRows
<1>4. new \in Seq(Row)
  <2>1. new = [i \in 1..Len(base) |-> Reminted(base[i], v)] /\ \A i \in 1..Len(base) : new[i] \in Row
    BY <1>2 DEF RemintedRows, Fresh
  <2> QED
    BY <1>1, <2>1
<1>5. ASSUME NEW i \in 1..Len(base), NEW j \in 1..Len(base),
             new[i].text = new[j].text, SameHalf(new[i], new[j])
      PROVE  new[i] = new[j]
  <2>1. base[i].text = base[j].text /\ base[i] \in RowsOf(base) /\ base[j] \in RowsOf(base)
        /\ SameHalf(base[i], base[j])
    BY <1>1, <1>2, <1>5 DEF RowsOf, ToSet, SameHalf, IsWiki
  <2>2. base[i] = base[j]
    BY <2>1 DEF Corpus, CorpusSet, OneText
  <2> QED
    BY <2>2 DEF RemintedRows
<1> HIDE DEF new
<1>6. OneText(ToSet(new)) /\ \A e \in ToSet(new) : Fresh(e)
  BY <1>2, <1>3, <1>5 DEF OneText, ToSet
<1>7. CorpusSet({})
  BY DEF CorpusSet, OneText, OneLabel
<1>8. CorpusSet(ToSet(new))
  BY <1>6, <1>7, Grown
<1> QED
  BY <1>4, <1>8 DEF Corpus, RowsOf, new

-----------------------------------------------------------------------------
(***************************************************************************)
(* Worksheets and their ingest.                                             *)
(***************************************************************************)
BlockType == [id : Ids, tokens : TokenLists, ezafe : LabelLists \cup {None}, flags : SUBSET Nat]

SheetOK == sheet \in Seq(BlockType) /\ \A b \in ToSet(sheet) : BlockOK(b)

\* The greatest of some positions.
LEMMA Greatest ==
  ASSUME NEW n \in Nat, NEW P, P \subseteq 1..n, P # {}
  PROVE  \E i \in P : \A j \in i + 1..n : j \notin P
<1> DEFINE T == {n - i : i \in P}
<1>1. \A i \in P : i \in 1..n /\ n - i \in Nat
  OBVIOUS
<1>2. T \subseteq Nat /\ T # {}
  BY <1>1
<1>3. PICK m \in T : \A l \in T : m <= l
  BY <1>2, Smallest
<1>4. PICK i \in P : m = n - i
  OBVIOUS
<1>5. \A j \in P : n - j >= n - i
  BY <1>3, <1>4
<1>6. \A j \in P : ~(j > i)
  BY <1>1, <1>5
<1> QED
  BY <1>1, <1>6

\* An id of the file stands for a row of the file.
LEMMA ByIdRow ==
  ASSUME NEW S, NEW base \in Seq(S), NEW id \in IdsOf(base)
  PROVE  ById(base, id) \in ToSet(base) /\ ById(base, id).id = id
<1> DEFINE P == {i \in 1..Len(base) : base[i].id = id}
<1>1. DOMAIN base = 1..Len(base) /\ Len(base) \in Nat
  OBVIOUS
<1>2. P \subseteq 1..Len(base) /\ P # {}
  BY <1>1 DEF IdsOf, ToSet
<1>3. PICK i \in P : \A j \in i + 1..Len(base) : j \notin P
  BY <1>1, <1>2, Greatest
<1>4. \A j \in i + 1..Len(base) : j \in 1..Len(base)
  BY <1>1, <1>3
<1>5. i \in 1..Len(base) /\ base[i].id = id /\ \A j \in i + 1..Len(base) : base[j].id # id
  BY <1>3, <1>4
<1> DEFINE k == CHOOSE i_1 \in 1..Len(base) :
                  base[i_1].id = id /\ \A j \in i_1 + 1..Len(base) : base[j].id # id
<1>6. k \in 1..Len(base) /\ base[k].id = id
  BY <1>5
<1>7. ById(base, id) = base[k]
  BY DEF ById
<1> HIDE DEF k
<1> QED
  BY <1>1, <1>6, <1>7 DEF ToSet

\* A row with the labels of a block is labelled, if the block is of its tokens.
LEMMA IngestedRow ==
  ASSUME NEW e \in Row, NEW b \in BlockType, BlockOK(b), b.tokens = e.tokens, b.ezafe # None
  PROVE  /\ Ingested(e, b) \in Row
         /\ Ingested(e, b).id = e.id /\ Ingested(e, b).text = e.text /\ Ingested(e, b).place = e.place
         /\ Labelled(Ingested(e, b)) /\ Doubted(Ingested(e, b))
<1> DEFINE s == [tokens |-> b.tokens, ezafe |-> b.ezafe, flags |-> b.flags]
           new == Ingested(e, b)
<1>1. /\ b.ezafe \in Labels(e.tokens) /\ e.tokens \in TokenLists /\ b.ezafe \in LabelLists
      /\ b.flags \in FlagChoices
  BY DEF BlockOK, Row, LabelLists
<1>2. s \in Seen
  BY <1>1 DEF Seen, LabelLists
<1>3. s # None
  BY <1>2, GoldAssumption
<1>4. FlagRead(b) \in BOOLEAN
  BY DEF FlagRead
<1> HIDE DEF s
<1>5. /\ new.id = e.id /\ new.text = e.text /\ new.place = e.place /\ new.tokens = e.tokens /\ new.ezafe = b.ezafe
      /\ new.verified = TRUE /\ new.ambiguous = FlagRead(b) /\ new.seen = s
      /\ new \in Row
  BY <1>1, <1>2, <1>4 DEF Ingested, Row, s
<1> HIDE DEF new
<1>6. s.tokens = b.tokens /\ s.ezafe = b.ezafe /\ s.flags = b.flags
  BY DEF s
<1>7. Labelled(new)
  BY <1>1, <1>3, <1>5, <1>6 DEF Labelled
<1>8. Doubted(new)
  BY <1>5, <1>6 DEF Doubted, FlagRead
<1> QED
  BY <1>5, <1>7, <1>8 DEF new

LEMMA IngestKeeps ==
  ASSUME NEW base, Corpus(base), SheetOK, SheetValid(base)
  PROVE  Corpus(IngestedRows(base))
<1> DEFINE row(id) == ById(base, id)
           blocks(id) == {b \in ToSet(sheet) : b.id = row(id).id}
           pick(id) == CHOOSE b \in blocks(id) : TRUE
           made(id) == IF blocks(id) = {} THEN row(id) ELSE Ingested(row(id), pick(id))
           new == IngestedRows(base)
<1>1. base \in Seq(Row) /\ DOMAIN base = 1..Len(base) /\ Len(base) \in Nat /\ CorpusSet(ToSet(base))
  BY DEF Corpus, RowsOf
<1>2. \A i \in 1..Len(base) : base[i].id \in IdsOf(base)
  BY <1>1 DEF IdsOf, ToSet
<1>3. new = [i \in 1..Len(base) |-> made(base[i].id)]
  BY DEF IngestedRows
<1>4. ASSUME NEW id \in IdsOf(base)
      PROVE  row(id) \in ToSet(base) /\ row(id).id = id /\ row(id) \in Row
             /\ Labelled(row(id)) /\ Doubted(row(id))
  <2>1. row(id) \in ToSet(base) /\ row(id).id = id
    BY <1>1, ByIdRow
  <2> QED
    BY <1>1, <2>1 DEF CorpusSet
<1>5. ASSUME NEW id \in IdsOf(base), blocks(id) # {}
      PROVE  /\ pick(id) \in BlockType /\ BlockOK(pick(id))
             /\ pick(id).tokens = row(id).tokens /\ pick(id).ezafe # None
  <2> DEFINE b == pick(id)
  <2>1. b \in ToSet(sheet) /\ b.id = row(id).id
    BY <1>5
  <2> HIDE DEF b
  <2>2. sheet \in Seq(BlockType) /\ BlockOK(b)
    BY <2>1 DEF SheetOK
  <2>3. PICK j \in 1..Len(sheet) : b = sheet[j]
    BY <2>1, <2>2 DEF ToSet
  <2>4. b.tokens = ById(base, b.id).tokens /\ b.ezafe # None
    BY <2>3 DEF SheetValid
  <2>5. b.id = id
    BY <1>4, <2>1
  <2>6. b \in BlockType
    BY <2>2, <2>3
  <2> QED
    BY <2>2, <2>4, <2>5, <2>6 DEF b
<1> HIDE DEF row, blocks, pick
<1>6. ASSUME NEW id \in IdsOf(base)
      PROVE  /\ made(id) \in Row /\ made(id).id = id /\ made(id).text = row(id).text
             /\ made(id).place = row(id).place
             /\ Labelled(made(id)) /\ Doubted(made(id))
  <2>1. CASE blocks(id) = {}
    BY <1>4, <2>1
  <2>2. CASE blocks(id) # {}
    <3>1. /\ Ingested(row(id), pick(id)) \in Row
          /\ Ingested(row(id), pick(id)).id = row(id).id
          /\ Ingested(row(id), pick(id)).text = row(id).text
          /\ Ingested(row(id), pick(id)).place = row(id).place
          /\ Labelled(Ingested(row(id), pick(id))) /\ Doubted(Ingested(row(id), pick(id)))
      BY <1>4, <1>5, <2>2, IngestedRow
    <3> QED
      BY <1>4, <2>2, <3>1
  <2> QED
    BY <2>1, <2>2
<1> HIDE DEF made, new
<1>7. new \in Seq(Row) /\ DOMAIN new = 1..Len(base)
  <2>1. \A i \in 1..Len(base) : made(base[i].id) \in Row
    BY <1>2, <1>6
  <2> QED
    BY <1>1, <1>3, <2>1
<1>8. \A e \in ToSet(new) : \E id \in IdsOf(base) : e = made(id)
  BY <1>2, <1>3, <1>7 DEF ToSet
<1>9. ToSet(new) \subseteq Row /\ \A e \in ToSet(new) : Labelled(e) /\ Doubted(e)
  BY <1>6, <1>8
<1>10. OneLabel(ToSet(new))
  BY <1>6, <1>8 DEF OneLabel
<1>11. OneText(ToSet(new))
  <2>1. ASSUME NEW id \in IdsOf(base), NEW id_1 \in IdsOf(base), row(id).text = row(id_1).text,
               SameHalf(row(id), row(id_1))
        PROVE  id = id_1
    <3>1. row(id) = row(id_1)
      BY <1>1, <1>4, <2>1 DEF CorpusSet, OneText
    <3> QED
      BY <1>4, <3>1
  <2> QED
    BY <1>6, <1>8, <2>1 DEF OneText, SameHalf, IsWiki
<1> QED
  BY <1>7, <1>9, <1>10, <1>11 DEF Corpus, CorpusSet, RowsOf, new

-----------------------------------------------------------------------------
(***************************************************************************)
(* The invariant.                                                           *)
(***************************************************************************)
JobOK(j) ==
  /\ j.cmd \in Writers \cup {"eval"} /\ j.version \in Versions
  /\ Corpus(j.base) /\ (j.out # None => Corpus(j.out))

ScoreOK(r) ==
  /\ r.row \in Row /\ Labelled(r.row) /\ r.version \in Versions
  /\ r.row.ezafe # None
  /\ r.row.tokens = Tokens[r.row.text][r.version]
  /\ r.predicted = r.row.text
  /\ ~FlagRead(r.row.seen)

IInv ==
  /\ Corpus(gold)
  /\ version \in Versions /\ commands \in 0..MaxCommands
  /\ SheetOK
  /\ DOMAIN job = Terminals /\ job = [t \in Terminals |-> job[t]]
  /\ \A t \in Terminals : job[t] # None => JobOK(job[t])
  /\ report # None => report \in Seq(ToSet(report)) /\ \A r \in ToSet(report) : ScoreOK(r)

\* Whatever a script writes is a corpus.
LEMMA ResultsAreCorpora ==
  ASSUME NEW j, JobOK(j), SheetOK, NEW rows \in Results(j)
  PROVE  Corpus(rows)
<1>1. Corpus(j.base) /\ j.version \in Versions
  BY DEF JobOK
<1>2. CASE j.cmd = "collect"
  <2>1. \E w \in Finds(Wikis), x \in Finds(Webs) : rows \in Arrangements(RowsOf(CollectedRows(w, x)))
    BY <1>2 DEF Results
  <2> QED
    BY <2>1, CollectKeeps
<1>3. CASE j.cmd = "expand"
  <2>1. \E x \in Finds({f \in Offered : IsShop(f)}) : rows = ExpandedRows(j.base, x)
    BY <1>3 DEF Results
  <2> QED
    BY <1>1, <2>1, ExpandKeeps
<1>4. CASE j.cmd = "clean"
  <2>1. \E w \in Finds(Wikis), x \in Finds(Webs) : rows = CleanRows(j.base, w, x)
    BY <1>4 DEF Results
  <2> QED
    BY <1>1, <2>1, CleanKeeps
<1>5. CASE j.cmd = "migrate"
  BY <1>1, <1>5, MigrateKeeps DEF Results
<1>6. CASE j.cmd = "remint"
  BY <1>1, <1>6, RemintKeeps DEF Results
<1>7. CASE j.cmd = "ingest"
  <2>1. SheetValid(j.base) /\ rows = IngestedRows(j.base)
    BY <1>7 DEF Results
  <2> QED
    BY <1>1, <2>1, IngestKeeps
<1>8. CASE j.cmd = "eval"
  BY <1>8 DEF Results
<1> QED
  BY <1>2, <1>3, <1>4, <1>5, <1>6, <1>7, <1>8 DEF JobOK, Writers

LEMMA InitEstablishes == Init => IInv
<1> SUFFICES ASSUME Init PROVE IInv
  OBVIOUS
<1>1. Corpus(gold)
  <2>1. CASE gold = <<>>
    BY <2>1, NoRows
  <2>2. CASE gold # <<>>
    <3>1. PICK w \in Finds(Wikis), x \in Finds(Webs) :
            gold = RemintedRows(CleanRows(<<>>, w, x), version)
      BY <2>2 DEF Init
    <3>2. Corpus(CleanRows(<<>>, w, x))
      BY NoRows, CleanKeeps
    <3> QED
      BY <3>1, <3>2, RemintKeeps DEF Init
  <2> QED
    BY <2>1, <2>2
<1>2. SheetOK
  BY DEF Init, SheetOK, ToSet
<1>3. MaxCommands \in Nat
  BY GoldAssumption
<1>4. version \in Versions /\ job = [t \in Terminals |-> None] /\ report = None
  BY DEF Init
<1>5. commands \in 0..MaxCommands
  BY <1>3 DEF Init
<1>7. DOMAIN job = Terminals /\ \A t \in Terminals : job[t] = None
  BY <1>4
<1>8. job = [t \in Terminals |-> job[t]]
  BY <1>4
<1> QED
  BY <1>1, <1>2, <1>4, <1>7, <1>8, <1>5 DEF IInv

\* The end of a script leaves the other jobs.
LEMMA Exits ==
  ASSUME IInv, NEW t \in Terminals, Exit(t)
  PROVE  /\ DOMAIN job' = Terminals /\ job' = [u \in Terminals |-> job'[u]]
         /\ \A u \in Terminals : job'[u] # None => JobOK(job'[u])
<1>1. /\ DOMAIN job = Terminals /\ job = [u \in Terminals |-> job[u]]
      /\ \A u \in Terminals : job[u] # None => JobOK(job[u])
  BY DEF IInv
<1>2. job' = [job EXCEPT ![t] = None]
  BY DEF Exit
<1>3. DOMAIN job' = Terminals /\ \A u \in Terminals : job'[u] = IF u = t THEN None ELSE job[u]
  BY <1>1, <1>2
<1>4. job' = [u \in Terminals |-> job'[u]]
  BY <1>2, <1>1
<1> QED
  BY <1>1, <1>3, <1>4

LEMMA Launches ==
  ASSUME IInv, NEW t \in Terminals, NEW cmd \in Writers \cup {"eval"}, Free(t), Launch(t, cmd)
  PROVE  /\ DOMAIN job' = Terminals /\ job' = [u \in Terminals |-> job'[u]]
         /\ \A u \in Terminals : job'[u] # None => JobOK(job'[u])
         /\ commands' \in 0..MaxCommands
<1> DEFINE new == [cmd |-> cmd, base |-> gold, version |-> version, out |-> None]
<1>1. /\ DOMAIN job = Terminals /\ job = [u \in Terminals |-> job[u]]
      /\ \A u \in Terminals : job[u] # None => JobOK(job[u])
      /\ commands \in 0..MaxCommands
  BY DEF IInv
<1>2. job' = [job EXCEPT ![t] = new] /\ commands' = commands + 1 /\ commands < MaxCommands
  BY DEF Launch, Free
<1>3. JobOK(new)
  BY DEF IInv, JobOK
<1> HIDE DEF new
<1>4. DOMAIN job' = Terminals /\ \A u \in Terminals : job'[u] = IF u = t THEN new ELSE job[u]
  BY <1>1, <1>2
<1>5. job' = [u \in Terminals |-> job'[u]]
  BY <1>2, <1>1
<1>6. commands' \in 0..MaxCommands
  BY <1>1, <1>2, GoldAssumption
<1> QED
  BY <1>1, <1>3, <1>4, <1>5, <1>6

\* The parts of the invariant that a step may leave alone.
LEMMA SheetStays == ASSUME SheetOK, sheet' = sheet PROVE SheetOK'
BY DEF SheetOK, ToSet, BlockOK

LEMMA ReportStays ==
  ASSUME report # None => report \in Seq(ToSet(report)) /\ \A r \in ToSet(report) : ScoreOK(r),
         report' = report
  PROVE  report' # None => report' \in Seq(ToSet(report')) /\ \A r \in ToSet(report') : ScoreOK(r)
OBVIOUS

LEMMA StartKeeps ==
  ASSUME IInv, NEW t \in Terminals,
         StartEval(t) \/ \E cmd \in Scripts : Start(t, cmd)
  PROVE  IInv'
<1>1. PICK cmd \in Writers \cup {"eval"} : Free(t) /\ Launch(t, cmd)
  BY GoldAssumption DEF StartEval, Start
<1>2. UNCHANGED <<gold, sheet, version, report>>
  BY DEF StartEval, Start
<1>3. /\ DOMAIN job' = Terminals /\ job' = [u \in Terminals |-> job'[u]]
      /\ \A u \in Terminals : job'[u] # None => JobOK(job'[u])
      /\ commands' \in 0..MaxCommands
  BY <1>1, Launches
<1>4. SheetOK'
  BY <1>2, SheetStays DEF IInv
<1> QED
  BY <1>2, <1>3, <1>4 DEF IInv

\* A script starts to write a corpus: the file is a part of it.
LEMMA WriteKeeps ==
  ASSUME IInv, NEW t \in Terminals, NEW cmd, Write(t, cmd)
  PROVE  IInv'
<1>1. JobOK(job[t]) /\ DOMAIN job = Terminals /\ job = [u \in Terminals |-> job[u]]
      /\ \A u \in Terminals : job[u] # None => JobOK(job[u])
  BY DEF IInv, Write
<1>2. UNCHANGED <<sheet, version, report, commands>>
  BY DEF Write
<1>3. PICK rows \in Results(job[t]) :
        /\ WriteCut(rows)
        /\ job' = [job EXCEPT ![t] =
                     [cmd |-> cmd, base |-> <<>>, version |-> job[t].version, out |-> rows]]
  BY DEF Write
<1>4. Corpus(rows)
  BY <1>1, ResultsAreCorpora DEF IInv
<1>5. Corpus(gold')
  <2>1. PICK n \in 0..Len(rows) : gold' = SubSeq(rows, 1, n)
    BY <1>3 DEF WriteCut
  <2>2. rows \in Seq(Row) /\ Len(rows) \in Nat
    BY <1>4 DEF Corpus
  <2>3. n \in Int /\ n <= Len(rows) /\ 1 \in Nat \ {0}
    BY <2>2
  <2>4. gold' \in Seq(Row) /\ ToSet(gold') \subseteq ToSet(rows)
    BY <2>1, <2>2, <2>3, SliceRows
  <2> QED
    BY <1>4, <2>4, ListPart DEF RowsOf
<1> DEFINE new == [cmd |-> cmd, base |-> <<>>, version |-> job[t].version, out |-> rows]
<1>6. job' = [job EXCEPT ![t] = new]
  BY <1>3
<1>7. JobOK(new)
  <2>1. cmd \in Writers \cup {"eval"} /\ job[t].version \in Versions
    BY <1>1 DEF Write, JobOK
  <2> QED
    BY <1>4, <2>1, NoRows DEF JobOK
<1> HIDE DEF new
<1>8. DOMAIN job' = Terminals /\ \A u \in Terminals : job'[u] = IF u = t THEN new ELSE job[u]
  BY <1>1, <1>6
<1>9. job' = [u \in Terminals |-> job'[u]]
  BY <1>1, <1>6
<1>10. SheetOK'
  BY <1>2, SheetStays DEF IInv
<1> QED
  BY <1>1, <1>2, <1>5, <1>7, <1>8, <1>9, <1>10 DEF IInv

\* A script ends: the file is what it wrote, or stays as it is.
LEMMA EndKeeps ==
  ASSUME IInv, NEW t \in Terminals, Finish(t) \/ RefuseSheet(t) \/ Interrupt(t)
  PROVE  IInv'
<1>1. JobOK(job[t]) /\ Exit(t)
  BY DEF IInv, Finish, RefuseSheet, Interrupt
<1>2. UNCHANGED <<sheet, version, report, commands>>
  BY DEF Finish, RefuseSheet, Interrupt
<1>3. gold' = gold \/ (job[t].out # None /\ gold' = job[t].out)
  BY DEF Finish, RefuseSheet, Interrupt
<1>4. Corpus(gold')
  BY <1>1, <1>3 DEF IInv, JobOK
<1>5. /\ DOMAIN job' = Terminals /\ job' = [u \in Terminals |-> job'[u]]
      /\ \A u \in Terminals : job'[u] # None => JobOK(job'[u])
  BY <1>1, Exits
<1>6. SheetOK'
  BY <1>2, SheetStays DEF IInv
<1> QED
  BY <1>2, <1>4, <1>5, <1>6 DEF IInv

LEMMA BlockTyped ==
  ASSUME NEW e \in Row PROVE Block(e) \in BlockType /\ BlockOK(Block(e))
BY DEF Block, BlockType, BlockOK, Row

LEMMA MakeSheetKeeps ==
  ASSUME IInv, NEW t \in Terminals, MakeSheet(t)
  PROVE  IInv'
<1>1. PICK P \in SUBSET (DOMAIN gold) :
        sheet' = LET rows == Kept(gold, P) IN [i \in 1..Len(rows) |-> Block(rows[i])]
  BY DEF MakeSheet
<1>2. UNCHANGED <<gold, version, job, report>> /\ commands' = commands + 1 /\ commands < MaxCommands
  BY DEF MakeSheet, Free
<1> DEFINE rows == Kept(gold, P)
<1>4. sheet' = [i \in 1..Len(rows) |-> Block(rows[i])]
  BY <1>1
<1>5. rows \in Seq(Row)
  BY KeptRows DEF IInv, Corpus
<1> HIDE DEF rows
<1>6. \A i \in 1..Len(rows) : Block(rows[i]) \in BlockType /\ BlockOK(Block(rows[i]))
  BY <1>5, BlockTyped
<1>7. sheet' \in Seq(BlockType) /\ DOMAIN sheet' = 1..Len(rows)
  BY <1>4, <1>5, <1>6
<1>8. SheetOK'
  BY <1>4, <1>6, <1>7 DEF SheetOK, ToSet, BlockOK
<1>9. commands' \in 0..MaxCommands
  BY <1>2, GoldAssumption DEF IInv
<1> QED
  BY <1>2, <1>8, <1>9 DEF IInv

LEMMA FillKeeps ==
  ASSUME IInv, NEW i \in 1..Len(sheet), Fill(i)
  PROVE  IInv'
<1>1. UNCHANGED <<gold, version, job, report, commands>>
  BY DEF Fill
<1>2. sheet \in Seq(BlockType) /\ DOMAIN sheet = 1..Len(sheet) /\ sheet[i] \in BlockType
      /\ \A k \in 1..Len(sheet) : BlockOK(sheet[k])
  BY DEF IInv, SheetOK, ToSet
<1>3. PICK labels \in Labels(sheet[i].tokens), flags \in FlagChoices :
        /\ flags \subseteq 0..Len(sheet[i].tokens)
        /\ sheet' = [sheet EXCEPT ![i].ezafe = labels, ![i].flags = flags]
  BY DEF Fill
<1> DEFINE new == [[sheet[i] EXCEPT !.ezafe = labels] EXCEPT !.flags = flags]
<1>4. sheet' = [sheet EXCEPT ![i] = new]
  BY <1>2, <1>3
<1>5. sheet[i].tokens \in TokenLists /\ sheet[i].id \in Ids
  BY <1>2 DEF BlockType
<1>6. labels \in LabelLists
  BY <1>5 DEF LabelLists
<1>7. flags \in SUBSET Nat
  BY GoldAssumption
<1>8. /\ new \in BlockType /\ new.id = sheet[i].id /\ new.tokens = sheet[i].tokens
      /\ new.ezafe = labels /\ new.flags = flags
  BY <1>2, <1>6, <1>7 DEF BlockType
<1>9. BlockOK(new)
  <2>1. labels # None
    BY <1>6, GoldAssumption
  <2> HIDE DEF new
  <2> QED
    BY <1>3, <1>5, <1>8, <2>1 DEF BlockOK
<1> HIDE DEF new
<1>10. sheet' \in Seq(BlockType) /\ \A k \in DOMAIN sheet' : BlockOK(sheet'[k])
  BY <1>2, <1>4, <1>8, <1>9
<1>11. SheetOK'
  BY <1>10 DEF SheetOK, ToSet, BlockOK
<1> QED
  BY <1>1, <1>11 DEF IInv

\* A prediction found by id is that of the row, because labelled rows do not share ids.
LEMMA ScoreKeeps ==
  ASSUME IInv, NEW t \in Terminals, Score(t)
  PROVE  IInv'
<1> DEFINE P == {i \in DOMAIN gold : gold[i].verified /\ gold[i].ezafe # None /\ ~gold[i].ambiguous}
           rows == LabeledRows
           v == job[t].version
<1>1. /\ Exit(t) /\ UNCHANGED <<gold, sheet, version, commands>>
      /\ Minted(rows, v)
      /\ report' = [k \in DOMAIN rows |->
                      [row |-> rows[k], version |-> v, predicted |-> ById(rows, rows[k].id).text]]
  BY DEF Score
<1>2. rows = Kept(gold, P)
  BY DEF LabeledRows
<1>3. P \subseteq DOMAIN gold /\ gold \in Seq(Row) /\ CorpusSet(ToSet(gold))
  BY DEF IInv, Corpus, RowsOf
<1>4. /\ rows \in Seq(Row) /\ ToSet(rows) \subseteq {gold[i] : i \in P} /\ ToSet(rows) \subseteq ToSet(gold)
  <2> HIDE DEF P, rows
  <2> QED
    BY <1>2, <1>3, KeptRows
<1>5. \A e \in ToSet(rows) : e \in ToSet(gold) /\ e.ezafe # None /\ ~e.ambiguous
  BY <1>4
<1> HIDE DEF P, rows, v
<1>6. ASSUME NEW k \in DOMAIN rows PROVE ScoreOK(report'[k])
  <2> DEFINE e == rows[k]
  <2>1. e \in ToSet(rows) /\ e.id \in IdsOf(rows)
    BY DEF ToSet, IdsOf
  <2>2. ById(rows, e.id) \in ToSet(rows) /\ ById(rows, e.id).id = e.id
    BY <1>4, <2>1, ByIdRow
  <2>3. ById(rows, e.id) = e
    BY <1>3, <1>5, <2>1, <2>2 DEF CorpusSet, OneLabel
  <2>4. report'[k].row = e /\ report'[k].version = v /\ report'[k].predicted = e.text
    BY <1>1, <2>3
  <2>5. e.ezafe # None /\ e.tokens = Tokens[e.text][v]
    BY <1>1, <1>5, <2>1 DEF Minted, RowsOf
  <2>6. e \in Row /\ Labelled(e) /\ ~FlagRead(e.seen)
    BY <1>3, <1>5, <2>1 DEF CorpusSet, Doubted
  <2>7. v \in Versions
    BY DEF v, Score, IInv, JobOK
  <2> HIDE DEF e
  <2> QED
    BY <2>4, <2>5, <2>6, <2>7 DEF ScoreOK
<1>7. DOMAIN report' = DOMAIN rows
  BY <1>1
<1>8. report' \in Seq(ToSet(report')) /\ \A r \in ToSet(report') : ScoreOK(r)
  <2>1. \A r \in ToSet(report') : ScoreOK(r)
    BY <1>6, <1>7 DEF ToSet
  <2>2. DOMAIN rows = 1..Len(rows) /\ Len(rows) \in Nat
    BY <1>4
  <2>3. report' = [k \in 1..Len(rows) |-> report'[k]]
    BY <1>1, <2>2
  <2>4. \A k \in 1..Len(rows) : report'[k] \in ToSet(report')
    BY <1>7, <2>2 DEF ToSet
  <2>5. report' \in Seq(ToSet(report'))
    <3> DEFINE new == report'
               S == ToSet(report')
    <3>1. new = [k \in 1..Len(rows) |-> new[k]] /\ \A k \in 1..Len(rows) : new[k] \in S
      BY <2>3, <2>4
    <3> HIDE DEF new, S
    <3>2. new \in Seq(S)
      BY <2>2, <3>1
    <3> QED
      BY <3>2 DEF new, S
  <2> QED
    BY <2>1, <2>5
<1>9. /\ DOMAIN job' = Terminals /\ job' = [u \in Terminals |-> job'[u]]
      /\ \A u \in Terminals : job'[u] # None => JobOK(job'[u])
  BY <1>1, Exits
<1>10. SheetOK'
  BY <1>1, SheetStays DEF IInv
<1> QED
  BY <1>1, <1>8, <1>9, <1>10 DEF IInv

LEMMA NextPreserves == IInv /\ [Next]_vars => IInv'
<1> SUFFICES ASSUME IInv, [Next]_vars PROVE IInv'
  OBVIOUS
<1>1. CASE UNCHANGED vars \/ Upgrade
  <2>1. UNCHANGED <<gold, sheet, job, report, commands>> /\ version' \in Versions
    BY <1>1 DEF vars, Upgrade, IInv
  <2>2. SheetOK'
    BY <2>1, SheetStays DEF IInv
  <2> QED
    BY <2>1, <2>2 DEF IInv
<1>2. CASE Next /\ ~Upgrade
  BY <1>2, StartKeeps, WriteKeeps, EndKeeps, MakeSheetKeeps, FillKeeps, ScoreKeeps DEF Next
<1> QED
  BY <1>1, <1>2

\* Every file the scripts leave behind, and every file they have read, is a corpus: in
\* each half of it a sentence has one row, which may stand there twice.
THEOREM Invariance == Spec => []IInv
<1>1. Init => IInv
  BY InitEstablishes
<1>2. IInv /\ [Next]_vars => IInv'
  BY NextPreserves
<1> QED
  BY <1>1, <1>2, PTL DEF Spec

\* Types, of rows, blocks, scored rows and jobs.
LEMMA CorpusTyped ==
  ASSUME NEW rows, Corpus(rows) PROVE \A e \in RowsOf(rows) : RowOK(e)
<1>1. \A e \in RowsOf(rows) : e \in Row /\ Labelled(e)
  BY DEF Corpus, CorpusSet
<1> QED
  BY <1>1 DEF RowOK, Row, Labelled

THEOREM TypeCorrect == Spec => []TypeOK
<1>1. IInv => TypeOK
  <2> SUFFICES ASSUME IInv PROVE TypeOK
    OBVIOUS
  <2>1. \A e \in RowsOf(gold) : RowOK(e)
    BY CorpusTyped DEF IInv
  <2>2. \A b \in ToSet(sheet) : BlockOK(b)
    BY DEF IInv, SheetOK
  <2>3. report # None => \A r \in ToSet(report) : ScoredOK(r)
    <3>1. \A r : ScoreOK(r) => ScoredOK(r)
      BY DEF ScoreOK, ScoredOK, RowOK, Row, Labelled
    <3> QED
      BY <3>1 DEF IInv
  <2>4. \A t \in Terminals : job[t] # None =>
          /\ job[t].cmd \in Writers \cup {"eval"} /\ job[t].version \in Versions
          /\ \A e \in RowsOf(job[t].base) : RowOK(e)
          /\ job[t].out # None => \A e \in RowsOf(job[t].out) : RowOK(e)
    BY CorpusTyped DEF IInv, JobOK
  <2> QED
    BY <2>1, <2>2, <2>3, <2>4 DEF IInv, TypeOK
<1> QED
  BY <1>1, Invariance, PTL

\* Labels stay with the tokens they were given for.
THEOREM LabelsStay == Spec => []LabelsBelongToTokens
<1>1. IInv => LabelsBelongToTokens
  BY DEF IInv, Corpus, CorpusSet, Labelled, LabelsBelongToTokens
<1> QED
  BY <1>1, Invariance, PTL

\* No sentence gets two different rows in one half of the corpus.
THEOREM HalvesHaveOneTruth == Spec => []OneTruthPerHalf
<1>1. IInv => OneTruthPerHalf
  BY DEF IInv, Corpus, CorpusSet, OneText, SameHalf, OneTruthPerHalf
<1> QED
  BY <1>1, Invariance, PTL

\* Evaluations compare predictions and labels of one sentence under one tokenizer.
THEOREM ScoresAreOfOneSentence == Spec => []ScoresAreSound
<1>1. IInv => ScoresAreSound
  BY DEF IInv, ScoreOK, ScoresAreSound
<1> QED
  BY <1>1, Invariance, PTL

\* Whatever rows the annotators flag, a flag on the row of a labelable token decides.
THEOREM FlagsDecide == Spec => []TokenFlagsDecide
<1>1. IInv => TokenFlagsDecide
  <2> SUFFICES ASSUME IInv PROVE TokenFlagsDecide
    OBVIOUS
  <2>1. \A s : FlagRead(s) <=> \E k \in s.flags : k # 0 /\ s.tokens[k] \in Labelable
    BY DEF FlagRead
  <2>2. \A e \in RowsOf(gold) : e.ezafe # None => (e.ambiguous <=> FlagRead(e.seen))
    BY DEF IInv, Corpus, CorpusSet, Doubted
  <2>3. report # None => \A r \in ToSet(report) : ~FlagRead(r.row.seen)
    BY DEF IInv, ScoreOK
  <2> QED
    BY <2>1, <2>2, <2>3 DEF TokenFlagsDecide
<1> QED
  BY <1>1, Invariance, PTL

\* Of IngestKeepsOtherRows, which gold_ingest refutes, this is what holds: a row whose id
\* no other row of the file has is in what the ingest writes, with its sentence and id, and
\* is not touched when the worksheet has no block of that id.  Colliding ids are the only
\* cause.
OwnId(base, e) == \A f \in RowsOf(base) : f.id = e.id => f = e

IngestKeepsOwnIds ==
  \A t \in Terminals :
    Write(t, "ingest") =>
      \A e \in RowsOf(job[t].base) :
        OwnId(job[t].base, e) =>
          \E f \in RowsOf(job'[t].out) :
            /\ f.text = e.text /\ f.id = e.id
            /\ e.id \notin {b.id : b \in ToSet(sheet)} => f = e

LEMMA IngestedOwnIds ==
  ASSUME NEW base, Corpus(base), NEW e \in RowsOf(base), OwnId(base, e)
  PROVE  \E f \in RowsOf(IngestedRows(base)) :
           /\ f.text = e.text /\ f.id = e.id
           /\ e.id \notin {b.id : b \in ToSet(sheet)} => f = e
<1> DEFINE blocks == {b \in ToSet(sheet) : b.id = e.id}
           new == IngestedRows(base)
<1>1. base \in Seq(Row) /\ DOMAIN base = 1..Len(base)
  BY DEF Corpus
<1>2. PICK i \in 1..Len(base) : base[i] = e
  BY <1>1 DEF RowsOf, ToSet
<1>3. e.id \in IdsOf(base) /\ e \in Row
  BY <1>1, <1>2 DEF IdsOf, ToSet
<1>4. ById(base, e.id) = e
  <2>1. ById(base, e.id) \in RowsOf(base) /\ ById(base, e.id).id = e.id
    BY <1>1, <1>3, ByIdRow DEF RowsOf
  <2> QED
    BY <2>1 DEF OwnId
<1>5. new[i] = IF blocks = {} THEN e ELSE Ingested(e, CHOOSE b \in blocks : TRUE)
  <2> DEFINE row == ById(base, base[i].id)
             of(r) == {b \in ToSet(sheet) : b.id = r.id}
  <2>1. new[i] = IF of(row) = {} THEN row ELSE Ingested(row, CHOOSE b \in of(row) : TRUE)
    BY DEF IngestedRows
  <2>2. row = e
    BY <1>2, <1>4
  <2> HIDE DEF row, of
  <2>3. new[i] = IF of(e) = {} THEN e ELSE Ingested(e, CHOOSE b \in of(e) : TRUE)
    BY <2>1, <2>2
  <2> QED
    BY <2>3 DEF of
<1>6. new[i] \in RowsOf(new)
  BY DEF IngestedRows, RowsOf, ToSet
<1>7. \A b : Ingested(e, b).text = e.text /\ Ingested(e, b).id = e.id
  BY <1>3 DEF Ingested, Row
<1>8. e.id \notin {b.id : b \in ToSet(sheet)} => blocks = {}
  OBVIOUS
<1> HIDE DEF blocks, new
<1>9. new[i].text = e.text /\ new[i].id = e.id /\ (blocks = {} => new[i] = e)
  BY <1>5, <1>7
<1> QED
  BY <1>6, <1>8, <1>9 DEF new

THEOREM IngestLosesCollidingOnly == Spec => [][IngestKeepsOwnIds]_vars
<1>1. IInv /\ [Next]_vars => IngestKeepsOwnIds
  <2> SUFFICES ASSUME IInv, NEW t \in Terminals, Write(t, "ingest"),
                      NEW e \in RowsOf(job[t].base), OwnId(job[t].base, e)
               PROVE  \E f \in RowsOf(job'[t].out) :
                        /\ f.text = e.text /\ f.id = e.id
                        /\ e.id \notin {b.id : b \in ToSet(sheet)} => f = e
    BY DEF IngestKeepsOwnIds
  <2>1. PICK rows \in Results(job[t]) :
          job' = [job EXCEPT ![t] =
                    [cmd |-> "ingest", base |-> <<>>, version |-> job[t].version, out |-> rows]]
    BY DEF Write
  <2>2. job[t].cmd = "ingest" /\ Corpus(job[t].base) /\ DOMAIN job = Terminals
    BY DEF Write, IInv, JobOK
  <2>3. rows = IngestedRows(job[t].base)
    BY <2>2 DEF Results
  <2>4. job'[t].out = rows
    BY <2>1, <2>2
  <2> QED
    BY <2>2, <2>3, <2>4, IngestedOwnIds
<1> QED
  BY <1>1, Invariance, PTL DEF Spec

-----------------------------------------------------------------------------
(***************************************************************************)
(* The metrics.                                                             *)
(***************************************************************************)

\* The tokens of a scored row that a human could label, and what is printed of one.
Labs(r) == {i \in DOMAIN r.row.tokens : r.row.tokens[i] \in Labelable}

CellAt(r, i) == <<r.row.ezafe[i], Flags[r.predicted][r.version][i]>>

CellsFrom(r, at) ==
  at \in Bijection(DOMAIN Cells(r), Labs(r)) /\ \A l \in DOMAIN Cells(r) : Cells(r)[l] = CellAt(r, at[l])

LEMMA CellsOf ==
  ASSUME NEW r, ScoreOK(r)
  PROVE  /\ Cells(r) \in Seq({0, 1} \X {0, 1}) /\ (Cells(r) = <<>> <=> Labs(r) = {})
         /\ \E at : CellsFrom(r, at)
<1> DEFINE tokens == r.row.tokens
           all == [i \in DOMAIN tokens |-> CellAt(r, i)]
           P == Labs(r)
           S == {0, 1} \X {0, 1}
<1>1. /\ r.row.text \in Texts /\ r.version \in Versions /\ tokens = Tokens[r.row.text][r.version]
      /\ r.predicted = r.row.text /\ r.row.ezafe \in Labels(tokens)
  BY DEF ScoreOK, Row, Labelled
<1>2. DOMAIN tokens = 1..Len(tokens) /\ Len(tokens) \in Nat
  BY <1>1, GoldAssumption DEF Tokenizers
<1>3. \A i \in DOMAIN tokens : CellAt(r, i) \in S
  <2>1. r.row.ezafe \in [1..Len(tokens) -> {0, 1}]
    BY <1>1 DEF Labels
  <2>2. Flags[r.predicted][r.version] \in [1..Len(tokens) -> {0, 1}]
    BY <1>1, GoldAssumption
  <2> HIDE DEF tokens
  <2> QED
    BY <1>2, <2>1, <2>2 DEF CellAt
<1>4. Cells(r) = Kept(all, P)
  BY DEF Cells, CellAt, Labs
<1>5. P \subseteq DOMAIN tokens
  BY DEF Labs
<1> HIDE DEF tokens, S, P
<1>6. all \in Seq(S) /\ DOMAIN all = DOMAIN tokens
  BY <1>2, <1>3
<1>7. \A i \in DOMAIN tokens : all[i] = CellAt(r, i)
  OBVIOUS
<1> HIDE DEF all
<1>8. /\ Cells(r) \in Seq(S) /\ IsFiniteSet(P) /\ DOMAIN Cells(r) = 1..Len(Cells(r))
      /\ Len(Cells(r)) = Cardinality(P)
  BY <1>4, <1>5, <1>6, KeptPlaces
<1>9. PICK at \in Bijection(DOMAIN Cells(r), P) : \A l \in DOMAIN Cells(r) : Cells(r)[l] = all[at[l]]
  BY <1>4, <1>5, <1>6, KeptPlaces
<1>10. at \in [DOMAIN Cells(r) -> P]
  BY DEF Bijection, Injection
<1>11. \A l \in DOMAIN Cells(r) : Cells(r)[l] = CellAt(r, at[l])
  BY <1>5, <1>7, <1>9, <1>10
<1>12. CellsFrom(r, at)
  BY <1>11 DEF CellsFrom, P
<1>13. Cells(r) = <<>> <=> P = {}
  <2>1. Cardinality(P) = 0 <=> P = {}
    BY <1>8, FS_EmptySet
  <2>2. Cells(r) = <<>> <=> Len(Cells(r)) = 0
    BY <1>8
  <2> QED
    BY <1>8, <2>1, <2>2
<1> QED
  BY <1>8, <1>12, <1>13 DEF S, P

\* The places of a report that count, for some of its rows.
Scored(R, K) == UNION {{<<k, i>> : i \in Labs(R[k])} : k \in K}

LEMMA ScoredAre ==
  ASSUME NEW R, NEW K
  PROVE  /\ \A x \in Scored(R, K) : x = <<x[1], x[2]>> /\ x[1] \in K /\ x[2] \in Labs(R[x[1]])
         /\ \A k \in K : \A i \in Labs(R[k]) : <<k, i>> \in Scored(R, K)
BY DEF Scored

CellsAmong(R, T, g, p) ==
  Cardinality({x \in T :
                 LET r == R[x[1]]
                 IN  r.row.ezafe[x[2]] = g /\ Flags[r.row.text][r.version][x[2]] = p})

CellCount(R, K, g, p) == CellsAmong(R, Scored(R, K), g, p)

\* Cells are counted as the places of the report they come from.
Recounts(R, K, cells) ==
  /\ Len(cells) = Cardinality(Scored(R, K))
  /\ \A g, p : Count(cells, <<g, p>>) = CellCount(R, K, g, p)

ReportOK(R) == R \in Seq(ToSet(R)) /\ \A k \in DOMAIN R : ScoreOK(R[k])

LEMMA CellPlaces ==
  ASSUME NEW R, ReportOK(R), NEW E, E \subseteq DOMAIN R,
         NEW ps \in Seq(ToSet(R)), NEW at \in Bijection(DOMAIN ps, E), \A j \in DOMAIN ps : ps[j] = R[at[j]]
  PROVE  Recounts(R, E, Joined([j \in DOMAIN ps |-> Cells(ps[j])]))
<1> DEFINE L == [j \in DOMAIN ps |-> Cells(ps[j])]
           S == {0, 1} \X {0, 1}
           to(j) == CHOOSE g : CellsFrom(ps[j], g)
           on == [p \in Places(L) |-> <<at[p[1]], to(p[1])[p[2]]>>]
           T == Scored(R, E)
           cells == Joined(L)
<1>1. /\ at \in [DOMAIN ps -> E]
      /\ \A j, k \in DOMAIN ps : at[j] = at[k] => j = k
      /\ \A k \in E : \E j \in DOMAIN ps : at[j] = k
  BY DEF Bijection, Injection, Surjection, IsInjective
<1>2. \A j \in DOMAIN ps : at[j] \in E /\ ScoreOK(ps[j])
  BY <1>1 DEF ReportOK
<1>3. ASSUME NEW j \in DOMAIN ps
      PROVE  /\ L[j] = Cells(ps[j]) /\ L[j] \in Seq(S)
             /\ \A l \in DOMAIN L[j] : to(j)[l] \in Labs(ps[j]) /\ L[j][l] = CellAt(ps[j], to(j)[l])
             /\ \A l, m \in DOMAIN L[j] : to(j)[l] = to(j)[m] => l = m
             /\ \A i \in Labs(ps[j]) : \E l \in DOMAIN L[j] : to(j)[l] = i
  <2>1. Cells(ps[j]) \in Seq(S) /\ \E g : CellsFrom(ps[j], g)
    BY <1>2, CellsOf
  <2>2. CellsFrom(ps[j], to(j))
    BY <2>1, Zenon
  <2>3. L[j] = Cells(ps[j])
    OBVIOUS
  <2> HIDE DEF L, to, S
  <2> QED
    BY <2>1, <2>2, <2>3 DEF CellsFrom, Bijection, Injection, Surjection, IsInjective
<1>4. L \in Seq(Seq(S))
  <2> DEFINE V == Seq(S)
  <2>1. \A j \in DOMAIN ps : Cells(ps[j]) \in V
    BY <1>3
  <2>2. DOMAIN ps = 1..Len(ps) /\ Len(ps) \in Nat
    OBVIOUS
  <2> HIDE DEF V
  <2>3. L \in Seq(V)
    BY <2>1, <2>2
  <2> QED
    BY <2>3 DEF V
<1>5. DOMAIN L = DOMAIN ps
  OBVIOUS
<1> HIDE DEF L, to, S
<1>6. ASSUME NEW p \in Places(L)
      PROVE  /\ p = <<p[1], p[2]>> /\ p[1] \in DOMAIN ps /\ p[2] \in DOMAIN L[p[1]]
             /\ on[p] = <<at[p[1]], to(p[1])[p[2]]>> /\ on[p] \in T
             /\ L[p[1]][p[2]] = CellAt(R[on[p][1]], on[p][2])
  <2>1. p = <<p[1], p[2]>> /\ p[1] \in DOMAIN ps /\ p[2] \in DOMAIN L[p[1]]
    BY <1>5, PlacesAre
  <2>2. /\ on[p] = <<at[p[1]], to(p[1])[p[2]]>> /\ on[p][1] = at[p[1]] /\ on[p][2] = to(p[1])[p[2]]
        /\ ps[p[1]] = R[at[p[1]]] /\ at[p[1]] \in E
    BY <1>2, <2>1
  <2>3. to(p[1])[p[2]] \in Labs(R[at[p[1]]]) /\ L[p[1]][p[2]] = CellAt(R[at[p[1]]], to(p[1])[p[2]])
    BY <1>3, <2>1, <2>2
  <2> QED
    BY <2>1, <2>2, <2>3, ScoredAre
<1> HIDE DEF on, T
<1>7. \A p, q \in Places(L) : on[p] = on[q] => p = q
  <2> SUFFICES ASSUME NEW p \in Places(L), NEW q \in Places(L), on[p] = on[q] PROVE p = q
    OBVIOUS
  <2>1. at[p[1]] = at[q[1]] /\ to(p[1])[p[2]] = to(q[1])[q[2]]
    BY <1>6
  <2>2. p[1] = q[1]
    BY <1>1, <1>6, <2>1
  <2>3. p[2] = q[2]
    BY <1>3, <1>6, <2>1, <2>2
  <2> QED
    BY <1>6, <2>2, <2>3
<1>8. \A x \in T : \E p \in Places(L) : on[p] = x
  <2> SUFFICES ASSUME NEW x \in T PROVE \E p \in Places(L) : on[p] = x
    OBVIOUS
  <2>1. x = <<x[1], x[2]>> /\ x[1] \in E /\ x[2] \in Labs(R[x[1]])
    BY ScoredAre DEF T
  <2>2. PICK j \in DOMAIN ps : at[j] = x[1]
    BY <1>1, <2>1
  <2>3. PICK l \in DOMAIN L[j] : to(j)[l] = x[2]
    BY <1>3, <2>1, <2>2
  <2> DEFINE p == <<j, l>>
  <2>4. p \in Places(L) /\ p[1] = j /\ p[2] = l
    BY <1>5, PlacesAre
  <2> HIDE DEF p
  <2>5. on[p] = x
    BY <1>6, <2>1, <2>2, <2>3, <2>4
  <2> QED
    BY <2>4, <2>5
<1>9. on \in [Places(L) -> T]
  <2>1. \A p \in Places(L) : on[p] \in T
    BY <1>6
  <2> QED
    BY <2>1 DEF on
<1>10. on \in Bijection(Places(L), T)
  BY <1>7, <1>8, <1>9 DEF Bijection, Injection, Surjection, IsInjective
<1>11. IsFiniteSet(Places(L)) /\ Len(cells) = Cardinality(Places(L))
  BY <1>4, TimesJoined
<1>12. Len(cells) = Cardinality(T)
  <2>1. ExistsBijection(Places(L), T)
    BY <1>10 DEF ExistsBijection
  <2> QED
    BY <1>11, <2>1, FS_Bijection
<1> HIDE DEF cells
<1>13. ASSUME NEW c PROVE Count(cells, c) = Cardinality({x \in T : CellAt(R[x[1]], x[2]) = c})
  <2> DEFINE A == {x \in Places(L) : L[x[1]][x[2]] = c}
             B == {x \in T : CellAt(R[x[1]], x[2]) = c}
  <2>1. Times(cells, c) = Cardinality(A)
    BY <1>4, TimesJoined DEF cells
  <2>2. A \subseteq Places(L) /\ B \subseteq T /\ \A x \in Places(L) : x \in A <=> on[x] \in B
    BY <1>6
  <2> HIDE DEF A, B
  <2>3. Cardinality(A) = Cardinality(B)
    BY <1>10, <1>11, <2>2, SameCount
  <2>4. Count(cells, c) = Times(cells, c)
    BY DEF Count, Times
  <2> QED
    BY <2>1, <2>3, <2>4 DEF B
<1>14. ASSUME NEW g, NEW p PROVE Count(cells, <<g, p>>) = CellCount(R, E, g, p)
  <2>1. ASSUME NEW x \in T
        PROVE  CellAt(R[x[1]], x[2]) = <<g, p>>
               <=> LET r == R[x[1]]
                   IN  r.row.ezafe[x[2]] = g /\ Flags[r.row.text][r.version][x[2]] = p
    <3>1. x[1] \in E
      BY ScoredAre DEF T
    <3>2. R[x[1]].predicted = R[x[1]].row.text
      BY <3>1 DEF ReportOK, ScoreOK
    <3>3. CellAt(R[x[1]], x[2]) =
            <<R[x[1]].row.ezafe[x[2]], Flags[R[x[1]].row.text][R[x[1]].version][x[2]]>>
      BY <3>2 DEF CellAt
    <3> QED
      BY <3>3
  <2>2. {x \in T : CellAt(R[x[1]], x[2]) = <<g, p>>} =
          {x \in T : LET r == R[x[1]]
                     IN  r.row.ezafe[x[2]] = g /\ Flags[r.row.text][r.version][x[2]] = p}
    BY <2>1
  <2>3. Count(cells, <<g, p>>) = Cardinality({x \in T : CellAt(R[x[1]], x[2]) = <<g, p>>})
    BY <1>13
  <2> QED
    BY <2>2, <2>3 DEF CellCount, CellsAmong, T
<1> QED
  BY <1>12, <1>14 DEF Recounts, T, L, cells

\* A slice shows what its rows' places say: the formula of SplitsAddUp, for the
\* rows K of a report R.
Agrees(R, slice, K) ==
  LET examples == {x[1] : x \in Scored(R, K)}
  IN  IF Cardinality(examples) < MinExamples THEN slice = Insufficient
      ELSE /\ slice.status = "ok"
           /\ slice.n_examples = Cardinality(examples)
           /\ slice.n_tokens = Cardinality(Scored(R, K))
           /\ slice.counts = [tp |-> CellCount(R, K, 1, 1), fp |-> CellCount(R, K, 0, 1),
                              tn |-> CellCount(R, K, 0, 0), fn |-> CellCount(R, K, 1, 0)]

\* The rows that have a place a human could label.
Telling(R, K) == {k \in K : Labs(R[k]) # {}}

LEMMA SliceAgrees ==
  ASSUME NEW R, ReportOK(R), NEW K, K \subseteq DOMAIN R, NEW ps \in Seq(ToSet(R)),
         NEW at \in Bijection(DOMAIN ps, Telling(R, K)), \A j \in DOMAIN ps : ps[j] = R[at[j]]
  PROVE  Agrees(R, metrics_slice_payload(ps), K)
<1> DEFINE E == Telling(R, K)
           cells == Joined([j \in DOMAIN ps |-> Cells(ps[j])])
<1>1. E \subseteq K /\ E \subseteq DOMAIN R
  BY DEF Telling
<1>2. Scored(R, E) = Scored(R, K)
  <2>1. \A x \in Scored(R, E) : x \in Scored(R, K)
    BY <1>1, ScoredAre
  <2>2. ASSUME NEW x \in Scored(R, K) PROVE x \in Scored(R, E)
    <3>1. x = <<x[1], x[2]>> /\ x[1] \in K /\ x[2] \in Labs(R[x[1]])
      BY ScoredAre
    <3>2. x[1] \in E
      BY <3>1 DEF Telling
    <3> QED
      BY <3>1, <3>2, ScoredAre
  <2> QED
    BY <2>1, <2>2
<1>3. {x[1] : x \in Scored(R, K)} = E
  <2>1. \A x \in Scored(R, K) : x[1] \in E
    BY <1>2, ScoredAre
  <2>2. ASSUME NEW k \in E PROVE \E x \in Scored(R, K) : x[1] = k
    <3>1. k \in K /\ Labs(R[k]) # {}
      BY DEF Telling
    <3>2. PICK i : i \in Labs(R[k])
      BY <3>1
    <3>3. <<k, i>> \in Scored(R, K) /\ <<k, i>>[1] = k
      BY <3>1, <3>2, ScoredAre
    <3> QED
      BY <3>3
  <2> QED
    BY <2>1, <2>2
<1> HIDE DEF E
<1>4. at \in Bijection(DOMAIN ps, E)
  BY DEF E
<1>5. Len(ps) = Cardinality(E)
  <2>1. Len(ps) \in Nat /\ DOMAIN ps = 1..Len(ps)
    OBVIOUS
  <2>2. \A n \in Nat : IsFiniteSet(1..n) /\ Cardinality(1..n) = n
    BY FS_Interval
  <2>3. IsFiniteSet(DOMAIN ps) /\ Cardinality(DOMAIN ps) = Len(ps)
    <3>1. IsFiniteSet(1..Len(ps)) /\ Cardinality(1..Len(ps)) = Len(ps)
      BY <2>1, <2>2, Zenon
    <3> QED
      BY <2>1, <3>1, Zenon
  <2>4. ExistsBijection(DOMAIN ps, E)
    BY <1>4 DEF ExistsBijection
  <2> QED
    BY <2>3, <2>4, FS_Bijection
<1>6. Recounts(R, E, cells)
  BY <1>1, <1>4, CellPlaces
<1> HIDE DEF cells
<1>7. Len(cells) = Cardinality(Scored(R, K))
  BY <1>2, <1>6 DEF Recounts
<1>8. \A g, p : Count(cells, <<g, p>>) = CellCount(R, K, g, p)
  BY <1>2, <1>6 DEF Recounts, CellCount
<1>9. metrics_slice_payload(ps) =
        IF Len(ps) < MinExamples THEN Insufficient
        ELSE [status |-> "ok", n_examples |-> Len(ps), n_tokens |-> Len(cells),
              counts |-> confusion_counts(cells)]
  BY DEF metrics_slice_payload, cells
<1>10. confusion_counts(cells) =
         [tp |-> CellCount(R, K, 1, 1), fp |-> CellCount(R, K, 0, 1),
          tn |-> CellCount(R, K, 0, 0), fn |-> CellCount(R, K, 1, 0)]
  BY <1>8 DEF confusion_counts
<1> DEFINE n == Cardinality(E)
           shown == [status |-> "ok", n_examples |-> n, n_tokens |-> Cardinality(Scored(R, K)),
                     counts |-> [tp |-> CellCount(R, K, 1, 1), fp |-> CellCount(R, K, 0, 1),
                                 tn |-> CellCount(R, K, 0, 0), fn |-> CellCount(R, K, 1, 0)]]
<1>11. metrics_slice_payload(ps) = IF n < MinExamples THEN Insufficient ELSE shown
  BY <1>5, <1>7, <1>9, <1>10
<1>12. Cardinality({x[1] : x \in Scored(R, K)}) = n
  BY <1>3
<1> HIDE DEF n
<1> QED
  BY <1>11, <1>12 DEF Agrees

\* The scored rows that have a cell.
Pairs(R) == Kept(R, {k \in DOMAIN R : Cells(R[k]) # <<>>})

Sliced(R, key) ==
  metrics_slice_payload(Kept(Pairs(R), {k \in DOMAIN Pairs(R) : key \in SourceKeys(Pairs(R)[k])}))

LEMMA SplitsOf ==
  ASSUME NEW R
  PROVE  /\ evaluate_metric_splits(R).overall = metrics_slice_payload(Pairs(R))
         /\ evaluate_metric_splits(R).n_labelable_tokens =
              Len(Joined([k \in DOMAIN R |-> Cells(R[k])]))
         /\ evaluate_metric_splits(R).by_source =
              [key \in UNION {SourceKeys(r) : r \in ToSet(Pairs(R))} |-> Sliced(R, key)]
BY DEF evaluate_metric_splits, Pairs, Sliced

\* Rows taken from the report, each once, are found at places of the report.
TakenAt(R, ps, E, at) == at \in Bijection(DOMAIN ps, E) /\ \A j \in DOMAIN ps : ps[j] = R[at[j]]

LEMMA PairsAre ==
  ASSUME NEW R, ReportOK(R)
  PROVE  Pairs(R) \in Seq(ToSet(R)) /\ \E at : TakenAt(R, Pairs(R), Telling(R, DOMAIN R), at)
<1> DEFINE S == ToSet(R)
           P == {k \in DOMAIN R : Cells(R[k]) # <<>>}
<1>1. R \in Seq(S) /\ P \subseteq DOMAIN R
  BY DEF ReportOK
<1>2. P = Telling(R, DOMAIN R)
  <2>1. \A k \in DOMAIN R : Cells(R[k]) = <<>> <=> Labs(R[k]) = {}
    BY CellsOf DEF ReportOK
  <2> QED
    BY <2>1 DEF Telling
<1>3. Pairs(R) = Kept(R, P)
  BY DEF Pairs
<1> HIDE DEF S, P
<1>4. Kept(R, P) \in Seq(S)
  BY <1>1, KeptPlaces
<1>5. PICK at \in Bijection(DOMAIN Kept(R, P), P) : \A k \in DOMAIN Kept(R, P) : Kept(R, P)[k] = R[at[k]]
  BY <1>1, KeptPlaces
<1>6. TakenAt(R, Pairs(R), Telling(R, DOMAIN R), at)
  BY <1>2, <1>3, <1>5 DEF TakenAt
<1> QED
  BY <1>3, <1>4, <1>6 DEF S

\* A slice of the rows with cells shows what the places of its rows say.
LEMMA KeptAgrees ==
  ASSUME NEW R, ReportOK(R), NEW K, K \subseteq DOMAIN R,
         NEW from, TakenAt(R, Pairs(R), Telling(R, DOMAIN R), from),
         NEW Q, Q \subseteq DOMAIN Pairs(R), \A j \in DOMAIN Pairs(R) : j \in Q <=> from[j] \in K
  PROVE  Agrees(R, metrics_slice_payload(Kept(Pairs(R), Q)), K)
<1> DEFINE pr == Pairs(R)
           ps == Kept(pr, Q)
           S == ToSet(R)
<1>1. pr \in Seq(S)
  BY PairsAre
<1>2. TakenAt(R, pr, Telling(R, DOMAIN R), from) /\ Q \subseteq DOMAIN pr
      /\ \A j \in DOMAIN pr : j \in Q <=> from[j] \in K
  OBVIOUS
<1> HIDE DEF pr, S
<1>3. ps \in Seq(S)
  BY <1>1, <1>2, KeptPlaces
<1>4. PICK of \in Bijection(DOMAIN ps, Q) : \A i \in DOMAIN ps : ps[i] = pr[of[i]]
  BY <1>1, <1>2, KeptPlaces
<1> HIDE DEF ps
<1> DEFINE at == [i \in DOMAIN ps |-> from[of[i]]]
           E == Telling(R, K)
<1>5. /\ from \in [DOMAIN pr -> Telling(R, DOMAIN R)]
      /\ \A i, j \in DOMAIN pr : from[i] = from[j] => i = j
      /\ \A k \in Telling(R, DOMAIN R) : \E j \in DOMAIN pr : from[j] = k
      /\ \A j \in DOMAIN pr : pr[j] = R[from[j]]
  BY <1>2 DEF TakenAt, Bijection, Injection, Surjection, IsInjective
<1>6. /\ of \in [DOMAIN ps -> Q]
      /\ \A i, j \in DOMAIN ps : of[i] = of[j] => i = j
      /\ \A j \in Q : \E i \in DOMAIN ps : of[i] = j
  BY <1>4 DEF Bijection, Injection, Surjection, IsInjective
<1>7. /\ \A k : k \in Telling(R, DOMAIN R) <=> k \in DOMAIN R /\ Labs(R[k]) # {}
      /\ \A k : k \in E <=> k \in K /\ Labs(R[k]) # {}
  BY DEF Telling
<1> HIDE DEF E
<1>8. \A i \in DOMAIN ps : at[i] = from[of[i]] /\ at[i] \in E /\ ps[i] = R[at[i]]
  BY <1>2, <1>4, <1>5, <1>6, <1>7
<1>9. \A i, j \in DOMAIN ps : at[i] = at[j] => i = j
  BY <1>2, <1>5, <1>6, <1>8
<1>10. ASSUME NEW k \in E PROVE \E i \in DOMAIN ps : at[i] = k
  <2>1. k \in DOMAIN R /\ Labs(R[k]) # {} /\ k \in K
    BY <1>7
  <2>2. PICK j \in DOMAIN pr : from[j] = k
    BY <1>5, <1>7, <2>1
  <2>3. j \in Q
    BY <1>2, <2>1, <2>2
  <2>4. PICK i \in DOMAIN ps : of[i] = j
    BY <1>6, <2>3
  <2> QED
    BY <1>8, <2>2, <2>4
<1>11. at \in [DOMAIN ps -> E]
  BY <1>8
<1> HIDE DEF at
<1>12. at \in Bijection(DOMAIN ps, E)
  BY <1>9, <1>10, <1>11 DEF Bijection, Injection, Surjection, IsInjective
<1>13. Agrees(R, metrics_slice_payload(ps), K)
  BY <1>3, <1>8, <1>12, SliceAgrees DEF E, S
<1> QED
  BY <1>13 DEF ps, pr

\* The rows of a slice by source, and of one by stratum.
LEMMA SlicedAgrees ==
  ASSUME NEW R, ReportOK(R), NEW key, NEW K, K \subseteq DOMAIN R,
         \A k \in DOMAIN R : k \in K <=> key \in SourceKeys(R[k])
  PROVE  Agrees(R, Sliced(R, key), K)
<1> DEFINE pr == Pairs(R)
           Q == {j \in DOMAIN pr : key \in SourceKeys(pr[j])}
<1>1. PICK from : TakenAt(R, pr, Telling(R, DOMAIN R), from)
  BY PairsAre
<1>2. \A j \in DOMAIN pr : from[j] \in DOMAIN R /\ pr[j] = R[from[j]]
  BY <1>1 DEF TakenAt, Bijection, Injection, Telling
<1>3. Q \subseteq DOMAIN pr /\ \A j \in DOMAIN pr : j \in Q <=> from[j] \in K
  BY <1>2
<1>4. Sliced(R, key) = metrics_slice_payload(Kept(pr, Q))
  BY DEF Sliced
<1> HIDE DEF Q
<1> QED
  BY <1>1, <1>3, <1>4, KeptAgrees

StrataSliced(R, key) ==
  metrics_slice_payload(Kept(Pairs(R), {k \in DOMAIN Pairs(R) : key \in StrataKeys(Pairs(R)[k])}))

LEMMA StrataSlicedAgrees ==
  ASSUME NEW R, ReportOK(R), NEW key, NEW K, K \subseteq DOMAIN R,
         \A k \in DOMAIN R : k \in K <=> key \in StrataKeys(R[k])
  PROVE  Agrees(R, StrataSliced(R, key), K)
<1> DEFINE pr == Pairs(R)
           Q == {j \in DOMAIN pr : key \in StrataKeys(pr[j])}
<1>1. PICK from : TakenAt(R, pr, Telling(R, DOMAIN R), from)
  BY PairsAre
<1>2. \A j \in DOMAIN pr : from[j] \in DOMAIN R /\ pr[j] = R[from[j]]
  BY <1>1 DEF TakenAt, Bijection, Injection, Telling
<1>3. Q \subseteq DOMAIN pr /\ \A j \in DOMAIN pr : j \in Q <=> from[j] \in K
  BY <1>2
<1>4. StrataSliced(R, key) = metrics_slice_payload(Kept(pr, Q))
  BY DEF StrataSliced
<1> HIDE DEF Q
<1> QED
  BY <1>1, <1>3, <1>4, KeptAgrees

LEMMA RollupIsSliced ==
  ASSUME NEW R, ReportOK(R), NEW key
  PROVE  Sliced(R, key) = LET by == evaluate_metric_splits(R).by_source
                          IN  IF key \in DOMAIN by THEN by[key] ELSE Insufficient
<1> DEFINE pr == Pairs(R)
           Q == {j \in DOMAIN pr : key \in SourceKeys(pr[j])}
           keys == UNION {SourceKeys(r) : r \in ToSet(pr)}
           by == evaluate_metric_splits(R).by_source
<1>1. by = [k \in keys |-> Sliced(R, k)]
  BY SplitsOf
<1>2. Sliced(R, key) = metrics_slice_payload(Kept(pr, Q))
  BY DEF Sliced
<1>3. CASE key \in keys
  <2> HIDE DEF keys, by
  <2> QED
    BY <1>1, <1>3 DEF by
<1>4. CASE key \notin keys
  <2>1. Q = {}
    BY <1>4 DEF ToSet
  <2>2. Len(Kept(pr, Q)) = 0
    BY <2>1, FS_EmptySet DEF Kept
  <2>3. metrics_slice_payload(Kept(pr, Q)) = Insufficient
    BY <2>2, GoldAssumption DEF metrics_slice_payload
  <2> HIDE DEF keys, by, Q
  <2> QED
    BY <1>1, <1>2, <1>4, <2>3 DEF by
<1> QED
  BY <1>3, <1>4

LEMMA RollupKeys ==
  ASSUME NEW r
  PROVE  /\ <<"rollup", "wikipedia">> \in SourceKeys(r) <=> IsWiki(r.row)
         /\ <<"rollup", "commercial">> \in SourceKeys(r) <=> ~IsWiki(r.row)
BY DEF SourceKeys

LEMMA AllCells ==
  ASSUME NEW R, ReportOK(R)
  PROVE  evaluate_metric_splits(R).n_labelable_tokens = Cardinality(Scored(R, DOMAIN R))
<1> DEFINE at == [k \in DOMAIN R |-> k]
           cells == Joined([k \in DOMAIN R |-> Cells(R[k])])
<1>1. R \in Seq(ToSet(R))
  BY DEF ReportOK
<1>2. at \in [DOMAIN R -> DOMAIN R] /\ \A k \in DOMAIN R : at[k] = k
  OBVIOUS
<1> HIDE DEF at
<1>3. at \in Bijection(DOMAIN R, DOMAIN R) /\ \A k \in DOMAIN R : R[k] = R[at[k]]
  BY <1>2 DEF Bijection, Injection, Surjection, IsInjective
<1>4. Recounts(R, DOMAIN R, cells)
  BY <1>1, <1>3, CellPlaces
<1>5. evaluate_metric_splits(R).n_labelable_tokens = Len(cells)
  BY SplitsOf
<1> QED
  BY <1>4, <1>5 DEF Recounts

LEMMA SplitsHold ==
  ASSUME IInv, report # None
  PROVE  SplitsAddUp
<1> DEFINE R == report
           metrics == evaluate_metric_splits(R)
           wiki == {k \in DOMAIN R : IsWiki(R[k].row)}
           rollup(name) == IF <<"rollup", name>> \in DOMAIN metrics.by_source
                           THEN metrics.by_source[<<"rollup", name>>] ELSE Insufficient
<1>1. ReportOK(R)
  BY DEF IInv, ReportOK, ToSet
<1>2. Agrees(R, metrics.overall, DOMAIN R)
  <2>1. PICK at : TakenAt(R, Pairs(R), Telling(R, DOMAIN R), at)
    BY <1>1, PairsAre
  <2>2. Pairs(R) \in Seq(ToSet(R))
    BY <1>1, PairsAre
  <2>3. metrics.overall = metrics_slice_payload(Pairs(R))
    BY SplitsOf
  <2> HIDE DEF R, metrics
  <2> QED
    BY <1>1, <2>1, <2>2, <2>3, SliceAgrees DEF TakenAt
<1>3. Agrees(R, rollup("wikipedia"), wiki)
  <2>1. \A k \in DOMAIN R : k \in wiki <=> <<"rollup", "wikipedia">> \in SourceKeys(R[k])
    BY RollupKeys
  <2>2. rollup("wikipedia") = Sliced(R, <<"rollup", "wikipedia">>)
    BY <1>1, RollupIsSliced
  <2>3. wiki \subseteq DOMAIN R
    OBVIOUS
  <2> HIDE DEF R, metrics, wiki, rollup
  <2> QED
    BY <1>1, <2>1, <2>2, <2>3, SlicedAgrees
<1>4. Agrees(R, rollup("commercial"), DOMAIN R \ wiki)
  <2> DEFINE K == DOMAIN R \ wiki
  <2>1. \A k \in DOMAIN R : k \in K <=> <<"rollup", "commercial">> \in SourceKeys(R[k])
    BY RollupKeys
  <2>2. rollup("commercial") = Sliced(R, <<"rollup", "commercial">>)
    BY <1>1, RollupIsSliced
  <2>3. K \subseteq DOMAIN R
    OBVIOUS
  <2> HIDE DEF R, metrics, K, rollup
  <2>4. Agrees(R, rollup("commercial"), K)
    BY <1>1, <2>1, <2>2, <2>3, SlicedAgrees
  <2> QED
    BY <2>4 DEF K
<1>5. metrics.n_labelable_tokens = Cardinality(Scored(R, DOMAIN R))
  BY <1>1, AllCells
<1> HIDE DEF metrics
<1> QED
  BY <1>2, <1>3, <1>4, <1>5
  DEF SplitsAddUp, Agrees, Scored, CellCount, CellsAmong, Labs, metrics

\* What evaluate_metric_splits prints (ezafe_gold.py) can be recounted from the
\* rows it scored, over the whole and over the two rollups, whatever the corpus,
\* the model, the sample floor and the interleaving that led to the report.
THEOREM SplitsRecounted == Spec => []SplitsAddUp
<1>1. IInv => SplitsAddUp
  <2>1. CASE report # None
    BY <2>1, SplitsHold
  <2>2. CASE report = None
    BY <2>2 DEF SplitsAddUp
  <2> QED
    BY <2>1, <2>2
<1> QED
  BY <1>1, Invariance, PTL

\* A stratum is shown when and only when a scored row with cells is in it.
StrataShown(R) == UNION {StrataKeys(R[k]) : k \in Telling(R, DOMAIN R)}

LEMMA StrataSlices ==
  ASSUME NEW R, ReportOK(R)
  PROVE  evaluate_metric_splits(R).by_strata = [key \in StrataShown(R) |-> StrataSliced(R, key)]
<1> DEFINE keys == UNION {StrataKeys(r) : r \in ToSet(Pairs(R))}
<1>1. evaluate_metric_splits(R).by_strata = [key \in keys |-> StrataSliced(R, key)]
  BY DEF evaluate_metric_splits, Pairs, StrataSliced
<1>2. keys = StrataShown(R)
  <2>1. PICK from : TakenAt(R, Pairs(R), Telling(R, DOMAIN R), from)
    BY PairsAre
  <2>2. /\ \A j \in DOMAIN Pairs(R) : from[j] \in Telling(R, DOMAIN R) /\ Pairs(R)[j] = R[from[j]]
        /\ \A k \in Telling(R, DOMAIN R) : \E j \in DOMAIN Pairs(R) : from[j] = k
    BY <2>1 DEF TakenAt, Bijection, Injection, Surjection
  <2>3. \A key : key \in keys <=> \E j \in DOMAIN Pairs(R) : key \in StrataKeys(Pairs(R)[j])
    BY DEF ToSet
  <2>4. \A key : key \in StrataShown(R) <=> \E k \in Telling(R, DOMAIN R) : key \in StrataKeys(R[k])
    BY DEF StrataShown
  <2> HIDE DEF keys
  <2>5. ASSUME NEW key PROVE key \in keys <=> key \in StrataShown(R)
    BY <2>2, <2>3, <2>4
  <2> QED
    BY <2>5
<1> QED
  BY <1>1, <1>2

\* What evaluate_metric_splits prints by strata can be recounted as well: there is a slice of
\* each stratum in which a scored row has a labelable token, sentences without a stratum
\* making one of their own, and it counts every such token of its rows once, although a
\* sentence may be in several slices.
StrataAgree ==
  report # None =>
    LET by == evaluate_metric_splits(report).by_strata
    IN  /\ DOMAIN by = StrataShown(report)
        /\ \A key \in DOMAIN by :
             Agrees(report, by[key], {k \in DOMAIN report : key \in StrataKeys(report[k])})

THEOREM StrataRecounted == Spec => []StrataAgree
<1>1. IInv => StrataAgree
  <2> SUFFICES ASSUME IInv, report # None PROVE StrataAgree
    BY DEF StrataAgree
  <2> DEFINE by == evaluate_metric_splits(report).by_strata
  <2>1. ReportOK(report)
    BY DEF IInv, ReportOK, ToSet
  <2>2. by = [key \in StrataShown(report) |-> StrataSliced(report, key)]
    BY <2>1, StrataSlices
  <2> HIDE DEF by
  <2>3. ASSUME NEW key \in DOMAIN by
        PROVE  Agrees(report, by[key], {k \in DOMAIN report : key \in StrataKeys(report[k])})
    <3> DEFINE K == {k \in DOMAIN report : key \in StrataKeys(report[k])}
    <3>1. K \subseteq DOMAIN report /\ \A k \in DOMAIN report : k \in K <=> key \in StrataKeys(report[k])
      OBVIOUS
    <3>2. by[key] = StrataSliced(report, key)
      BY <2>2
    <3> HIDE DEF K
    <3>3. Agrees(report, by[key], K)
      BY <2>1, <3>1, <3>2, StrataSlicedAgrees
    <3> QED
      BY <3>3 DEF K
  <2>4. DOMAIN by = StrataShown(report)
    BY <2>2
  <2> QED
    BY <2>3, <2>4 DEF StrataAgree, by
<1> QED
  BY <1>1, Invariance, PTL
=============================================================================
