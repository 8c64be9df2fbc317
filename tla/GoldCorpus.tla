----------------------------- MODULE GoldCorpus -----------------------------
(***************************************************************************)
(* The life of data/gold/ezafe_gold.jsonl: the scripts that harvest, clean,  *)
(* migrate and remint the corpus, the worksheet a human fills, its ingest    *)
(* and the evaluation, run by operators at several terminals over one file.  *)
(* Every script reads the whole file, works (for minutes, when it harvests)  *)
(* and writes the whole file; nothing locks it and the write is not atomic.  *)
(* Sentences are members of Texts, and what is found is a sentence at a       *)
(* place: a page of Wikipedia or a domain of the web.  One sentence may stand *)
(* at several places.  A script's harvest is a sequence of finds.             *)
(***************************************************************************)
EXTENDS Lists, SequencesExt

CONSTANTS
  Terminals,       \* operators' shells, each running one script at a time
  Texts,           \* sentences
  Sites,          \* pages of Wikipedia and domains of the web
  Kind,            \* Sites -> source_kind: "wiki", "ecommerce" or "other"
  Source,          \* Sites -> page id (wiki) or first label of the domain
  Offered,         \* what the sources offer: which sentence stands where
  Template,        \* Texts -> template fingerprint
  Rejected,        \* sentences rejection_reason gives a reason for
  Blocked,         \* the domains migrate drops
  Versions,        \* DadmaTools versions
  Tokens,          \* Texts -> tokenizer ("raw" or a version) -> tokens
  Labelable,       \* tokens is_token_labelable accepts
  Flags,           \* Texts -> version -> what detect_ezafe says of each token
  Strata,          \* Texts -> strata of the sentence
  MinExamples,     \* MIN_EVAL_EXAMPLES
  WikiKeep, WebKeep, EcomTarget, MaxPerCluster,  \* arguments of the scripts
  Scripts,         \* the writing scripts the operators run
  FlagChoices,     \* bound: sets of worksheet rows of a sentence that may be
                   \* flagged ambiguous; its header is row 0
  MaxCommands,     \* bound: commands started
  None

Tokenizers == Versions \cup {"raw"}
TokenLists == {Tokens[t][k] : t \in Texts, k \in Tokenizers}

\* of a find, and of a row: both have a text and a place
IsWiki(x) == Kind[x.place] = "wiki"
IsShop(x) == Kind[x.place] = "ecommerce"

\* The labels of a worksheet keep a 0 in the place of a token nobody labels.
Labels(tokens) ==
  {l \in [1..Len(tokens) -> {0, 1}] : \A i \in 1..Len(tokens) : tokens[i] \notin Labelable => l[i] = 0}

LabelLists == UNION {Labels(s) : s \in TokenLists}

\* What the human had in view when the labels of a row were given, and gave.
Seen == [tokens : TokenLists, ezafe : LabelLists, flags : FlagChoices]

Writers == {"collect", "expand", "clean", "migrate", "remint", "ingest"}

ASSUME GoldAssumption ==
  /\ Scripts \subseteq Writers
  /\ Kind \in [Sites -> {"wiki", "ecommerce", "other"}] /\ DOMAIN Source = Sites
  /\ Offered \subseteq [text : Texts, place : Sites]
  /\ Rejected \subseteq Texts /\ Blocked \subseteq Sites
  /\ \A t \in Texts, k \in Tokenizers : Tokens[t][k] \in Seq(UNION {ToSet(s) : s \in TokenLists}) \ {<<>>}
  /\ \A t \in Texts, v \in Versions : Flags[t][v] \in [1..Len(Tokens[t][v]) -> {0, 1}]
  /\ {WikiKeep, WebKeep, EcomTarget, MaxPerCluster, MaxCommands} \subseteq Nat
  /\ MinExamples \in Nat \ {0}
  /\ FlagChoices \subseteq SUBSET Nat
  /\ IsFiniteSet(Offered)
  /\ None \notin Texts \cup Versions \cup LabelLists \cup Seen

VARIABLES
  gold,      \* the rows of the file, in order; <<>> when there is none to read:
             \* the file is missing, empty or cut in the middle of a row
  sheet,     \* the worksheet: a block per sentence
  version,   \* the DadmaTools installed
  job,       \* Terminals -> the script running there
  report,    \* the rows the last completed evaluation scored, in order
  commands   \* commands started

vars == <<gold, sheet, version, job, report, commands>>

(***************************************************************************)
(* Rows.  "seen" is a history field: the tokens the human had in view and the *)
(* labels and flags given with them, None without labels.                    *)
(***************************************************************************)
Unlabeled(id, x, tokens, ambiguous) ==
  [id |-> id, text |-> x.text, place |-> x.place, tokens |-> tokens, ezafe |-> None,
   verified |-> FALSE, ambiguous |-> ambiguous, seen |-> None]

\* A harvested sentence has whitespace tokens until it is reminted.
Harvested(id, x) == Unlabeled(id, x, Tokens[x.text]["raw"], FALSE)

Ids == {"wiki", "web", "ecom"} \X (Range(Source) \cup {None}) \X Nat

\* the slice s[:n]
Take(s, n) == SubSeq(s, 1, IF n < Len(s) THEN n ELSE Len(s))

RowsOf(rows) == ToSet(rows)
TextsOf(rows) == {e.text : e \in ToSet(rows)}
IdsOf(rows) == {e.id : e \in ToSet(rows)}

(***************************************************************************)
(* The file.  load_ezafe_gold refuses a missing, empty or torn file.         *)
(***************************************************************************)
Loadable == gold # <<>>

\* load_ezafe_gold(require_labeled=True)
LabeledRows ==
  Kept(gold, {i \in DOMAIN gold : gold[i].verified /\ gold[i].ezafe # None /\ ~gold[i].ambiguous})

\* write_ezafe_gold truncates the file and writes it: until it is through, and for
\* good when the process dies on the way, the file holds some of the first rows, or
\* none that can be read when it is cut inside a row.
WriteCut(rows) ==
  \E n \in 0..Len(rows) : (n = 0 \/ n < Len(rows)) /\ gold' = SubSeq(rows, 1, n)

(***************************************************************************)
(* Harvesting: any finds among those offered, in any order, a sentence once    *)
(* per harvest; and any rows of what collect harvests: select_corpus goes by   *)
(* strata and quotas, and by ids, not by sentences.                            *)
(***************************************************************************)
Arrangements(S) == UNION {SetToSeqs(C) : C \in SUBSET S}

Finds(F) ==
  UNION {SetToSeqs(C) : C \in {C \in SUBSET F : \A x, y \in C : x.text = y.text => x = y}}

\* ids count the rows accepted in the harvest at hand
Numbered(prefix, found) ==
  [i \in 1..Len(found) |-> Harvested(<<prefix, Source[found[i].place], i - 1>>, found[i])]

\* collect_ezafe_gold numbers the web rows without their domain. Each harvest knows
\* its own sentences only: one that both find has a row in both halves.
CollectedRows(wiki, web) ==
  Numbered("wiki", wiki)
    \o [i \in 1..Len(web) |-> Harvested(<<"web", None, i - 1>>, web[i])]

\* Mutant: the sentences of the file are found again.
ExpandedAgain(base, found) ==
  base \o [i \in 1..Len(found) |-> Harvested(<<"ecom", Source[found[i].place], Len(base) + i - 1>>, found[i])]

\* expand_ecommerce_gold: sentences not in the file, until the target is met.
\* An id the file already has is replaced by one numbered from its length, which
\* is not looked up again.
ExpandedRows(base, found) ==
  LET have == Cardinality({i \in 1..Len(base) : IsShop(base[i])})
      fresh == Kept(found, {i \in DOMAIN found : found[i].text \notin TextsOf(base)})
      added == Take(fresh, IF EcomTarget > have THEN EcomTarget - have ELSE 0)
      id(i) == LET own == <<"ecom", Source[added[i].place], i - 1>>
               IN  IF own \in IdsOf(base) THEN <<"ecom", None, Len(base) + i - 1>> ELSE own
  IN  base \o [i \in 1..Len(added) |-> Harvested(id(i), added[i])]

(***************************************************************************)
(* Cleaning (clean_rebuild_ezafe_gold).                                      *)
(***************************************************************************)

\* dedupe_template_clusters: the first rows of each template.
dedupe_template_clusters(rows) ==
  LET earlier(i) == {j \in 1..i : Template[rows[j].text] = Template[rows[i].text]}
  IN  Kept(rows, {i \in DOMAIN rows : Cardinality(earlier(i)) <= MaxPerCluster})

\* The ecommerce floor first, then the other web rows, then more ecommerce.
WebSelection(web) ==
  LET ecom == Kept(web, {i \in DOMAIN web : IsShop(web[i])})
      other == Kept(web, {i \in DOMAIN web : ~IsShop(web[i])})
      half == WebKeep \div 2
      cap == IF EcomTarget > half THEN EcomTarget ELSE half
      floor == IF Len(ecom) < cap THEN Len(ecom) ELSE cap
      top == Take(ecom, floor)
      rest == other \o SubSeq(ecom, floor + 1, Len(ecom))
  IN  top \o Take(rest, WebKeep - floor)

\* The rows of the file that pass the body filter come first; what is missing is
\* topped up from two harvests that know the texts kept, and the second those of
\* the first, but not the ids.
CleanRows(base, foundWiki, foundWeb) ==
  LET kept == {i \in DOMAIN base : base[i].text \notin Rejected}
      wiki == dedupe_template_clusters(Kept(base, {i \in kept : IsWiki(base[i])}))
      web == Kept(base, {i \in kept : ~IsWiki(base[i])})
      known == Rejected \cup TextsOf(wiki) \cup TextsOf(web)
      new(found, old) == Kept(found, {i \in DOMAIN found : found[i].text \notin old})
      shops == Cardinality({i \in 1..Len(web) : IsShop(web[i])})
      extra == IF Len(wiki) < WikiKeep THEN new(foundWiki, known) ELSE <<>>
      wikiTop == IF Len(wiki) < WikiKeep
                 THEN dedupe_template_clusters(wiki \o Numbered("wiki", extra))
                 ELSE wiki
      webTop == IF Len(web) < WebKeep \/ shops < EcomTarget
                THEN web \o Numbered("web", new(foundWeb, known \cup TextsOf(extra)))
                ELSE web
  IN  Take(wikiTop, WikiKeep) \o WebSelection(webTop)

\* migrate_ezafe_sources drops rows of unclear domains; sources are rewritten.
MigratedRows(base) == Kept(base, {i \in DOMAIN base : base[i].place \notin Blocked})

\* Mutant: the labels are left on the row when its tokens are replaced.
RemintedKeepingLabels(base, v) ==
  [i \in 1..Len(base) |-> [base[i] EXCEPT !.tokens = Tokens[base[i].text][v]]]

\* The model's tokens replace the row's, its labels are cleared, ambiguous is kept:
\* what dryrun_ezafe_alignment --apply-dadma-tokens makes of a row, and remint too.
Reminted(e, v) == Unlabeled(e.id, e, Tokens[e.text][v], e.ambiguous)

\* remint_gold_char_spans
RemintedRows(base, v) == [i \in 1..Len(base) |-> Reminted(base[i], v)]

(***************************************************************************)
(* Worksheets.  A block is a sentence header and a row per token.  The human  *)
(* gives each labelable token a 0 or a 1 and may put the ambiguous flag on     *)
(* any of these rows: the header (row 0) and those of the tokens.             *)
(***************************************************************************)
Block(e) == [id |-> e.id, tokens |-> e.tokens, ezafe |-> None, flags |-> {}]

\* The row an id stands for: the last one, as in {ex.id: ex for ex in base_list}.
ById(base, id) == base[CHOOSE i \in 1..Len(base) :
  base[i].id = id /\ \A j \in i + 1..Len(base) : base[j].id # id]

\* Mutant: the tokens of a block are not compared with those of the row.
SheetOfAnyTokens(base) ==
  /\ sheet # <<>>
  /\ \A i, j \in 1..Len(sheet) : sheet[i].id = sheet[j].id => i = j
  /\ \A i \in 1..Len(sheet) : sheet[i].id \in IdsOf(base) /\ sheet[i].ezafe # None

\* ingest_worksheet_csv: every block is of a known id and once only, repeats the
\* tokens of its row and is labelled throughout.
SheetValid(base) ==
  /\ sheet # <<>>
  /\ \A i, j \in 1..Len(sheet) : sheet[i].id = sheet[j].id => i = j
  /\ \A i \in 1..Len(sheet) :
       /\ sheet[i].id \in IdsOf(base)
       /\ sheet[i].tokens = ById(base, sheet[i].id).tokens
       /\ sheet[i].ezafe # None

\* Mutant: the flag column is not read.
FlagIgnored(b) == FALSE

\* The flag is read on the rows of labelable tokens only.
FlagRead(b) == \E k \in b.flags \ {0} : b.tokens[k] \in Labelable

Ingested(e, b) ==
  [e EXCEPT !.ezafe = b.ezafe, !.verified = TRUE, !.ambiguous = FlagRead(b),
            !.seen = [tokens |-> b.tokens, ezafe |-> b.ezafe, flags |-> b.flags]]

\* Mutant: the rows of the file are labelled in place, twins of an id alike.
IngestedInPlace(base) ==
  [i \in 1..Len(base) |->
     LET blocks == {b \in ToSet(sheet) : b.id = base[i].id}
     IN  IF blocks = {} THEN base[i] ELSE Ingested(base[i], CHOOSE b \in blocks : TRUE)]

\* ingest_ezafe_worksheet: the rows are rebuilt by id in the order of the file.
IngestedRows(base) ==
  [i \in 1..Len(base) |->
     LET e == ById(base, base[i].id)
         blocks == {b \in ToSet(sheet) : b.id = e.id}
     IN  IF blocks = {} THEN e ELSE Ingested(e, CHOOSE b \in blocks : TRUE)]

(***************************************************************************)
(* Scripts: each reads the file when it starts and writes it when it ends.   *)
(***************************************************************************)
Wikis == {x \in Offered : IsWiki(x)}
Webs == Offered \ Wikis

\* The files a script may come to write, from what it read.
Results(j) ==
  CASE j.cmd = "collect" ->
         UNION {Arrangements(RowsOf(CollectedRows(w, x))) : w \in Finds(Wikis), x \in Finds(Webs)}
    [] j.cmd = "expand" -> {ExpandedRows(j.base, x) : x \in Finds({f \in Offered : IsShop(f)})}
    [] j.cmd = "clean" -> {CleanRows(j.base, w, x) : w \in Finds(Wikis), x \in Finds(Webs)}
    [] j.cmd = "migrate" -> {MigratedRows(j.base)}
    [] j.cmd = "remint" -> {RemintedRows(j.base, j.version)}
    [] j.cmd = "ingest" -> IF SheetValid(j.base) THEN {IngestedRows(j.base)} ELSE {}
    [] OTHER -> {}

\* The file is missing, or cleaned, reminted and unlabelled as it is committed.
Init ==
  /\ version \in Versions
  /\ gold \in {<<>>} \cup {RemintedRows(CleanRows(<<>>, w, x), version) :
                           w \in Finds(Wikis), x \in Finds(Webs)}
  /\ sheet = <<>>
  /\ job = [t \in Terminals |-> None]
  /\ report = None
  /\ commands = 0

Free(t) == job[t] = None /\ commands < MaxCommands

Launch(t, cmd) ==
  /\ job' = [job EXCEPT ![t] = [cmd |-> cmd, base |-> gold, version |-> version, out |-> None]]
  /\ commands' = commands + 1

Exit(t) == job' = [job EXCEPT ![t] = None]

\* Only collect starts without a file to read.
Start(t, cmd) ==
  /\ Free(t)
  /\ Loadable \/ cmd = "collect"
  /\ Launch(t, cmd)
  /\ UNCHANGED <<gold, sheet, version, report>>

\* The script is through with its work, and with what it read, and writes the file:
\* other scripts may read it half-written. Of two that write at once one file is left,
\* never a mixture.
Write(t, cmd) ==
  /\ job[t] # None /\ job[t].cmd = cmd /\ job[t].out = None
  /\ \E rows \in Results(job[t]) :
       /\ WriteCut(rows)
       /\ job' = [job EXCEPT ![t] =
                    [cmd |-> cmd, base |-> <<>>, version |-> @.version, out |-> rows]]
  /\ UNCHANGED <<sheet, version, report, commands>>

Finish(t) ==
  /\ job[t] # None /\ job[t].out # None
  /\ gold' = job[t].out
  /\ Exit(t)
  /\ UNCHANGED <<sheet, version, report, commands>>

\* ingest prints the first thing wrong with the worksheet and exits.
RefuseSheet(t) ==
  /\ job[t] # None /\ job[t].cmd = "ingest" /\ job[t].out = None /\ ~SheetValid(job[t].base)
  /\ Exit(t)
  /\ UNCHANGED <<gold, sheet, version, report, commands>>

\* A script is interrupted while it works, or while it writes: the file stays as
\* it is.
Interrupt(t) ==
  /\ job[t] # None
  /\ Exit(t)
  /\ UNCHANGED <<gold, sheet, version, report, commands>>

\* make_ezafe_worksheet: every row, or a batch that takes an id once, shuffled,
\* though nothing depends on the order of the blocks; an earlier worksheet of the
\* same name is overwritten.
MakeSheet(t) ==
  /\ Free(t) /\ Loadable
  /\ \E batch \in SUBSET (DOMAIN gold) :
       /\ batch = DOMAIN gold \/ \A i, j \in batch : gold[i].id = gold[j].id => i = j
       /\ sheet' = LET rows == Kept(gold, batch) IN [i \in 1..Len(rows) |-> Block(rows[i])]
  /\ commands' = commands + 1
  /\ UNCHANGED <<gold, version, job, report>>

\* The human labels a sentence, and flags it when two readings are possible.
Fill(i) ==
  /\ sheet[i].ezafe = None
  /\ \E labels \in Labels(sheet[i].tokens), flags \in FlagChoices :
       /\ flags \subseteq 0..Len(sheet[i].tokens)
       /\ sheet' = [sheet EXCEPT ![i].ezafe = labels, ![i].flags = flags]
  /\ UNCHANGED <<gold, version, job, report, commands>>

\* verify_example_tokens_against_model, of every row
Minted(rows, v) == \A e \in RowsOf(rows) : e.tokens = Tokens[e.text][v]

\* eval_ezafe_gold verifies the whole file first ...
StartEval(t) ==
  /\ Free(t) /\ Loadable
  /\ Minted(gold, version)
  /\ Launch(t, "eval")
  /\ UNCHANGED <<gold, sheet, version, report>>

\* Mutant: the check of the tokens before the run is deemed enough.
ScoreUnchecked(t) ==
  LET rows == LabeledRows
      v == job[t].version
      predicted(e) == ById(rows, e.id).text
  IN  /\ job[t] # None /\ job[t].cmd = "eval"
      /\ Loadable /\ rows # <<>>
      /\ report' = [k \in DOMAIN rows |->
                      [row |-> rows[k], version |-> v, predicted |-> predicted(rows[k])]]
      /\ Exit(t)
      /\ UNCHANGED <<gold, sheet, version, commands>>

\* ... and then reads it again: the tokens are compared once more, row by row,
\* as predictions are made; these are kept by id.
Score(t) ==
  LET rows == LabeledRows
      v == job[t].version
      predicted(e) == ById(rows, e.id).text
  IN  /\ job[t] # None /\ job[t].cmd = "eval"
      /\ Loadable /\ rows # <<>>
      /\ Minted(rows, v)
      /\ \A e \in RowsOf(rows) : Len(Tokens[predicted(e)][v]) = Len(e.ezafe)
      /\ report' = [k \in DOMAIN rows |->
                      [row |-> rows[k], version |-> v, predicted |-> predicted(rows[k])]]
      /\ Exit(t)
      /\ UNCHANGED <<gold, sheet, version, commands>>

(***************************************************************************)
(* The metrics an evaluation prints (evaluate_metric_splits), of the rows it  *)
(* scored: overall, by source and by strata.  Ratios are left out.            *)
(***************************************************************************)

\* Mutant: every token counts, labelable or not.
CellsOfAll(r) ==
  [i \in DOMAIN r.row.tokens |-> <<r.row.ezafe[i], Flags[r.predicted][r.version][i]>>]

\* Gold label and predicted flag of the labelable tokens of a row.
Cells(r) ==
  Kept([i \in DOMAIN r.row.tokens |-> <<r.row.ezafe[i], Flags[r.predicted][r.version][i]>>],
       {i \in DOMAIN r.row.tokens : r.row.tokens[i] \in Labelable})

Count(cells, cell) == Cardinality({i \in DOMAIN cells : cells[i] = cell})

confusion_counts(cells) ==
  [tp |-> Count(cells, <<1, 1>>), fp |-> Count(cells, <<0, 1>>),
   tn |-> Count(cells, <<0, 0>>), fn |-> Count(cells, <<1, 0>>)]

Insufficient == [status |-> "insufficient_sample"]

\* A slice of few examples shows no numbers.
metrics_slice_payload(pairs) ==
  LET cells == Joined([k \in DOMAIN pairs |-> Cells(pairs[k])])
  IN  IF Len(pairs) < MinExamples THEN Insufficient
      ELSE [status |-> "ok", n_examples |-> Len(pairs), n_tokens |-> Len(cells),
            counts |-> confusion_counts(cells)]

\* Mutant: commercial is what a shop sells; a magazine goes with Wikipedia.
SourceKeysByShop(r) ==
  {<<"rollup", IF IsShop(r.row) THEN "commercial" ELSE "wikipedia">>,
   <<"domain", IF IsWiki(r.row) THEN "fa.wikipedia.org" ELSE r.row.place>>}

\* The slices by source a row is in.
SourceKeys(r) ==
  {<<"rollup", IF IsWiki(r.row) THEN "wikipedia" ELSE "commercial">>,
   <<"domain", IF IsWiki(r.row) THEN "fa.wikipedia.org" ELSE r.row.place>>}

StrataKeys(r) == IF Strata[r.row.text] = {} THEN {"(none)"} ELSE Strata[r.row.text]

\* A row without a labelable token is in no slice.
evaluate_metric_splits(rows) ==
  LET pairs == Kept(rows, {k \in DOMAIN rows : Cells(rows[k]) # <<>>})
      labelable == Len(Joined([k \in DOMAIN rows |-> Cells(rows[k])]))
      tokens == Len(Joined([k \in DOMAIN rows |-> rows[k].row.tokens]))
      slices(Keys(_)) ==
        [key \in UNION {Keys(r) : r \in ToSet(pairs)} |->
           metrics_slice_payload(Kept(pairs, {k \in DOMAIN pairs : key \in Keys(pairs[k])}))]
  IN  [n_labelable_tokens |-> labelable,
       n_skipped_non_labelable |-> tokens - labelable,
       overall |-> metrics_slice_payload(pairs),
       by_source |-> slices(SourceKeys),
       by_strata |-> slices(StrataKeys)]

Upgrade ==
  /\ \E v \in Versions \ {version} : version' = v
  /\ UNCHANGED <<gold, sheet, job, report, commands>>

Next ==
  \/ \E t \in Terminals :
       \/ \E cmd \in Scripts : Start(t, cmd) \/ Write(t, cmd)
       \/ Finish(t) \/ RefuseSheet(t) \/ Interrupt(t) \/ MakeSheet(t) \/ StartEval(t) \/ Score(t)
  \/ \E i \in 1..Len(sheet) : Fill(i)
  \/ Upgrade

Spec == Init /\ [][Next]_vars

(***************************************************************************)
(* Properties.                                                              *)
(***************************************************************************)
RowOK(e) ==
  /\ e.id \in Ids /\ e.text \in Texts /\ e.place \in Sites /\ e.tokens \in TokenLists
  /\ e.ezafe \in Labels(e.tokens) \cup {None}
  /\ e.verified \in BOOLEAN /\ e.ambiguous \in BOOLEAN
  /\ e.seen \in Seen \cup {None}

BlockOK(b) ==
  /\ b.id \in Ids /\ b.tokens \in TokenLists
  /\ b.ezafe \in Labels(b.tokens) \cup {None}
  /\ b.flags \subseteq 0..Len(b.tokens)
  /\ IF b.ezafe = None THEN b.flags = {} ELSE b.flags \in FlagChoices

ScoredOK(r) == RowOK(r.row) /\ r.version \in Versions /\ r.predicted \in Texts

TypeOK ==
  /\ \A e \in RowsOf(gold) : RowOK(e)
  /\ \A b \in ToSet(sheet) : BlockOK(b)
  /\ report # None => \A r \in ToSet(report) : ScoredOK(r)
  /\ version \in Versions /\ commands \in 0..MaxCommands
  /\ \A t \in Terminals : job[t] # None =>
       /\ job[t].cmd \in Writers \cup {"eval"} /\ job[t].version \in Versions
       /\ \A e \in RowsOf(job[t].base) : RowOK(e)
       /\ job[t].out # None => \A e \in RowsOf(job[t].out) : RowOK(e)

\* Labels never move to other tokens: every labelled row carries exactly what a
\* human gave on seeing its present tokens, and rows are verified when and only
\* when they are labelled, whatever was reminted, cleaned, re-ingested from an
\* old worksheet or overwritten by a script that had read an older file.
LabelsBelongToTokens ==
  \A e \in RowsOf(gold) :
    /\ e.verified <=> e.ezafe # None
    /\ e.ezafe # None =>
         e.seen # None /\ e.seen.tokens = e.tokens /\ e.seen.ezafe = e.ezafe

\* In each half of the corpus, Wikipedia and the web, a sentence has one truth: two
\* rows of the half with one sentence are the same row (an ingest may double a row
\* when ids collide), so neither half ever holds it both labelled and unlabelled, or
\* labelled twice differently. It may stand in both halves, and be labelled in each.
OneTruthPerHalf ==
  \A e, f \in RowsOf(gold) : e.text = f.text /\ (IsWiki(e) <=> IsWiki(f)) => e = f

\* What an evaluation scores is sound: each row is labelled, its tokens are those
\* of the model that predicted, and its prediction, looked up by id, was made
\* from its own sentence, although ids may collide and the file may be rewritten
\* between the check of the tokens and the scoring.
ScoresAreSound ==
  report # None => \A r \in ToSet(report) :
    /\ r.row.ezafe # None
    /\ r.row.tokens = Tokens[r.row.text][r.version]
    /\ r.predicted = r.row.text

\* What the evaluation prints can be recounted from the rows it scored, a row as
\* often as the file has it: in the whole and in each of the two rollups the cells
\* of the confusion are the tokens of those rows that a human could label, with the
\* flag the backend gave for that very sentence; tokens nobody labels are in no
\* cell; and the numbers of a slice are shown when and only when it has enough rows,
\* so that the rollups shown add up to the whole.
SplitsAddUp ==
  report # None =>
    LET metrics == evaluate_metric_splits(report)
        scored(K) == UNION {{<<k, i>> : i \in {i \in DOMAIN report[k].row.tokens :
                                             report[k].row.tokens[i] \in Labelable}} : k \in K}
        cell(K, g, p) ==
          Cardinality({x \in scored(K) :
            LET r == report[x[1]]
            IN  r.row.ezafe[x[2]] = g /\ Flags[r.row.text][r.version][x[2]] = p})
        recount(K) == [tp |-> cell(K, 1, 1), fp |-> cell(K, 0, 1),
                       tn |-> cell(K, 0, 0), fn |-> cell(K, 1, 0)]
        agrees(slice, K) ==
          LET examples == {x[1] : x \in scored(K)}
          IN  IF Cardinality(examples) < MinExamples THEN slice = Insufficient
              ELSE /\ slice.status = "ok"
                   /\ slice.n_examples = Cardinality(examples)
                   /\ slice.n_tokens = Cardinality(scored(K))
                   /\ slice.counts = recount(K)
        rollup(name) ==
          LET key == <<"rollup", name>>
          IN  IF key \in DOMAIN metrics.by_source THEN metrics.by_source[key] ELSE Insufficient
        wiki == {k \in DOMAIN report : IsWiki(report[k].row)}
    IN  /\ agrees(metrics.overall, DOMAIN report)
        /\ agrees(rollup("wikipedia"), wiki)
        /\ agrees(rollup("commercial"), DOMAIN report \ wiki)
        /\ metrics.n_labelable_tokens = Cardinality(scored(DOMAIN report))

\* A flag on the row of a token a human can label decides: no evaluation scores a
\* sentence whose labels were given with such a flag, and a labelled row is left out
\* for no other reason, whatever was reminted, re-ingested or overwritten since.
TokenFlagsDecide ==
  LET flagged(e) == \E k \in e.seen.flags : k # 0 /\ e.seen.tokens[k] \in Labelable
  IN  /\ \A e \in RowsOf(gold) : e.ezafe # None => (e.ambiguous <=> flagged(e))
      /\ report # None => \A r \in ToSet(report) : ~flagged(r.row)

\* gold-ezafe-guidelines.md: a sentence the human flagged ambiguous is left out
\* of precision, recall and F1, and flagging its first row is enough.
DoubtNeverScored ==
  report # None => \A r \in ToSet(report) : r.row.seen.flags = {}

\* ingest_ezafe_worksheet.py:56: the rows that were not in the worksheet are kept.
IngestKeepsOtherRows ==
  [][\A t \in Terminals :
       Write(t, "ingest") => TextsOf(job[t].base) \subseteq TextsOf(job'[t].out)]_vars
=============================================================================
