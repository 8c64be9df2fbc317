# Verification of persian-seo-os

TLA+ models of the stateful parts of this repository, the TLC configurations that
check them on small instances, and TLAPS proofs of what matters most for every
instance. Line numbers below are of the commit the models were translated from;
`PROJECT.json` maps every definition to its lines.

## 1. Inventory

The repository is a Python toolkit for Persian search-engine work. Most of it is pure
functions; four parts keep state or guard it, two of the functions decide what becomes of a
site's pages and keywords, and one chooses the sentences humans are asked to label.

### Ezafe backend (`packages/persian_seo_normalizer/ezafe.py`)

* State: `DadmaEzafeBackend._pipeline` and `_pipeline_cache_dir`, class attributes of a
  process; on disk a model cache directory with a readiness marker, shared by processes.
* Operations: `detect_ezafe`, `audit_ezafe_kasreh` (off for customers unless forced),
  both through `_get_pipeline`: resolve the directory, reuse the pipeline in memory or
  assert the marker (when `PERSIAN_SEO_DADMA_REQUIRE_CACHE` is set), import DadmaTools,
  `Pipeline()` (which downloads what is missing), shim the adapter weights into the
  embedding, smoke-test, write the marker, assert it, publish the pipeline.
* Hard: two processes on one directory, a death between any two steps, an interrupted
  download, an operator who deletes files, a checkpoint whose adapters map only in part,
  exceptions of types nobody catches.
* Correct when: what is said about a text comes from a verified pipeline of the directory
  asked for; a marker vouches for its directory; a failed call leaves the pipeline in
  service alone; nothing but `Pipeline()` holds a call up.
* `scripts/prefetch_and_probe_kasreh.py` fills the same directory and overwrites the same
  class attribute.

### Gold corpus (`ezafe_gold.py`, `ezafe_gold_filters.py`, ten scripts in `scripts/`)

* State: `data/gold/ezafe_gold.jsonl`, one row per sentence, and the CSV worksheets humans
  fill; the installed DadmaTools version decides what the tokens of a sentence are.
* Operations: harvest (`collect`, `expand`), `clean_rebuild`, `migrate`, `remint`
  (and `dryrun --apply-dadma-tokens`), `make_worksheet`, human labelling,
  `ingest_worksheet`, `verify_gold_tokens`, `eval_ezafe_gold`. Each reads the whole file,
  works, and writes the whole file.
* Hard: no lock and no atomic rename, so a file is read half-written; a worksheet outlives the
  tokens it was made from; ids repeat; the two harvests know nothing of each other; an upgrade
  between the check of the tokens and the scoring; interruptions.
* Correct when: labels stay with the tokens the human saw; neither half of the corpus
  (Wikipedia, the web) holds a sentence with two truths; an evaluation compares predictions and
  labels of one sentence under one tokenizer, and leaves out what the human doubted, where the
  flag is read; what it prints (overall, by source, by strata) counts every labelable token of
  every row scored, a row as often as the file has it.

### Selection by strata (`assign_strata_quotas`, `pick`, `select_corpus`)

* State: the variables of nested loops: the strata short of their goal, what is filled, what
  is selected.
* Operations: `select_corpus` fills the quotas of the corpus greedily, cuts the selection to
  the caps of the two sources and tops it up from the combined pool; `pick` covers the strata
  in a labelling batch and fills it up.
* Hard: the list of short strata is computed once per sweep and ages while it is served; a
  candidate fills several strata; a stratum the pool cannot fill keeps the loop's condition
  true; harvested ids collide; the pool may be smaller than what is asked.
* Correct when: the sweeps end; no stratum stays short for which a candidate is left; a batch
  with enough places reaches every floor the pool can reach; the result has the size asked
  for and no id twice.

### LLM gateway (`services/llm_gateway/gateway.py`)

* State: `BudgetGuard.spent_usd`, `LlmGateway._errors`.
* Operation: `complete()`: check the budget, try the providers in order, record the cost.
* Hard: the cost is known after the check, callers overlap while a provider works, a
  callback may raise after the cost was recorded.
* Correct when: an overrun is bounded by what was in flight; a fallback is named
  truthfully; a call that gives up has tried every provider.

### Approval gate (`db/migrations/0001_init.sql`)

* State: the tables tenants, sites, content_drafts, approvals, publish_jobs, llm_calls.
* Operations: whatever statements a client issues; the services are not written yet.
* Hard: deletions cascade to a job along one path (its site) and are refused along another
  (its approval), and one statement may do both.
* Correct when: there is never a job without its approval, an orphan, or an applied job
  whose draft was deleted from under it.

### Declared keyword collisions (`cannibalization.py`)

* State: none in the package; the site's list of pages, which its owner changes along the
  advice.
* Operation: `detect_keyword_cannibalization`: group the pages that declare one keyword,
  pick a winner by role, match, links, words and id, or by a human priority that overrides
  all of them; an action for every loser; the criterion that decided; a report when the
  priority went against the signals.
* Hard: the deciding criterion is read off the runner-up only; `max()` keeps the first of
  equals; a missing priority takes part in the comparison; the list changes while the
  advice is followed.
* Correct when: the named criterion is the reason, the order of the list is irrelevant, an
  override is never silent, advice followed in part is not contradicted by the next report.

### Keyword clustering (`keyword_cluster.py`, fingerprints of `fingerprint.py`)

* State: the loop's `seen_ids`, `records` and `skipped`.
* Operation: `cluster_keywords`: refuse a row for the first of nine reasons or make it a
  record: scan its markers from the left, the longest first, derive the intent and the topic
  core; group by core and intent; rank the members and name the head's criterion.
* Hard: markers contain each other; a fired marker is removed from the content by value;
  ties in every prefix of the ranking; an id is seen before its row is validated.
* Correct when: fired markers tile the text as ADR-0010 says, the core is what they leave, the
  head has the reason it is given, the order of the list is irrelevant.

### Demo report (`scripts/demo_report.py`)

* State: the file of keywords, the numbering of its lines, the page.
* Operations: read the lines (a line with a tab names its id, another is numbered), call
  `cluster_keywords`, group the clusters of one topic core into a hub, write the page.
* Hard: a number given may be an id that a line names; hubs cut across intents.
* Correct when: the page accounts for every line, in one hub or among the refused.

### The rest

`normalize.py` and `rtl_qa.py` convert text; `services/audit` and `services/mcp_server` are
static tables. Section 6 says what becomes of them.

### How the parts interact

The backend and the prefetch script meet in the cache directory and, in one process, in the
class attribute: `EzafeBackend` holds both. The corpus scripts meet in the file, the
worksheets and the installed version of DadmaTools: `GoldCorpus` holds all of them. The
evaluation uses the backend only as a function from a sentence to tokens and flags. The
gateway and the tables have no caller in the repository. Collisions and clusters share the
way they choose by a tuple of criteria, which is in `Lists`. The demo report calls the
clustering and shows its result: `DemoReport` composes the two. Harvest and worksheet scripts
choose what `GoldStrata` models; in `GoldCorpus` their choice is any selection, so what is
shown of the corpus does not depend on it.

## 2. Modules

| module | models | state | actions |
|---|---|---|---|
| `EzafeBackend` | ezafe.py, prefetch script | `disk`, per process `pc`, `resolved`, `loading`, `pipeline`, `pipelineDir`; `answer` of the step just taken; history `vouched`, `evictions` | one per step of `_get_pipeline`; `Crash`, `Evict`, `Prefetch`, `ProbeInstalls` |
| `ReadyCache` | what the marker promises | `vouched`, `marked`, `checked`, `serving` | `Vouch`, `Mark`, `Clear`, `Check`, `Serve`, `Stop` |
| `GoldCorpus` | the corpus and its scripts | `gold`, `sheet`, `version`, `job`, `report` | `Start`/`Write`/`Finish` of a script, `RefuseSheet`, `Interrupt`, `MakeSheet`, `Fill`, `StartEval`, `Score`, `Upgrade` |
| `GoldStrata` | strata selection in ezafe_gold.py and collect_ezafe_gold.py | `task`, `cap`, `pool`, `phase`, `need`, `at`, `changed`, `filled`, `chosen`, `final` | `Sweep`, `Take`, `Pass`, `EndSweeps`, `Cap`, `CapEnds`, `TopUp`, `TopUpEnds` |
| `LlmGateway` | gateway.py | `spent`, `errors`, per caller `calling`, `failed`, `answer` | `Begin`, `Answers`, `FallsBack`, `Raises` |
| `PublishGate` | 0001_init.sql | a function from keys to rows per table | INSERT or UPDATE of each table, `DeleteTenants`, `DeleteRows` |
| `Lists` | filtering and joining lists, choosing from one by a tuple of criteria | | |
| `Cannibalization` | cannibalization.py | the pages, the current advice | `Declare`, `Detect`, `Follow` |
| `KeywordCluster` | keyword_cluster.py | `read`, `seen`, `records`, `skipped` | `Accept`, `Skip` |
| `DemoReport` | demo_report.py over `KeywordCluster` | `caller`, `auto_n`, `page` | `Called`, `ReadLine`, `WritePage` |
| `EzafeBackendProofs`, `GoldCorpusProofs`, `GoldStrataProofs`, `LlmGatewayProofs`, `PublishGateProofs`, `CannibalizationProofs`, `KeywordClusterProofs` | theorems | | |
| `ListProofs` | lemmas about `Lists` | | |
| `MC*` | sample values for TLC | | |

**EzafeBackend.** A call that does not end at once walks through `pc`: `import`, `load`,
`shim`, `smoke`, `mark`, `assert`, `publish`; between two of these every other process, the network
and the operator may act. `disk[d]` keeps whether the directory exists, whether its model
files are absent, partial or whole, the adapter keys of its checkpoint and the marker. The
`answer` is what the step just taken returned to its caller, `None` unless that step ended a
call, with the pipeline that computed it; whether `detect_ezafe` or the audit was asked
matters only then, so it is chosen then. `vouched` is history: the directories on which a
load, shim and smoke test have succeeded. Exceptions
are two: those that detect turns into `EzafeBackendUnavailable` or that are
`EzafeCacheError` (the audit reports them as skipped), and all others ("raised").
`_get_pipeline` takes no lock; threads inside one process are not modelled, because the
package starts none.

**ReadyCache.** To find a directory marked and to serve from it are two steps, as in the code
(ezafe.py:440 and 441): the operator may clear the directory between them, and it is served all
the same. What the service promises is that it found the marker in the same call.

**GoldCorpus.** A sentence is a model value with a template and its tokens under each
tokenizer; a place is a page or a domain, with its kind and the name ids take from it; a find is
a sentence at a place, and one sentence may stand at several, in Wikipedia and in the web. A row
has its id, text, place, tokens, labels, flag and the history field `seen`: the tokens the human
saw when the labels were given, and the labels and flags given with them. A running script keeps the rows it read in `job`;
`Write` computes the new file from them and leaves any first part of it to be read, `Finish`
completes it, and `Interrupt` stops a script before or between. Of two scripts that write at
once one file is left: mixtures of both files on the byte level are not modelled. A harvest is
any sequence of finds with no sentence twice; the quotas of `select_corpus` are
any selection of its rows; the rejection rules are the set `Rejected`. The human may flag any row of
a sentence's block, its header and its punctuation included. What detect_ezafe says of a
sentence's tokens is the constant `Flags`; `evaluate_metric_splits` is an operator over the
rows an evaluation scored, which `report` keeps in their order.

**GoldStrata.** One behaviour is one call: `Init` chooses the task (a corpus, or a batch of one
kind), the caps and the pool; the strata of a sentence are any set, a seeded shuffle is any
order, and ids may repeat. `Sweep` computes the short strata, `Take` and `Pass` are one
iteration of the loop over them, `Cap` and `TopUp` one iteration of the loops that
follow; the batch and the corpus share the sweep, whose goals and exits differ.

**LlmGateway.** `calling[c]` is the provider caller c waits for. A cost is any number up to
`MaxCost`, in units small enough to be whole. `complete()` is synchronous, so callers overlap as
threads; `spent_usd +=` in `record()` is one step because the interpreters the package asks for
(3.11 and later) switch threads at calls and jumps back only, and there is none between the read and the
write. A free-threaded build would need a lock there.

**PublishGate.** The client may issue any statement; only constraints decide. A table is a
function from keys to rows or `None`. A deletion takes any set of rows of one table, by one
check of all of them at the end of the statement. Left out are statements that delete from
several tables at once (WITH ... DELETE) and UNIQUE(tenant_id, domain), which only refuses more.

**Cannibalization.** A page has an id, a keyword, a role, a priority or none, and the signals as
small numbers; how title and h1 match is a field, the fingerprint of a keyword a constant.
`Declare` lists pages in any order, `Detect` is the whole function, and `Follow` is the owner
doing what one decision says.

**KeywordCluster.** `Accept` and `Skip` are one iteration of the loop each; the nine checks are
a sequence, and the first that holds is the reason. A text is the sequence of its tokens after
`analyze_form`, so what is left out is the conversion and how many letters a token has; that it is
empty or has no word is told apart. A
fingerprint is a bag, as with `order_sensitive=False`, but not of the core's tokens: the code joins
the core and analyses it again (keyword_cluster.py:487), which joins a prefix to the word that
now follows it and can make a stop word. What comes of it is the constant operator `Analysed`, any
at all in the proofs; the run gives it the joining of «می» and «رود». Keywords of different cores can therefore share a cluster
and a hub. `Clusters` is the
second half of the function, applied to the records of every state.

**DemoReport.** `ReadLine` gives a line its id and runs an iteration of the clustering loop on
it: the code reads all lines first, which nothing between could tell. Ids are numbers, and a
line that names id 1 names k001. `WritePage` keeps the numbers of the page; HTML and
the order of the hubs are left out. A caller that passes a list of its own is the other half
of `DemoNext`.

## 3. Runs

| run | instance | shows |
|---|---|---|
| `ezafe_service` | 2 processes (one requires the cache), 2 directories, a good and a bad checkpoint, 1 deletion, fairness | answers are verified, markers are vouched for and, until files are deleted, stand on complete directories, the shim is all or nothing, pipelines change as a whole, the service implements `ReadyCache`, nothing but `Pipeline()` holds a call up |
| `ezafe_audit_raises` | 1 process | **finding**: the audit raises where its docstring promises a skipped finding |
| `gold_life` | 1 operator, 2 sentences of shops whose ids collide, one of them also in Wikipedia, all six writing scripts, 2 tokenizers | labels stay with their tokens, one truth per sentence and half, sound scores and metrics although ids collide and rows stand twice |
| `gold_concurrent` | 2 operators; clean, collect, remint, ingest and evaluate; a rejected sentence; 2 tokenizers | labels stay with their tokens and scores are sound although scripts overwrite each other's file and read it half-written, flags on labelable tokens decide whatever else is flagged (header, punctuation), the rollups by source add up |
| `gold_ambiguous` | ingest and evaluate, flags on any row | **finding**: that flag is dropped and the sentence scored |
| `gold_ingest` | clean and ingest | **finding**: with colliding ids the ingest loses a sentence |
| `gold_strata` | corpus pools of 5 (2 Wikipedia, 3 web) under caps 1–2 × 1–4, batches of 6; 2 strata in every distribution | the sweeps end, nobody stays short who could be served, a batch covers its strata, sizes |
| `gateway_budget` | 3 callers, 3 providers | bounded overrun, honest fallbacks, complete error messages |
| `publish_tables` | any statements | no orphan, no job without approval, drafts stay behind applied jobs |
| `publish_approved` | any statements | **finding**: a job is applied on an approval that is pending or rejected |
| `collisions` | up to 3 pages of one keyword in every order | the deciding criterion, order, overrides, standing advice |
| `keywords` | up to 3 rows of some 50 kinds or lines of a demo file, six markers of one to three tokens, one pair of tokens that a second analysis joins | markers, cores, heads, order, the page of the demo |

**Bounds.** Two processes are enough for one to act at every point of another's call, and
two directories for a pipeline of the wrong one. Of checkpoints only three things are told
apart: one task whose keys all map, a key that does not, more or fewer than one task; two of
these are enough for the run, since the proofs cover every checkpoint. One
deletion (`MaxEvictions`) reaches every step it can fall between; the proofs have no bound.
`MarkerMeansWhole` is about the states before it: a marker survives the deletion of the files.
In the corpus two sentences of one shop make ids collide, and `MaxCommands` = 4 lets a
worksheet be made, the file be changed, the worksheet be ingested and the result be
evaluated; the second tokenizer gives one more token, punctuation that is not labelable.
`MinExamples` is 2 in `gold_life`, where a slice of one sentence must show nothing, and 1 in
`gold_concurrent`, where both rollups show theirs. The shops technolife.com and technolife.ir number
their rows alike, so after a second harvest two rows share an id; a worksheet of one, ingested,
leaves that row twice, which counts as two examples. In `gold_strata` the strata's floors are 1
and 2, so one stratum is served while the other is full, and pools are shorter and longer
than what is asked for. The gateway's balance needs no cap of its own: a call is let in only while the limit holds.
Three
pages are the fewest with which a winner can beat two rivals for different reasons, and the
values of a signal are the fewest that differ. `Links` has one value there: that `internal_links`
decides is covered by the theorem alone. The texts of `keywords` are chosen: every pair
of markers that contain or overlap each other, a marker twice, a marker's token outside the
marker, stop words inside a marker and out, only insufficient words left, each reason to
refuse a row, and three rows of one core for every tie in the ranking. Deadlock is checked
except in the corpus runs, where commands are counted and end, and in `keywords`, where
the list of rows or lines ends; a selection by strata that is done stays done.

**Fairness.** `ezafe_service` needs it for `CallsEnd`: weak fairness of
`LocalStep`, the steps of a call that the process takes by itself: import, shim, smoke test, marker,
assert, publish. `Pipeline()` is not among them, neither its download nor its return: it
asks the network without a timeout and owes nothing. `CallsEnd` therefore says that a call gets to
`Pipeline()` or ends, and ends once `Pipeline()` has returned. `gold_strata` needs weak fairness of its next step for `Terminates`: it is one
sequential program that takes its next step as long as it has one.

## 4. Findings and observations

The four violated properties are described under "findings" in `PROJECT.json`, each with the
line it contradicts. Seen while modelling, and not given a run of their own:

* `has_unique_asset` defaults to false and nothing reads it, although 0001_init.sql:36 says
  that publishing without a unique asset is forbidden.
* `complete()` checks a projected cost of 0.0, so the call that passes the monthly cap is let
  through; `OverrunBounded` is what does hold. `spent_usd` is never reset.
* prefetch_and_probe_kasreh.py:82 says that the loaded pipeline is reused; it is not, because
  the directory attribute stays `None`. `AnswersAreVerified` shows that this is harmless.
* Two scripts that overlap lose the work of the first to end, silently.
* A flag on the header or on a punctuation row of a worksheet is dropped (ezafe_gold.py:860 and 899 skip
  those rows, not warning of it); `TokenFlagsDecide` is what holds.
* `collect_ezafe_gold.py` keeps one set of sentences per harvest (lines 104 and 218): a sentence found in
  Wikipedia and in a shop stands in the corpus twice, and may be labelled in two ways. And an
  ingest doubles a row when ids collide, so one sentence counts as two examples and a slice of it
  can reach `MIN_EVAL_EXAMPLES`.
* A marker vouches for what stood in its directory when the smoke test passed. `vouched` is never
  taken back, so a directory that is cleared and downloaded anew between the smoke test and the
  marker is vouched for by the old one.
* The error list of the gateway is never cleared, so a message may hold lines of other calls;
  `MessageIsComplete` is about the lines of one's own.
* A keyword's hub is that of its core analysed once more: the cores «می رود», left when a marker
  between the two goes, and «میرود» are two texts and one hub, labelled as one of them.
* `seen_ids` takes an id before its row is validated (keyword_cluster.py:406): after a row that
  is refused, a valid row with the same id is refused as a duplicate, with the message that only
  the first was kept (line 402), and neither is. `Skip` models it.
* With `order_sensitive=True` the removal of a marker by value can leave the core in another
  order than the text: «site x login to site» leaves ⟨x, site⟩. `CoreIsWhatMarkersLeave` is
  therefore about the core up to its order.
* The conflict code of a collision is also raised when priority and signals differ in the
  page_id tie-break only, where ADR-0007 speaks of criteria 2 to 4.
* Keywords of stop words only share the fingerprint of no tokens and collide
  (cannibalization.py:270).
* `--reuse-wiki-from` (collect_ezafe_gold.py:386) keeps the rows whose source is
  "fa.wikipedia"; the rows the scripts write carry "fa.wikipedia.org", so nothing is reused.
* Once one stratum of a batch cannot be filled, the later sweeps of `pick` serve the others
  in the order of the pool; `BatchCoversStrata` is about batches with enough places.
* `select_corpus` drops strata picks beyond the cap of their source and tops up in another
  order, so the corpus may miss a quota the sweep had met; `SizeAsAsked` is what holds.
* The ids of the demo (k001, …) may be ids a line names; the later of the two is refused as a
  duplicate and shown among the refused.
* `analyze_form` removes the space after a prefix before punctuation becomes space, so it is
  not idempotent: «می، رود» becomes «می رود», which applied again becomes «میرود».
* A job's site and the site of the draft it publishes are independent columns.

## 5. Proofs

Every theorem is about the `Spec` that TLC runs, for all values of the constants that satisfy
the module's `ASSUME`.

* `EzafeBackendProofs`: type correctness; `MarkerVouched`; `AnswersAreVerified`;
  `PipelineChangesWhole`; `MarkerMeansWhole`; `ShimIsTotal`; and the refinement of
  `ReadyCache`. None of the invariants is inductive alone: an answer is verified only because
  the pipeline in memory was, whenever `pipelineDir` names a directory, and because a call
  past the shim has keys, past the smoke test a smoked pipeline of its own directory that is
  vouched for. The invariant `IInv` says this per value of `pc`; its preservation has a lemma
  per group of actions (calls that end at once, the steps of a call, the probe script, a
  crash, the files).
  `MarkerMeansWhole` needs `CompleteFiles` besides: while `evictions` = 0, a directory with a
  marker holds whole files, and so does that of a call past the download or of a call that
  requires the cache. `ShimIsTotal` needs `WholeShim`: a pipeline with adapters, loading or in
  service, carries all keys of its directory's checkpoint, which name one task; the lemma
  `ShimTakesAll` shows it of a mapping that takes anything.
  `CallsRunDown` says that every step a process takes by itself brings its call nearer to `idle`
  and that nothing else puts a call back.
  The refinement maps `marked` to the directories with a marker, `serving` to
  `pipelineDir` and `checked` to the directory of a call that stands before its publication;
  `IInv` supplies that a directory being marked has been vouched for. A clearing between the
  assert and the publication is a step of the specification as it is of the service.
* `GoldCorpusProofs`: type correctness (file, jobs, worksheet, report); `LabelsBelongToTokens`;
  `OneTruthPerHalf`; `ScoresAreSound`; `SplitsAddUp`; `TokenFlagsDecide`, with flags on any row. What must be kept is said of a list of rows
  by `Corpus`: every row has the labels its human gave to its tokens, and the doubt where it
  is read; in each half no two different rows are of one text; and of the rows that share an id at
  most one is labelled. `IInv`
  asks it of the file, of what every running job has read from it and of what it is writing, so whoever writes last
  writes a corpus, and a file half-written is a corpus because a prefix of one is. One lemma per script
  shows that its rows are a corpus when those it read were (`CollectKeeps`, `CleanKeeps`,
  `RemintKeeps`, `IngestKeeps`, ...). Rows doubled by an ingest are equal, which is why the
  invariants speak of sets of rows and the metrics of places in the report. The labelled row of an id is what makes the ingest
  harmless to labels although ids collide. `SheetOK` says that the tokens and labels of a block of the
  worksheet are those its human saw.
  `SplitsAddUp` is about operators, not steps: from the invariant it needs that what was scored is
  labelled rows of which predictions were made. A cell of the lists the code builds stands for one
  place of the report, a row and a token a human could label: those of a row (`CellsOf`), those
  of the rows of a slice, joined (`CellPlaces`), and rows of a slice of the rows with cells
  (`KeptAgrees`). Each of these is a bijection, so cells are counted as places. `StrataRecounted`
  says the same of the slices by strata, which no run checks. `IngestLosesCollidingOnly` is
  what remains of `IngestKeepsOtherRows`, refuted by `gold_ingest`: only a sentence that shares its id is
  lost.
* `GoldStrataProofs`: type correctness; `ShortMeansExhausted`; `BatchCoversStrata`; `SizeAsAsked`. For `ShortMeansExhausted`,
  `GreedyInv` adds that `filled` counts what the chosen sentences cover (`Counted`) and that
  in a sweep that has taken nothing so far every short stratum is still to come or has no
  candidate left (`Exhausted`): a sentence taken only shrinks what is open, and a sweep that
  ends unchanged has nobody to come. For `BatchCoversStrata`,
  `CoverInv` adds two counts. With a place per stratum: until every stratum has been tried, the first
  sweep has taken no more sentences than it has passed strata (`EachTried`). With a place per
  sentence of the floors: what is chosen and what the floors are still owed fit in the places,
  where a stratum still ahead in the sweep is owed one even when another's sentence has filled
  it meanwhile, since the list of short strata is stale (`RoomLeft`). It needs the strata to be
  distinct, which keys of a dictionary are. For `SizeAsAsked`, `SizeInv` keeps that no id is chosen
  twice, that what is chosen is of the pool, and of each kind topped up that it has reached its
  cap or left no candidate unused. Positions are counted with the
  library's theorems on finite sets. `LoopsRunDown`: each step lowers the tuple `Toil` of the loops to
  come, the candidates unused, whether another sweep is due and the turns left, in lexicographic order.
* `LlmGatewayProofs`: type correctness; `OverrunBounded`; `FallbackIsHonest`;
  `MessageIsComplete`. The bound is not inductive either: a call in flight has passed the
  check on an older balance. `IInv` bounds the balance by the limit plus one `MaxCost` per
  caller, where those still in flight have not spent theirs, and keeps for each caller that
  the providers it has left behind are exactly those before the one it is calling. `Callers`
  is any finite set. For the message, `HaveLines` keeps that every failure of a call in
  flight is among the shared `errors`, which other callers only extend.
* `PublishGateProofs`: type correctness; `NoOrphans`; `DraftBehindJobStays`. Types and
  `NoOrphans` are inductive together. The lemma `DeletesKeep` does all deletions, of any number of rows, at once: the
  rows that stay are those no cascade reached, so what they refer to stays as well, and for
  the approval of a job, which does not cascade, the refusal says so. `DraftHeld` follows the
  cascade from a draft to its approvals: were the job not deleted through its site, the
  statement would have been refused.

* `ListProofs`: lemmas about lists of any length. What is kept of a list at some positions is
  what stands there, each once (`KeptFrom`, `KeptAll`, `KeptPlaces`; the positions are counted one by
  one). A list of lists as one has an entry per place of the lists (`JoinedPlaces`), so how often
  something stands in it can be counted there (`TimesJoined`); numbers add up to what they
  count part by part (`PartsAddUp`); removing a list of values from a list, each where it first
  stands, takes each away as often as it is named (`RemovedTimes`). Python's order of tuples
  is total, asymmetric and transitive, by the first criterion in which two keys differ; a list of
  keys has a first greatest, by the shortest prefix that would have none; and `PartedByIsTheReason`:
  the criterion that parts the greatest from the second is why it is above all, because whoever
  equals the greatest in the criteria before cannot be above the second.
* `CannibalizationProofs`: type correctness; `DecidedByIsTheReason`; `OrderIsIrrelevant`;
  `OverrideIsNeverSilent`; `AdviceStands`. `Wins` says of a page and a set of pages that it beats all
  others; with ids of their own there is at most one, and it is what `max()` returns, so result and
  order part. A page with better signals than the winner can only be beaten by its priority,
  which then is explicit, and the winner by signals is another. For the advice,
  `IInv` keeps that the result is of a list whose winners are all still there (`ResultOf`): they
  win again among fewer.
* `KeywordClusterProofs`: type correctness; `HeadIsTheReason`; `OrderIsIrrelevant`; `MarkersTile`;
  `CoreIsWhatMarkersLeave`; `PageAccountsForAll`, all of `DemoSpec`, with rows of a list or lines of a
  file. `Account` keeps that ids seen are those of the rows read, hence records have ids of their own
  and their keys differ; heads and order are then as for the pages. `Recorded` keeps that a
  record's markers, core and fingerprint are what the functions made of its text; of the
  second analysis the proofs assume nothing but that it is a function of the core. The scan from token k
  finds what tiles the text from there (`Tiled`, `ScanTiles`), from the last token back. What
  tiles the text is disjoint, so the tokens removed by value are as many of each as
  the markers cover (`SurfacePlaces`, `StrippedTimes`): that `remove` takes another occurrence
  than the marker's own changes the order of what is left and not its count. For the page, hubs
  part the records by topic and a hub's clusters are its intents, so its numbers add up
  (`HubsAddUp`); `PageShown` keeps that the page is that of the present records.

Recursion is written as recursive functions, and induction over them is by the least
counterexample: `Smallest` gives the first number at which a claim fails, which the step from
the one before refutes; that the recursive function exists is shown the same way
(`JoiningExists`, `RemovalExists`, `ScanExists`).

Only model-checked: `CallsEnd` and `Terminates`, since liveness under fairness and ENABLED are beyond
the prover. That calls and loops run down is proved (`CallsRunDown`, `LoopsRunDown`); that a call or a
loop which has not ended always has a step to take is what the runs add. Every invariant and every action property of the passing runs has a theorem.

## 6. Plan and what is left out

Done, in the order of importance: `EzafeBackend` with `ReadyCache`, `GoldCorpus` with the
metrics of an evaluation, `LlmGateway`, `PublishGate`, `Cannibalization`, `KeywordCluster`,
`GoldStrata`, `DemoReport` over `KeywordCluster`; proofs about all of them.

Next: abstract specifications of the corpus (labels as a map from sentences to what a human said
of their tokens) and of the tables, with the refinements proved.

Not modelled: HTTP and HTML handling of the harvests (any result is allowed instead) and
whether their loops end, which depends on the sources; character-level normalisation
(`normalize.py`, `rtl_qa.py`) and fingerprints at character level, since tokens are model
values; the rejection rules, which are regular expressions over a sentence (any set of
sentences is rejected instead); the wording of reports and HTML; the static tables of
`services/audit` and `services/mcp_server`; container and bootstrap files; what the neural
model computes.
