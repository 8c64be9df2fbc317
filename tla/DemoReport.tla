----------------------------- MODULE DemoReport -----------------------------
(***************************************************************************)
(* The demo report (scripts/demo_report.py): a file of keywords is read,      *)
(* clustered by cluster_keywords and shown as a page of topic hubs.  A line   *)
(* with a tab names its id, another gets one by its number among such lines.  *)
(* KeywordCluster is also called with a list of its own, which is why the     *)
(* caller is a variable.                                                     *)
(***************************************************************************)
EXTENDS KeywordCluster

CONSTANT Lines      \* lines a file may hold but for blank ones and comments: [kind, id, text, blank]

VARIABLES
  caller,     \* "list", or "file" for the demo
  auto_n,     \* lines without an id so far
  page        \* the page written, None before

demoVars == <<caller, auto_n, page>>

_INTENT_ORDER == <<"transactional", "commercial", "informational", "navigational", "unknown">>

_INTENT_RANK(intent) == CHOOSE i \in DOMAIN _INTENT_ORDER : _INTENT_ORDER[i] = intent

ASSUME LinesAssumption ==
  \A line \in Lines :
    /\ line.kind \in {"tab", "plain"}
    /\ line.kind = "tab" => line.id \in Nat \cup {None}
    /\ line.text \in Seq(ToSet(line.text)) /\ line.blank \in BOOLEAN
    /\ line.blank => line.text = <<>> /\ line.kind = "tab"

\* k001 and so on: ids are numbers here, and a file may name such an id itself.
AutoId(n) == n

\* A keyword of the file has no search demand.
KeywordInput(id, text, blank) ==
  [id |-> id, text |-> text, blank |-> blank, status |-> "unknown", demand |-> None]

(***************************************************************************)
(* Hubs: the clusters of one topic core.                                    *)
(***************************************************************************)

\* The records of a set of clusters.
InClusters(clusters, keys) == UNION {clusters[k].members : k \in keys}

\* Mutant: a hub is shown with the keywords of its first cluster.
HubsOfFirst(clusters) ==
  [fp \in {key.fingerprint : key \in DOMAIN clusters} |->
     LET keys == {key \in DOMAIN clusters : key.fingerprint = fp}
         first == CHOOSE k \in keys : \A l \in keys : _INTENT_RANK(k.intent) <= _INTENT_RANK(l.intent)
     IN  [label |-> clusters[first].head.core,
          intent_count |-> Cardinality({k.intent : k \in keys}),
          keyword_count |-> Cardinality(InClusters(clusters, {first}))]]

\* group_topic_hubs: the label is the core of the head of the first cluster, by the
\* order of intents.  The order of the hubs on the page is left out.
group_topic_hubs(clusters) ==
  [fp \in {key.fingerprint : key \in DOMAIN clusters} |->
     LET keys == {key \in DOMAIN clusters : key.fingerprint = fp}
         first == CHOOSE k \in keys : \A l \in keys : _INTENT_RANK(k.intent) <= _INTENT_RANK(l.intent)
     IN  [label |-> clusters[first].head.core,
          intent_count |-> Cardinality({k.intent : k \in keys}),
          keyword_count |-> Cardinality(InClusters(clusters, keys))]]

\* What the page says, in its summary and per hub.
render_demo_html ==
  LET clusters == Clusters(records)
  IN  [input |-> read,
       clusters |-> Cardinality(DOMAIN clusters),
       hubs |-> group_topic_hubs(clusters),
       skipped |-> Len(skipped),
       distribution |-> [intent \in {key.intent : key \in DOMAIN clusters} |->
                           Cardinality({key \in DOMAIN clusters : key.intent = intent})]]

(***************************************************************************)
(* Reading the file line by line, and writing the page.                      *)
(***************************************************************************)
DemoInit ==
  /\ Init
  /\ caller \in {"list", "file"}
  /\ auto_n = 0
  /\ page = None

Called == caller = "list" /\ Next /\ UNCHANGED demoVars

\* load_keyword_inputs, which passes over blank lines and comments; cluster_keywords
\* then reads what it returns in the same order.
ReadLine ==
  /\ caller = "file" /\ page = None
  /\ \E line \in Lines :
       LET plain == line.kind = "plain"
           item == KeywordInput(IF plain THEN AutoId(auto_n + 1) ELSE line.id, line.text, line.blank)
       IN  /\ Accept(item) \/ Skip(item)
           /\ auto_n' = IF plain THEN auto_n + 1 ELSE auto_n
  /\ UNCHANGED <<caller, page>>

\* write_demo_report, after the last line
WritePage ==
  /\ caller = "file" /\ page = None
  /\ page' = render_demo_html
  /\ UNCHANGED <<vars, caller, auto_n>>

DemoNext == Called \/ ReadLine \/ WritePage

DemoSpec == DemoInit /\ [][DemoNext]_<<vars, demoVars>>

(***************************************************************************)
(* Properties.                                                              *)
(***************************************************************************)
\* The page accounts for every keyword line of the file, whatever ids the lines name or
\* are given: each is in one hub or refused, keywords are in one hub, whatever their
\* intents, when their topic cores agree after a second analysis, the label is the core of
\* one of them (of the others it may differ, as the analysis joins words), and the numbers
\* of the hubs add up to those of the summary.
PageAccountsForAll ==
  page # None =>
    LET topic(fp) == {i \in DOMAIN records : keyword_fingerprint(records[i].core) = fp}
    IN  /\ page.input = Total([fp \in DOMAIN page.hubs |-> page.hubs[fp].keyword_count]) + page.skipped
        /\ page.clusters = Total([fp \in DOMAIN page.hubs |-> page.hubs[fp].intent_count])
        /\ page.clusters = Total(page.distribution)
        /\ \A fp \in DOMAIN page.hubs :
             /\ \E i \in topic(fp) : page.hubs[fp].label = records[i].core
             /\ page.hubs[fp].keyword_count = Cardinality(topic(fp))
             /\ page.hubs[fp].intent_count = Cardinality({records[i].intent : i \in topic(fp)})
=============================================================================
