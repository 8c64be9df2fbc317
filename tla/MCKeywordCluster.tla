---------------------------- MODULE MCKeywordCluster ----------------------------
(* Markers of one to three tokens that contain each other, and rows of every      *)
(* kind: valid ones, ones each check refuses, ones that share a core or an id.    *)
EXTENDS DemoReport

CONSTANTS
  buy, price, teach, login, site, to, x, online, may, go, goes

\* As analyze_form joins a prefix to the verb behind it: a pair that stood apart in the
\* text, with a stopword, a marker or a comma in between, is one word in the core.
Rejoined(tokens) ==
  LET from[i \in 1..Len(tokens) + 1] ==
        IF i > Len(tokens) THEN <<>>
        ELSE IF i < Len(tokens) /\ tokens[i] = may /\ tokens[i + 1] = go THEN <<goes>> \o from[i + 2]
        ELSE <<tokens[i]>> \o from[i + 1]
  IN  from[1]

\* As in _MARKER_SPECS, some longer ones stand behind a part of theirs.
Catalog ==
  <<[tokens |-> <<price, buy>>, intent |-> "transactional"],
    [tokens |-> <<buy>>, intent |-> "transactional"],
    [tokens |-> <<price>>, intent |-> "commercial"],
    [tokens |-> <<teach>>, intent |-> "informational"],
    [tokens |-> <<login>>, intent |-> "navigational"],
    [tokens |-> <<login, to, site>>, intent |-> "navigational"]>>

Texts ==
  {<<>>, <<to>>, <<x>>, <<x, x>>, <<x, site>>, <<site, x>>, <<online>>, <<online, x, buy>>,
   \* markers and what they leave
   <<buy>>, <<price, buy>>, <<buy, online>>, <<price, buy, online>>, <<buy, x>>,
   <<price, x>>, <<login, x>>, <<login, to, x>>, <<login, site>>, <<login, to, site>>,
   \* markers that overlap or stand twice
   <<price, buy, x>>, <<buy, price, x>>, <<price, price, buy, x>>, <<buy, x, buy>>, <<x, price, x>>,
   \* a token of a marker that also stands outside
   <<login, to, site, x>>, <<site, login, to, site>>, <<site, x, login, to, site>>,
   <<login, to, site, site>>, <<login, to, site, login>>,
   \* several intents
   <<teach, x, buy>>, <<buy, x, teach>>, <<teach, x, price>>, <<login, x, teach, buy>>,
   \* cores that are joined
   <<goes>>, <<may, buy, go>>}

Row(id, text, status, demand) ==
  [id |-> id, text |-> text, blank |-> FALSE, status |-> status, demand |-> demand]

\* An empty text is blank, or one of nothing but punctuation.
Tried ==
  {Row(1, text, "unknown", None) : text \in Texts} \cup {[Row(1, <<>>, "unknown", None) EXCEPT !.blank = TRUE]}

Refused ==
  {Row(None, <<x>>, "unknown", None), Row(2, <<x>>, "guessed", None), Row(2, <<x>>, "unknown", 1),
   Row(2, <<x>>, "known", None), Row(2, <<x>>, "known", -1)}

Rivals ==
  {Row(id, text, "unknown", None) : id \in {2, 3}, text \in {<<x>>, <<to, x>>, <<buy, x>>}}
  \cup {Row(id, <<x>>, "known", demand) : id \in {2, 3}, demand \in {0, 7}}
  \cup {Row(3, <<x>>, "estimated", 7)}

\* Lines of a demo file: id 1 is k001, which the first plain line is given too.
Tab(id, text) == [kind |-> "tab", id |-> id, text |-> text, blank |-> text = <<>>]
Plain(text) == [kind |-> "plain", id |-> None, text |-> text, blank |-> FALSE]

MCLines ==
  {Tab(None, <<x>>), Tab(1, <<>>), Tab(3, <<buy>>)}
  \cup {Tab(id, text) : id \in {1, 2}, text \in {<<x, site>>, <<buy, x>>, <<x>>}}
  \cup {Plain(text) : text \in {<<to>>, <<x>>, <<site, x>>, <<buy, site, x>>, <<teach, x>>, <<price, x>>,
                               <<>>, <<goes>>, <<may, to, go>>, <<may, buy, go>>}}

MCRows == Tried \cup Refused \cup Rivals
=============================================================================
