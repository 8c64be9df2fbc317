---------------------------- MODULE MCGoldCorpus ----------------------------
(* Sentences and places for TLC: a page of Wikipedia, shops, of which migrate  *)
(* drops technolife.ir and two share their first label, and a magazine.  The   *)
(* sentence s1 stands in a shop and on the page.  "p" is punctuation, which    *)
(* the second DadmaTools splits off.                                           *)
EXTENDS GoldCorpus

CONSTANTS w1, s1, s2, m1, v1, v2

Kinds == "140283" :> "wiki" @@ "digikala.com" :> "ecommerce" @@ "technolife.com" :> "ecommerce"
         @@ "technolife.ir" :> "ecommerce" @@ "zoomit.ir" :> "other"
AllSites == DOMAIN Kinds
Shells == Permutations(Terminals)
FirstLabels == "140283" :> "140283" @@ "digikala.com" :> "digikala" @@ "technolife.com" :> "technolife"
               @@ "technolife.ir" :> "technolife" @@ "zoomit.ir" :> "zoomit"

At(t, p) == [text |-> t, place |-> p]
ShopOffers == {At(s1, "digikala.com"), At(s2, "digikala.com")}
LifeOffers == {At(s1, "technolife.com"), At(s2, "technolife.ir"), At(s1, "140283")}
ConcurrentOffers == {At(w1, "140283"), At(m1, "zoomit.ir")}

On(f) == [t \in Texts |-> f[t]]
TemplateOf == [t \in Texts |-> t]

Split(word) == "raw" :> <<word>> @@ v1 :> <<word>> @@ v2 :> <<word, "p">>
TokensOf == On(w1 :> Split("w") @@ s1 :> Split("s") @@ s2 :> Split("t") @@ m1 :> Split("m"))
\* The second tokenizer's model calls the punctuation an ezafe, wrongly.
Flagged(flag) == v1 :> <<flag>> @@ v2 :> <<flag, 1>>
FlagsOf == On(w1 :> Flagged(1) @@ s1 :> Flagged(1) @@ s2 :> Flagged(0) @@ m1 :> Flagged(0))
StrataOf == On(w1 :> {} @@ s1 :> {"number_unit"} @@ s2 :> {"number_unit", "plural_ha"} @@ m1 :> {})
=============================================================================
