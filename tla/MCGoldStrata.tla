----------------------------- MODULE MCGoldStrata -----------------------------
(* Pools of five and six sentences over two strata, of which the second has the *)
(* larger quota; in some of the pools two rows of one kind share an id.          *)
EXTENDS GoldStrata, TLC

CONSTANTS zwnj, brand

MCStrata == <<zwnj, brand>>
MCQuota == (zwnj :> 2 @@ brand :> 4)

Pools(kinds, ids) ==
  {[i \in 1..Len(kinds) |-> [id |-> ids[i], kind |-> kinds[i], strata |-> strata[i]]] :
     strata \in [1..Len(kinds) -> SUBSET StrataSet]}

MCHarvests ==
  [wiki : Pools(<<"wiki", "wiki">>, <<1, 2>>) \cup Pools(<<"wiki", "wiki">>, <<1, 1>>),
   web : Pools(<<"web", "web", "web">>, <<3, 4, 5>>)]

OneKind == [i \in 1..6 |-> "web"]
MCShuffles == Pools(OneKind, <<1, 2, 3, 4, 5, 6>>) \cup Pools(OneKind, <<1, 2, 3, 1, 4, 5>>)

MCCaps == {("wiki" :> w @@ "web" :> n) : w \in 1..2, n \in 1..4}
=============================================================================
