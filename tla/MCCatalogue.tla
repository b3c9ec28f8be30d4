---------------------------- MODULE MCCatalogue ----------------------------
(* Instances of Catalogue: a market of two tokens beside markets of one, which *)
(* swap places, stop accepting orders and tie in reward.                       *)
EXTENDS Catalogue

Market(tokens, reward, accepting) ==
  [tokens |-> tokens, reward |-> reward, accepting |-> accepting]

MCListings ==
  {<<Market({"t1"}, 1, TRUE), Market({"t2"}, 2, TRUE)>>,
   <<Market({"t2"}, 2, TRUE), Market({"t1"}, 1, TRUE)>>,
   <<Market({"t2"}, 2, FALSE), Market({"t1"}, 1, TRUE)>>,
   <<Market({"t1", "t2"}, 1, TRUE)>>}
MCRates == {1, 2}
=============================================================================
