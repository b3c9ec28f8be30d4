------------------------------ MODULE MCTrading ------------------------------
(* Instances of Trading: an ordinary market and a neg_risk one with rewards,   *)
(* fills of any part of an order, and quotes judged on books from one tick to  *)
(* very wide and on both sides of the edges of the time windows.               *)
EXTENDS Trading

MCSettings ==
  [enabled |-> {"A", "B", "C"}, baseSpread |-> 10, costFloor |-> 10,
   orderSize |-> 2, maxPerMarket |-> 6, resolutionWarn |-> 120, gtdWithin |-> 360,
   gtdBuffer |-> 120, skewThreshold |-> 30, haltThreshold |-> 80, skewMultiplier |-> 3,
   pennyMin |-> 10, pennyMax |-> 300, pennyBudget |-> 600,
   snipeThreshold |-> 9000, snipeMaxFee |-> 5, snipeMin |-> 1, snipeMax |-> 3,
   snipeMaxPosition |-> 5]

Book(bid, ask) == [bid |-> bid, ask |-> ask]
At(resolution, game) == [resolution |-> resolution, game |-> game]

Market(negRisk, fee, adjMid) ==
  [tick |-> 100, negRisk |-> negRisk, accepting |-> TRUE, delayed |-> FALSE, fee |-> fee,
   adjMid |-> adjMid, maxSpread |-> IF adjMid = None THEN None ELSE 600,
   minSize |-> None]

MCMarkets ==
  [t \in Tokens |-> IF t = "ordinary" THEN {Market(FALSE, 0, None)}
                    ELSE {Market(TRUE, 20, 4000)}]

MCEvents ==
  [t \in Tokens |->
     IF t = "ordinary"
     THEN {[book |-> Book(4000, 4500), time |-> At(Never, Never)],
           [book |-> Book(200, 300), time |-> At(Never, Never)]}
     ELSE {[book |-> Book(4000, 4500), time |-> At(Never, Never)]}]

MCSituations ==
  [t \in Tokens |->
     {[book |-> b, time |-> x] :
        b \in {Book(200, 300), Book(3900, 4000), Book(4000, 4800), Book(9300, 9701),
               Book(300, 700)},
        x \in {At(Never, Never), At(120, Never), At(121, 90), At(240, 360), At(241, 121),
               At(360, 120), At(361, 361), At(1440, 60)}}]
=============================================================================
