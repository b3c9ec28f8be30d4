--------------------------- MODULE MCMarketStream ---------------------------
(* Instances of MarketStream: two bid and two ask levels, so that a lost delta  *)
(* can leave a crossed book, or one that never existed and is not crossed.      *)
EXTENDS MarketStream

Level(side, price) == [side |-> side, price |-> price]

MCBooks ==
  {{Level("BUY", 1), Level("SELL", 2)}, {Level("BUY", 2), Level("SELL", 3)},
   {Level("BUY", 1), Level("SELL", 3)}}

\* A number is written as the text that str() makes of it.
MCStr == [spelling \in Spellings |-> "text"]

\* From one book with two levels: the two changes lead to the others.
MCInit == Init /\ \A t \in Tokens : history[t] = <<{Level("BUY", 1), Level("SELL", 2)}>>

MCSpec == MCInit /\ [][Next]_vars /\ Fairness
=============================================================================
