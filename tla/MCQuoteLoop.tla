---------------------------- MODULE MCQuoteLoop ----------------------------
(* Instances of QuoteLoop: two tokens, each with one recovered bid, and       *)
(* quotes that keep it, replace it or state nothing.                          *)
EXTENDS QuoteLoop

MCIntent(t, side, price) ==
  [token |-> t, side |-> side, price |-> price, tick |-> 1, terms |-> "gtc"]

MCTickOf == [t \in Tokens |-> 1]

MCSizeOf == [terms \in {"gtc"} |-> 1]

MCRecovered ==
  [t \in Tokens |-> <<[id |-> <<0, 1, 0>>, token |-> t, side |-> "BUY", price |-> 3,
                       terms |-> "gtc"]>>]

\* Bid at 4: within a tick of the recovered bid.  At 6: replaces it.  At 9: more
\* than the per-market limit, so that the gate drops the placement.
MCQuotes ==
  [t \in Tokens |-> {<<>>, <<MCIntent(t, "BUY", 4)>>, <<MCIntent(t, "BUY", 6)>>,
                     <<MCIntent(t, "BUY", 9)>>}]
=============================================================================
