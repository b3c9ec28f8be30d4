---------------------------- MODULE MCDiffRounds ----------------------------
(* Instances of DiffRounds.  Tick 1, prices 1..5.  Strategy A quotes a BUY   *)
(* and, when it holds the token, a SELL; a second strategy may bid for the   *)
(* same token.                                                               *)
EXTENDS DiffRounds

MCPrices == 1..5

Intent(side, price, terms) ==
  [token |-> "tok", side |-> side, price |-> price, tick |-> 1, terms |-> terms]

Order(j, side, price, terms) ==
  [id |-> j, token |-> "tok", side |-> side, price |-> price, terms |-> terms]

BidOnly == {<<Intent("BUY", b, "gtc")>> : b \in MCPrices}

\* Quotes of strategy A, n ticks or more apart.
TwoSided(n) ==
  {<<Intent("BUY", q[1], "gtc"), Intent("SELL", q[2], "gtc")>> :
     q \in {r \in MCPrices \X MCPrices : r[2] - r[1] >= n}}

\* Two strategies bid for the same token; their bids may be within a tick.
TwoBids ==
  {<<Intent("BUY", q[1], "gtc"), Intent("BUY", q[2], "gtc")>> :
     q \in MCPrices \X MCPrices}

\* Every list of at most n orders.
BooksUpTo(n) ==
  UNION {{[j \in 1..k |-> Order(j, f[j][1], f[j][2], "gtc")] :
            f \in [1..k -> {"BUY", "SELL"} \X MCPrices]} : k \in 0..n}

\* Strategy C bids beside the two quotes of Strategy A.
TwoBidsAndAsk(n) ==
  {<<Intent("BUY", q[1], "gtc"), Intent("SELL", q[2], "gtc"), Intent("BUY", q[3], "gtc")>> :
     q \in {r \in MCPrices \X MCPrices \X MCPrices : r[2] - r[1] >= n /\ r[2] - r[3] >= n}}

MCQuotes == {<<>>} \cup BidOnly \cup TwoSided(1) \cup TwoBids \cup TwoBidsAndAsk(2)
MCBooks  == BooksUpTo(3)
=============================================================================
