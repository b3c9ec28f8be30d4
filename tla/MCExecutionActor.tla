-------------------------- MODULE MCExecutionActor --------------------------
(* Instances of ExecutionActor: one token, or two, with two recovered orders *)
(* (the two sides of a quote placed before the restart) and quotes that keep *)
(* both, replace one, cross one, or state nothing.                           *)
EXTENDS ExecutionActor

MCIntent(t, side, price) ==
  [token |-> t, side |-> side, price |-> price, tick |-> 1, terms |-> "gtc"]

MCOrder(j, t, side, price) ==
  [id |-> <<0, j, 0>>, token |-> t, side |-> side, price |-> price, terms |-> "gtc"]

MCTickOf == [t \in Tokens |-> 1]

TwoSided(t, b) == <<MCIntent(t, "BUY", b), MCIntent(t, "SELL", b + 2)>>

\* The quote left by the previous run of the process: bid 3, offer 6.
MCRecovered ==
  [t \in Tokens |-> <<MCOrder(1, t, "BUY", 3), MCOrder(2, t, "SELL", 6)>>]

\* Quote at 2/4: keeps the bid within a tick, offers a tick above it, so the
\* kept bid is a self-cross.  At 9/11: cancels and places both sides.  The risk
\* gate may drop either placement, or both.
MCQuotes == [t \in Tokens |-> {TwoSided(t, 2), TwoSided(t, 9)}]
=============================================================================
