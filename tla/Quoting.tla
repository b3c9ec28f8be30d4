------------------------------- MODULE Quoting -------------------------------
(***************************************************************************)
(* core/execution/quote_engine.py with the three strategies, the fee gates *)
(* and the inventory skew: what the bot wants to have open in a market,    *)
(* given its book, its inventory and the time.  Pure: no state of its own. *)
(*                                                                         *)
(* Prices, spreads and fees are in basis points of a dollar (10000 = $1),  *)
(* the four decimals the strategies round to; times are in minutes, from   *)
(* now; sizes in shares.  A price of None means "no level" or "not set".   *)
(***************************************************************************)
EXTENDS Integers, Sequences

CONSTANT Settings     \* record of the fields of Settings the strategies are built with

\* Sizes are positive, and the skew at which quoting stops is at most all of it.
ASSUME SettingsAssumption ==
  /\ Settings.orderSize \in Nat \ {0} /\ Settings.haltThreshold \in 0..100
  /\ Settings.baseSpread \in Nat /\ Settings.costFloor \in Nat
  /\ Settings.skewMultiplier \in Int

\* config/settings.py:56 and 85: quoting stops no later than the expiry's buffer
\* before the resolution.  Both are two hours there; the program compares them nowhere.
ASSUME WindowsAssumption ==
  /\ Settings.gtdBuffer \in Int /\ Settings.gtdWithin \in Int
  /\ Settings.resolutionWarn \in Int /\ Settings.resolutionWarn >= Settings.gtdBuffer

None == -1            \* of prices and fees; real ones are not negative
Never == 100000       \* time to a resolution or game that is not set: more than a day
NoExpiry == -Never    \* the expiry of a GTC order
SnipeBuffer == 120    \* gtd_resolution_buffer_ms and resolution_warn_ms of Strategy C

Larger(a, b) == IF a >= b THEN a ELSE b
Smaller(a, b) == IF a <= b THEN a ELSE b
Clamp(low, high, p) == Larger(low, Smaller(p, high))
Magnitude(a) == IF a < 0 THEN -a ELSE a

-----------------------------------------------------------------------------
\* Twice the midpoint, so that it is an integer.
TwiceMid(book) == book.bid + book.ask
TwiceMids == 1000..19000      \* of the midpoints Strategy A quotes around
TwoSided(book) == book.bid # None /\ book.ask # None

\* FR-153 and FR-154.
MinProfitableSpread(fee) == Larger(Settings.baseSpread, 2 * fee + Settings.costFloor)

PassesStrategyAGate(fee, spread) ==
  /\ spread >= MinProfitableSpread(fee)
  /\ fee > 100 => spread >= 3 * fee

\* The skew is Imbalance/Worth; nothing in the program sets yesPrice, which
\* stays the 0.5 of a new InventoryState.
Imbalance(inv) == inv.yes * inv.yesPrice - inv.no * (10000 - inv.yesPrice)
Worth(inv) == inv.yes * inv.yesPrice + inv.no * (10000 - inv.yesPrice)

\* Mutant of SkewReaches: a position of one kind only is not a skew.
SkewReachesIfMixed(inv, percent) ==
  /\ inv.yes > 0 /\ inv.no > 0
  /\ 100 * Magnitude(Imbalance(inv)) >= percent * Worth(inv)

\* |skew| >= percent; a skew of nothing is 0.
SkewReaches(inv, percent) ==
  /\ Worth(inv) > 0 \/ percent <= 0
  /\ 100 * Magnitude(Imbalance(inv)) >= percent * Worth(inv)

\* round(): to the nearest integer, from halfway to the even one.
RoundHalfEven(n, d) ==
  LET q == n \div d
      twice == 2 * (n % d)
  IN  IF twice > d \/ (twice = d /\ q % 2 = 1) THEN q + 1 ELSE q

QuoteOffsetTicks(inv) ==
  IF Worth(inv) = 0 THEN 0
  ELSE RoundHalfEven(Imbalance(inv) * Settings.skewMultiplier, Worth(inv))

SkewOffset(inv, tick) ==
  IF SkewReaches(inv, Settings.skewThreshold) THEN QuoteOffsetTicks(inv) * tick ELSE 0

\* Mutant of ApplyFill: as its docstring has it, a SELL decreases the YES shares.
ApplyFillToBoth(inv, side, size) ==
  IF side = "BUY" THEN [inv EXCEPT !.yes = @ + size]
  ELSE [inv EXCEPT !.yes = @ - size, !.no = @ + size]

\* apply_fill: a SELL adds to the NO shares and takes nothing from the YES shares.
ApplyFill(inv, side, size) ==
  IF side = "BUY" THEN [inv EXCEPT !.yes = @ + size] ELSE [inv EXCEPT !.no = @ + size]

NewInventory == [yes |-> 0, no |-> 0, yesPrice |-> 5000]

-----------------------------------------------------------------------------
Signal(strategy, side, price, size, postOnly, expiry) ==
  [strategy |-> strategy, side |-> side, price |-> price, size |-> size,
   postOnly |-> postOnly, expiry |-> expiry]

\* Strategy A's ten gates, in front of its prices.
GatesOfA(market, book, inv, time) ==
  /\ market.accepting /\ ~market.delayed
  /\ time.resolution > Settings.resolutionWarn
  /\ time.game > 0
  /\ inv.yes < Settings.maxPerMarket
  /\ market.fee # None
  /\ TwoSided(book) /\ TwiceMid(book) \in TwiceMids
  /\ PassesStrategyAGate(market.fee, book.ask - book.bid)
  /\ ~SkewReaches(inv, Settings.haltThreshold)

\* One tick inside the book, or at it when the book is one or two ticks wide.
Improvement(market, book) ==
  IF book.ask - book.bid > 2 * market.tick THEN market.tick ELSE 0

BidOfA(market, book, inv) ==
  book.bid + Improvement(market, book) - SkewOffset(inv, market.tick)

\* Mutant of AskOfA: the offset moves both quotes the same way.
AskOfAShifted(market, book, inv) ==
  book.ask - Improvement(market, book) - SkewOffset(inv, market.tick)

AskOfA(market, book, inv) ==
  book.ask - Improvement(market, book) + SkewOffset(inv, market.tick)

\* Mutant of ExpiryOfA: the game comes before the resolution.
ExpiryOfAGameFirst(time) ==
  LET before(event) == event - Settings.gtdBuffer + 1
  IN  IF time.game <= Settings.gtdWithin THEN before(time.game)
      ELSE IF time.resolution <= Settings.gtdWithin THEN before(time.resolution)
      ELSE NoExpiry

\* GTD with an expiry a buffer before the resolution, or else before the game.
\* The game's expiry uses the buffer of the resolution.
ExpiryOfA(time) ==
  LET before(event) == event - Settings.gtdBuffer + 1
  IN  IF time.resolution <= Settings.gtdWithin THEN before(time.resolution)
      ELSE IF time.game <= Settings.gtdWithin THEN before(time.game)
      ELSE NoExpiry

\* SELL without collateral in USDC needs the tokens.
MaySell(market, inv) == market.negRisk \/ inv.yes >= Settings.orderSize

ToProbability(price) == Clamp(100, 9900, price)

QuoteOfA(side, price, time) ==
  Signal("A", side, ToProbability(price), Settings.orderSize, TRUE, ExpiryOfA(time))

StrategyA(market, book, inv, time) ==
  LET bid == BidOfA(market, book, inv)
      ask == AskOfA(market, book, inv)
  IN  IF ~GatesOfA(market, book, inv, time) \/ ask - bid < market.tick THEN <<>>
      ELSE <<QuoteOfA("BUY", bid, time)>> \o
           (IF MaySell(market, inv) THEN <<QuoteOfA("SELL", ask, time)>> ELSE <<>>)

\* Strategy B buys pennies at the ask.  Its budget cap compares with a total that
\* nothing in the program ever raises from zero.
StrategyB(market, book, time) ==
  IF /\ market.accepting
     /\ time.resolution >= 24 * 60
     /\ book.ask # None /\ book.ask \in Settings.pennyMin..Settings.pennyMax
  THEN <<Signal("B", "BUY", book.ask, Larger(1, Settings.pennyBudget \div book.ask), FALSE, NoExpiry)>>
  ELSE <<>>

\* Strategy C, in the hours before the resolution.
GatesOfC(market, book, inv, time) ==
  /\ ~market.negRisk /\ market.accepting
  /\ market.fee # None /\ market.fee < Settings.snipeMaxFee
  /\ time.resolution > SnipeBuffer /\ time.resolution <= 240
  /\ inv.yes < Settings.snipeMaxPosition
  /\ TwoSided(book) /\ book.ask - book.bid >= 200

Certain(book) == TwiceMid(book) > 2 * Settings.snipeThreshold
CertainNot(book) == TwiceMid(book) < 2 * (10000 - Settings.snipeThreshold)

\* For a market that is all but lost the bid is a discount on the price of the
\* other outcome, 1 - best bid, and the token stays this one.  Half of an odd
\* spread is rounded away in the result: to four decimals, halves to even.
PriceOfC(book) ==
  LET spread == book.ask - book.bid
      top == IF Certain(book) THEN book.ask ELSE 10000 - book.bid
  IN  RoundHalfEven(Clamp(2 * (top - 200), 2 * (top - 100), 2 * top - spread), 2)

SizeOfC(book) ==
  LET twiceCertainty == IF Certain(book) THEN TwiceMid(book) ELSE 20000 - TwiceMid(book)
      excess == twiceCertainty - 2 * Settings.snipeThreshold
  IN  Settings.snipeMin + (excess * (Settings.snipeMax - Settings.snipeMin))
                            \div (20000 - 2 * Settings.snipeThreshold)

StrategyC(market, book, inv, time) ==
  IF GatesOfC(market, book, inv, time) /\ (Certain(book) \/ CertainNot(book))
  THEN <<Signal("C", "BUY", PriceOfC(book), SizeOfC(book), TRUE, time.resolution - SnipeBuffer + 1)>>
  ELSE <<>>

-----------------------------------------------------------------------------
Rewarded(market) == market.adjMid # None /\ market.maxSpread # None
RewardLow(market) == market.adjMid - market.maxSpread \div 2
RewardHigh(market) == market.adjMid + market.maxSpread \div 2

\* Mutant of ApplyRewardConstraints: bids are only raised and asks only lowered.
PullToMidpoint(signal, market) ==
  IF ~Rewarded(market) THEN signal
  ELSE [signal EXCEPT !.price = IF signal.side = "BUY" THEN Larger(@, RewardLow(market))
                                ELSE Smaller(@, RewardLow(market))]

\* FR-402, FR-403: into the reward band, up to the reward's minimum size.
ApplyRewardConstraints(signal, market) ==
  IF ~Rewarded(market) THEN signal
  ELSE [signal EXCEPT
          !.price = Clamp(RewardLow(market), RewardHigh(market), @),
          !.size = IF market.minSize = None THEN @ ELSE Larger(@, market.minSize)]

\* QuoteEngine.compute(): the signals of A, B and C in this order.
Desired(market, book, inv, time) ==
  LET signals == (IF "A" \in Settings.enabled THEN StrategyA(market, book, inv, time) ELSE <<>>)
              \o (IF "B" \in Settings.enabled THEN StrategyB(market, book, time) ELSE <<>>)
              \o (IF "C" \in Settings.enabled THEN StrategyC(market, book, inv, time) ELSE <<>>)
  IN  [i \in DOMAIN signals |-> ApplyRewardConstraints(signals[i], market)]
=============================================================================
