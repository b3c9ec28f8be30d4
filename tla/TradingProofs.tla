---------------------------- MODULE TradingProofs ----------------------------
(***************************************************************************)
(* For any tokens, markets, books and settings within the assumptions, and *)
(* any number of events, fills and scans: that the accounts balance, what  *)
(* the inventory tells of the position, why nothing is ever sold on an     *)
(* ordinary market, and that quotes keep off the book, apart and in time.  *)
(***************************************************************************)
EXTENDS Trading, SequenceTheorems, TLAPS

-----------------------------------------------------------------------------
(* What a fill does to a position and to its accounts.  Equal fractions are    *)
(* equal products, and each product below is one polynomial.                   *)

Position == [shares : Nat, avg : Fractions, realized : Fractions]
Account == [bought : Nat, sold : Nat, paid : Int, earned : Int]

\* AccountsBalance of one token.  Nothing lowers the shares by more than was sold.
Balanced(pos, acc) ==
  /\ pos.shares >= acc.bought - acc.sold
  /\ pos.shares = acc.bought - acc.sold =>
       SameFraction(pos.realized, Plus(Whole(acc.earned - acc.paid), Times(pos.avg, pos.shares)))

LEMMA PurchaseBalances ==
  ASSUME NEW n \in Int, NEW k \in Int, NEW w \in Int, NEW x \in Int,
         NEW p \in Int, NEW q \in Int, NEW r \in Int, NEW s \in Int,
         r * q = (x * q + p * n) * s
  PROVE  r * (q * (n + k)) = ((x - w) * (q * (n + k)) + (p * n + w * q) * (n + k)) * s
<1> DEFINE m == n + k
<1>1. m \in Int
  OBVIOUS
<1> HIDE DEF m
<1>2. (r * q) * m = ((x * q + p * n) * s) * m
  OBVIOUS
<1>3. r * (q * m) = (r * q) * m
  BY <1>1
<1>4. ((x - w) * (q * m) + (p * n + w * q) * m) * s = ((x * q + p * n) * s) * m
  BY <1>1
<1>5. QED
  BY <1>2, <1>3, <1>4 DEF m

LEMMA SaleBalances ==
  ASSUME NEW n \in Int, NEW k \in Int, NEW c \in Int, NEW x \in Int,
         NEW p \in Int, NEW q \in Int, NEW r \in Int, NEW s \in Int,
         r * q = (x * q + p * n) * s
  PROVE  (r * q + ((c * q - p) * k) * s) * q = ((x + k * c) * q + p * (n - k)) * (s * q)
<1>1. (r * q + ((c * q - p) * k) * s) * q = (r * q) * q + (((c * q - p) * k) * s) * q
  OBVIOUS
<1>2. ((x + k * c) * q + p * (n - k)) * (s * q)
        = ((x * q + p * n) * s) * q + (((c * q - p) * k) * s) * q
  OBVIOUS
<1>3. QED
  BY <1>1, <1>2

\* Balanced() in the numbers of the fractions.
InNumbers(n, d, p, q, r, s, x) == n >= d /\ (n = d => r * q = (x * q + p * n) * s)

LEMMA BalancedInNumbers ==
  ASSUME NEW pos \in Position, NEW acc \in Account
  PROVE  Balanced(pos, acc) = InNumbers(pos.shares, acc.bought - acc.sold, pos.avg[1], pos.avg[2],
                                        pos.realized[1], pos.realized[2], acc.earned - acc.paid)
<1> DEFINE total == Plus(Whole(acc.earned - acc.paid), Times(pos.avg, pos.shares))
           n == pos.shares
           p == pos.avg[1]
           q == pos.avg[2]
           x == acc.earned - acc.paid
<1>1. n \in Int /\ p \in Int /\ q \in Int /\ x \in Int
  BY DEF Position, Account, Fractions
<1>2. total = <<x * q + (p * n) * 1, 1 * q>>
  BY DEF Plus, Whole, Times
<1>3. x * q + (p * n) * 1 = x * q + p * n /\ 1 * q = q
  <2> HIDE DEF n, p, q, x
  <2>1. QED
    BY <1>1
<1>4. total[1] = x * q + p * n /\ total[2] = q
  <2> HIDE DEF n, p, q, x, total
  <2>1. QED
    BY <1>2, <1>3
<1>5. Balanced(pos, acc) = /\ n >= acc.bought - acc.sold
                           /\ n = acc.bought - acc.sold =>
                                pos.realized[1] * total[2] = total[1] * pos.realized[2]
  BY DEF Balanced, SameFraction
<1> HIDE DEF total
<1>6. QED
  BY <1>4, <1>5 DEF InNumbers

LEMMA BuyingBalances ==
  ASSUME NEW pos \in Position, NEW acc \in Account, Balanced(pos, acc),
         NEW fill, fill.side = "BUY", fill.size \in Nat \ {0}, fill.price \in Int
  PROVE  /\ UpdatePosition(pos, fill.side, fill.price, fill.size) \in Position
         /\ Entered(acc, fill) \in Account
         /\ Balanced(UpdatePosition(pos, fill.side, fill.price, fill.size), Entered(acc, fill))
         /\ UpdatePosition(pos, fill.side, fill.price, fill.size).shares = pos.shares + fill.size
<1>1. PICK n \in Nat : n = pos.shares
  BY DEF Position
<1>2. PICK p \in Int, q \in Nat \ {0} : pos.avg = <<p, q>>
  BY DEF Position, Fractions
<1>3. PICK r \in Int, s \in Nat \ {0} : pos.realized = <<r, s>>
  BY DEF Position, Fractions
<1>4. PICK k \in Nat \ {0} : k = fill.size
  OBVIOUS
<1>5. PICK c \in Int : c = fill.price
  OBVIOUS
<1>6. PICK b0 \in Nat, s0 \in Nat, p0 \in Int, e0 \in Int :
        acc = [bought |-> b0, sold |-> s0, paid |-> p0, earned |-> e0]
  BY DEF Account
<1>7. PICK x \in Int, d \in Int : x = e0 - p0 /\ d = b0 - s0
  OBVIOUS
<1> DEFINE w == k * c
           new == UpdatePosition(pos, fill.side, fill.price, fill.size)
           entered == Entered(acc, fill)
<1>8. w \in Int /\ n + k \in Nat \ {0} /\ q * (n + k) \in Nat \ {0} /\ p * n + w * q \in Int
  <2>1. w \in Int /\ n + k \in Nat \ {0}
    OBVIOUS
  <2> HIDE DEF w
  <2>2. QED
    BY <2>1
<1>9. new = [shares |-> n + k, avg |-> <<p * n + w * q, q * (n + k)>>, realized |-> <<r, s>>]
  <2>1. Plus(Times(pos.avg, pos.shares), Whole(fill.size * fill.price)) = <<p * n + w * q, q>>
    <3>1. Times(pos.avg, pos.shares) = <<p * n, q>> /\ Whole(fill.size * fill.price) = <<w, 1>>
      BY <1>1, <1>2, <1>4, <1>5 DEF Times, Whole
    <3> HIDE DEF w
    <3>2. Plus(<<p * n, q>>, <<w, 1>>) = <<p * n + w * q, q>>
      BY <1>8 DEF Plus
    <3>3. QED
      BY <3>1, <3>2
  <2> DEFINE cost == Plus(Times(pos.avg, pos.shares), Whole(fill.size * fill.price))
  <2>2. new = [pos EXCEPT !.shares = pos.shares + fill.size,
                          !.avg = <<cost[1], cost[2] * (pos.shares + fill.size)>>]
    BY DEF UpdatePosition, Bought
  <2> HIDE DEF w, new, cost
  <2>3. cost[1] = p * n + w * q /\ cost[2] = q
    BY <2>1 DEF cost
  <2>4. new = [pos EXCEPT !.shares = n + k, !.avg = <<p * n + w * q, q * (n + k)>>]
    BY <2>2, <2>3, <1>1, <1>4
  <2>5. QED
    BY <2>4, <1>3 DEF Position
<1>10. entered = [bought |-> b0 + k, sold |-> s0, paid |-> p0 + w, earned |-> e0]
  BY <1>4, <1>5, <1>6 DEF Entered
<1> HIDE DEF w, new, entered
<1>11. /\ entered \in Account
       /\ entered.bought - entered.sold = d + k /\ entered.earned - entered.paid = x - w
  BY <1>7, <1>8, <1>10 DEF Account
<1>12. new \in Position /\ new.shares = n + k
  BY <1>8, <1>9 DEF Position, Fractions
<1>13. n >= d /\ (n = d => r * q = (x * q + p * n) * s)
  <2>1. acc.earned - acc.paid = x /\ acc.bought - acc.sold = d
    BY <1>6, <1>7
  <2>2. pos.avg[1] = p /\ pos.avg[2] = q /\ pos.realized[1] = r /\ pos.realized[2] = s
    BY <1>2, <1>3
  <2>3. InNumbers(n, d, p, q, r, s, x)
    BY <1>1, <2>1, <2>2, BalancedInNumbers
  <2>4. QED
    BY <2>3 DEF InNumbers
<1>14. Balanced(new, entered)
  <2> DEFINE a == p * n + w * q
             b == q * (n + k)
             m == n + k
             y == x - w
             e == d + k
  <2>1. a \in Int /\ b \in Int /\ m \in Int /\ y \in Int /\ e \in Int
    BY <1>8
  <2>2. /\ new.shares = m /\ new.avg[1] = a /\ new.avg[2] = b
        /\ new.realized[1] = r /\ new.realized[2] = s
        /\ entered.earned - entered.paid = y /\ entered.bought - entered.sold = e
    BY <1>9, <1>11
  <2>3. m >= e /\ (m = e => n = d)
    BY <1>13
  <2>4. n = d => r * b = (y * b + a * m) * s
    BY <1>8, <1>13, PurchaseBalances
  <2> HIDE DEF a, b, m, y, e
  <2>5. InNumbers(m, e, a, b, r, s, y)
    BY <2>3, <2>4 DEF InNumbers
  <2>6. QED
    BY <1>11, <1>12, <2>2, <2>5, BalancedInNumbers
<1>15. QED
  BY <1>1, <1>4, <1>11, <1>12, <1>14 DEF new, entered

\* More than there is may be sold: then the shares stop at none, above what is left
\* of the purchases, for good.
LEMMA SellingBalances ==
  ASSUME NEW pos \in Position, NEW acc \in Account, Balanced(pos, acc),
         NEW fill, fill.side # "BUY", fill.size \in Nat \ {0}, fill.price \in Int
  PROVE  /\ UpdatePosition(pos, fill.side, fill.price, fill.size) \in Position
         /\ Entered(acc, fill) \in Account
         /\ Balanced(UpdatePosition(pos, fill.side, fill.price, fill.size), Entered(acc, fill))
         /\ UpdatePosition(pos, fill.side, fill.price, fill.size).shares =
              IF pos.shares >= fill.size THEN pos.shares - fill.size ELSE 0
<1>1. PICK n \in Nat : n = pos.shares
  BY DEF Position
<1>2. PICK p \in Int, q \in Nat \ {0} : pos.avg = <<p, q>>
  BY DEF Position, Fractions
<1>3. PICK r \in Int, s \in Nat \ {0} : pos.realized = <<r, s>>
  BY DEF Position, Fractions
<1>4. PICK k \in Nat \ {0} : k = fill.size
  OBVIOUS
<1>5. PICK c \in Int : c = fill.price
  OBVIOUS
<1>6. PICK b0 \in Nat, s0 \in Nat, p0 \in Int, e0 \in Int :
        acc = [bought |-> b0, sold |-> s0, paid |-> p0, earned |-> e0]
  BY DEF Account
<1>7. PICK x \in Int, d \in Int : x = e0 - p0 /\ d = b0 - s0
  OBVIOUS
<1> DEFINE w == k * c
           left == IF n >= k THEN n - k ELSE 0
           gain == r * q + ((c * q - p) * k) * s
           new == UpdatePosition(pos, fill.side, fill.price, fill.size)
           entered == Entered(acc, fill)
<1>8. /\ w \in Int /\ left \in Nat /\ gain \in Int /\ s * q \in Nat \ {0}
      /\ left >= n - k
  OBVIOUS
<1>9. new = [shares |-> left, avg |-> <<p, q>>, realized |-> <<gain, s * q>>]
  <2>1. Plus(Whole(fill.price), Times(pos.avg, -1)) = <<c * q - p, q>>
    BY <1>2, <1>5 DEF Plus, Whole, Times
  <2>2. Times(<<c * q - p, q>>, fill.size) = <<(c * q - p) * k, q>>
    BY <1>4 DEF Times
  <2>3. Plus(pos.realized, <<(c * q - p) * k, q>>) = <<gain, s * q>>
    BY <1>3 DEF Plus
  <2>4. (IF pos.shares >= fill.size THEN pos.shares - fill.size ELSE 0) = left
    BY <1>1, <1>4
  <2>5. new = [pos EXCEPT !.shares = left, !.realized = <<gain, s * q>>]
    BY <2>1, <2>2, <2>3, <2>4 DEF UpdatePosition, Sold
  <2> HIDE DEF new, left, gain
  <2>6. QED
    BY <2>5, <1>2 DEF Position
<1>10. entered = [bought |-> b0, sold |-> s0 + k, paid |-> p0, earned |-> e0 + w]
  BY <1>4, <1>5, <1>6 DEF Entered
<1>11. left = n - k => gain * q = ((x + w) * q + p * left) * (s * q)
                       \/ ~(r * q = (x * q + p * n) * s)
  BY SaleBalances
<1>12. left = IF pos.shares >= fill.size THEN pos.shares - fill.size ELSE 0
  BY <1>1, <1>4
<1> HIDE DEF w, left, gain, new, entered
<1>13. /\ entered \in Account
       /\ entered.bought - entered.sold = d - k /\ entered.earned - entered.paid = x + w
  BY <1>7, <1>8, <1>10 DEF Account
<1>14. new \in Position /\ new.shares = left
  BY <1>8, <1>9 DEF Position, Fractions
<1>15. n >= d /\ (n = d => r * q = (x * q + p * n) * s)
  <2>1. acc.earned - acc.paid = x /\ acc.bought - acc.sold = d
    BY <1>6, <1>7
  <2>2. pos.avg[1] = p /\ pos.avg[2] = q /\ pos.realized[1] = r /\ pos.realized[2] = s
    BY <1>2, <1>3
  <2>3. InNumbers(n, d, p, q, r, s, x)
    BY <1>1, <2>1, <2>2, BalancedInNumbers
  <2>4. QED
    BY <2>3 DEF InNumbers
<1>16. Balanced(new, entered)
  <2> DEFINE y == x + w
             e == s * q
             f == d - k
  <2>1. y \in Int /\ e \in Int /\ f \in Int
    BY <1>8
  <2>2. /\ new.shares = left /\ new.avg[1] = p /\ new.avg[2] = q
        /\ new.realized[1] = gain /\ new.realized[2] = e
        /\ entered.earned - entered.paid = y /\ entered.bought - entered.sold = f
    BY <1>9, <1>13
  <2>3. left >= f /\ (left = f => left = n - k /\ n = d)
    BY <1>8, <1>15
  <2>4. left = f => gain * q = (y * q + p * left) * e
    BY <2>3, <1>11, <1>15
  <2> HIDE DEF y, e, f
  <2>5. InNumbers(left, f, p, q, gain, e, y)
    BY <2>3, <2>4 DEF InNumbers
  <2>6. QED
    BY <1>13, <1>14, <2>2, <2>5, BalancedInNumbers
<1>17. QED
  BY <1>12, <1>13, <1>14, <1>16 DEF new, entered

-----------------------------------------------------------------------------
\* What is placed and filled of these tokens is bought.
Ordinary(t) == t \in Tokens /\ \A m \in Markets[t] : ~m.negRisk

Held(t) == IF t \in DOMAIN positions THEN positions[t].shares ELSE 0

\* A fill, and an order.
Sized(f) ==
  /\ f.token \in Tokens /\ f.size \in Nat \ {0} /\ f.price \in Int
  /\ Ordinary(f.token) => f.side = "BUY"

Resting(o) ==
  /\ o = [id |-> o.id, token |-> o.token, negRisk |-> o.negRisk, strategy |-> o.strategy,
          side |-> o.side, price |-> o.price, size |-> o.size, left |-> o.left]
  /\ o.token \in Tokens /\ o.price \in Int
  /\ ~o.negRisk => Ordinary(o.token)
  /\ Ordinary(o.token) => o.side = "BUY"

Inventory == [yes : Nat, no : Nat, yesPrice : {5000}]

MarketsTyped == \A t \in DOMAIN markets : t \in Tokens /\ markets[t] \in Markets[t]

InventoriesTyped ==
  \A t \in DOMAIN inventories :
    t \in Tokens /\ inventories[t] \in Inventory /\ (Ordinary(t) => inventories[t].no = 0)

PositionsTyped ==
  /\ \A t \in DOMAIN positions : t \in Tokens /\ positions[t] \in Position
  /\ accounts \in [Tokens -> Account]

\* Of tokens with a position and, as new positions, of those without.
Accounted ==
  \A t \in Tokens :
    IF t \in DOMAIN positions THEN Balanced(positions[t], accounts[t])
    ELSE accounts[t] = [bought |-> 0, sold |-> 0, paid |-> 0, earned |-> 0]

\* The shares of a token that was never oversold.
Exact == \A t \in Tokens \ oversold : Held(t) = accounts[t].bought - accounts[t].sold

FillsTyped == \E S : fillQueue \in Seq(S) /\ \A f \in S : Sized(f)

\* The inventory a token has, or would be given, and its position.
Bracket ==
  \A t \in Tokens \ missed :
    IF t \in DOMAIN inventories
    THEN Held(t) <= inventories[t].yes /\ Held(t) >= inventories[t].yes - inventories[t].no
    ELSE Held(t) = 0

TInv ==
  /\ MarketsTyped /\ InventoriesTyped /\ PositionsTyped /\ FillsTyped /\ Bracket /\ Accounted
  /\ Exact /\ \A o \in placed : Resting(o)

-----------------------------------------------------------------------------
\* Who has only bought is at full skew.
LEMMA FullySkewed ==
  ASSUME NEW inv \in Inventory, inv.no = 0, inv.yes > 0
  PROVE  SkewReaches(inv, Settings.haltThreshold)
<1> DEFINE y == inv.yes
           h == Settings.haltThreshold
           w == y * 5000
<1>1. inv.yesPrice = 5000 /\ y \in Nat \ {0} /\ h \in 0..100
  BY SettingsAssumption DEF Inventory
<1>2. Worth(inv) = w /\ Imbalance(inv) = w /\ w \in Nat \ {0}
  BY <1>1 DEF Worth, Imbalance
<1>3. Magnitude(Imbalance(inv)) = w
  BY <1>2 DEF Magnitude
<1>4. 100 * w >= h * w
  <2> HIDE DEF w, h
  <2>1. (100 - h) * w >= 0
    BY <1>1, <1>2
  <2>2. QED
    BY <2>1, <1>1, <1>2
<1>5. QED
  BY <1>2, <1>3, <1>4 DEF SkewReaches

-----------------------------------------------------------------------------
(* Where the quotes lie: Strategy A's two are as far from the midpoint, one on *)
(* either side, whatever the skew.                                             *)

\* The book, the time and the market quotes are judged in.
TypedCase(market, book, time) ==
  /\ market.tick \in Nat \ {0} /\ {market.fee, market.adjMid, market.maxSpread} \subseteq Int
  /\ {book.bid, book.ask, time.resolution, time.game} \subseteq Int

LEMMA DivisionIsInt ==
  ASSUME NEW n \in Int, NEW d \in Nat \ {0}
  PROVE  n \div d \in Int
OBVIOUS

LEMMA RoundedIsInt ==
  ASSUME NEW n \in Int, NEW d \in Nat \ {0}
  PROVE  RoundHalfEven(n, d) \in Int
BY DivisionIsInt DEF RoundHalfEven

\* Half of a number, rounded, is no more than the integers the number's half is below.
LEMMA HalfRounded ==
  ASSUME NEW n \in Int, NEW k \in Int, n <= 2 * k
  PROVE  RoundHalfEven(n, 2) \in Int /\ RoundHalfEven(n, 2) <= k
<1> DEFINE q == n \div 2
           r == n % 2
<1>1. q \in Int /\ r \in 0..1 /\ n = 2 * q + r
  OBVIOUS
<1>2. RoundHalfEven(n, 2) \in {q, q + 1} /\ (r = 0 => RoundHalfEven(n, 2) = q)
  BY <1>1 DEF RoundHalfEven
<1> HIDE DEF q, r
<1>3. QED
  BY <1>1, <1>2

LEMMA OffsetIsInt ==
  ASSUME NEW inv \in Inventory, NEW tick \in Int
  PROVE  SkewOffset(inv, tick) \in Int
<1>1. inv.yes \in Nat /\ inv.no \in Nat /\ inv.yesPrice = 5000
  BY DEF Inventory
<1>2. Imbalance(inv) \in Int /\ Worth(inv) \in Nat
  BY <1>1 DEF Imbalance, Worth
<1>3. Imbalance(inv) * Settings.skewMultiplier \in Int
  BY <1>2, SettingsAssumption
<1>4. QuoteOffsetTicks(inv) \in Int
  BY <1>2, <1>3, RoundedIsInt DEF QuoteOffsetTicks
<1>5. QED
  BY <1>4 DEF SkewOffset

LEMMA MidInRange ==
  ASSUME NEW n \in TwiceMids
  PROVE  n >= 1000 /\ n <= 19000
BY SMTT(30) DEF TwiceMids

LEMMA Clamped ==
  ASSUME NEW b \in Int, NEW a \in Int, b < a, b + a \in TwiceMids
  PROVE  /\ ToProbability(b) \in Int /\ ToProbability(a) \in Int
         /\ ToProbability(b) < ToProbability(a)
         /\ 2 * ToProbability(b) < b + a
         /\ 2 * ToProbability(a) > b + a
<1>1. b + a >= 1000 /\ b + a <= 19000
  BY MidInRange
<1>2. ASSUME NEW p \in Int
      PROVE  ToProbability(p) = IF p <= 100 THEN 100 ELSE IF p <= 9900 THEN p ELSE 9900
  BY DEF ToProbability, Clamp, Larger, Smaller
<1>3. ToProbability(b) \in Int /\ ToProbability(a) \in Int /\ ToProbability(b) < ToProbability(a)
  BY <1>1, <1>2
<1>4. 2 * ToProbability(b) < b + a
  BY <1>1, <1>2
<1>5. 2 * ToProbability(a) > b + a
  BY <1>1, <1>2
<1>6. QED
  BY <1>3, <1>4, <1>5

\* A price in the order of another, and on its side of a third, is so after the
\* reward band, or the band is on the other side.
LEMMA Banded ==
  ASSUME NEW low \in Int, NEW high \in Int, NEW p \in Int, NEW q \in Int
  PROVE  /\ p <= q => Clamp(low, high, p) <= Clamp(low, high, q)
         /\ p < q /\ Clamp(low, high, p) >= q => low >= q
         /\ p > q /\ Clamp(low, high, p) <= q => high <= q
BY DEF Clamp, Larger, Smaller

LEMMA MinimumIsNotNegative ==
  ASSUME NEW fee \in Int
  PROVE  MinProfitableSpread(fee) \in Nat
BY SettingsAssumption DEF MinProfitableSpread, Larger

\* Strategy A states its quotes.
AsksOfA(market, book, inv, time) ==
  /\ GatesOfA(market, book, inv, time)
  /\ ~(AskOfA(market, book, inv) - BidOfA(market, book, inv) < market.tick)

LEMMA GatesAreOnTheBook ==
  ASSUME NEW market, NEW book, NEW inv, NEW time, GatesOfA(market, book, inv, time)
  PROVE  /\ book.bid + book.ask \in TwiceMids
         /\ book.ask - book.bid >= MinProfitableSpread(market.fee)
BY DEF GatesOfA, PassesStrategyAGate, TwiceMid

\* The two prices, from a book, an improvement and an offset.
LEMMA AroundTheMidpoint ==
  ASSUME NEW low \in Int, NEW high \in Int, NEW step \in Int, NEW offset \in Int,
         low <= high, low + high \in TwiceMids,
         low + step - offset < high - step + offset
  PROVE  /\ ToProbability(low + step - offset) \in Int
         /\ ToProbability(high - step + offset) \in Int
         /\ ToProbability(low + step - offset) < ToProbability(high - step + offset)
         /\ ToProbability(low + step - offset) < high
         /\ ToProbability(high - step + offset) > low
<1> DEFINE b == low + step - offset
           a == high - step + offset
<1>1. /\ b \in Int /\ a \in Int /\ b < a /\ b + a = low + high
      /\ b + a \in TwiceMids
  OBVIOUS
<1> HIDE DEF b, a
<1> DEFINE bid == ToProbability(b)
           ask == ToProbability(a)
<1>2. bid \in Int /\ ask \in Int /\ bid < ask /\ 2 * bid < b + a /\ 2 * ask > b + a
  <2>1. \A x, y \in Int : x < y /\ x + y \in TwiceMids =>
          /\ ToProbability(x) \in Int /\ ToProbability(y) \in Int
          /\ ToProbability(x) < ToProbability(y)
          /\ 2 * ToProbability(x) < x + y
          /\ 2 * ToProbability(y) > x + y
    BY Clamped
  <2>2. QED
    BY <1>1, <2>1
<1> HIDE DEF bid, ask
<1>3. bid < high /\ ask > low
  BY <1>1, <1>2
<1>4. QED
  BY <1>2, <1>3 DEF b, a, bid, ask

LEMMA PricesOfA ==
  ASSUME NEW market, NEW book, NEW inv \in Inventory, NEW time,
         TypedCase(market, book, time), AsksOfA(market, book, inv, time)
  PROVE  /\ ToProbability(BidOfA(market, book, inv)) \in Int
         /\ ToProbability(AskOfA(market, book, inv)) \in Int
         /\ ToProbability(BidOfA(market, book, inv))
              < ToProbability(AskOfA(market, book, inv))
         /\ ToProbability(BidOfA(market, book, inv)) < book.ask
         /\ ToProbability(AskOfA(market, book, inv)) > book.bid
<1>1. /\ market.tick \in Nat \ {0} /\ book.bid \in Int /\ book.ask \in Int
      /\ market.fee \in Int
  BY DEF TypedCase
<1>2. /\ ~(AskOfA(market, book, inv) - BidOfA(market, book, inv) < market.tick)
      /\ GatesOfA(market, book, inv, time)
  BY DEF AsksOfA
<1>3. /\ book.bid + book.ask \in TwiceMids
      /\ book.ask - book.bid >= MinProfitableSpread(market.fee)
  BY <1>2, GatesAreOnTheBook
<1>4. SkewOffset(inv, market.tick) \in Int /\ Improvement(market, book) \in Int
  BY <1>1, OffsetIsInt DEF Improvement
<1> DEFINE tick == market.tick
           offset == SkewOffset(inv, tick)
           step == Improvement(market, book)
           low == book.bid
           high == book.ask
<1>5. low \in Int /\ high \in Int /\ step \in Int /\ offset \in Int /\ tick \in Nat \ {0}
  BY <1>1, <1>4
<1>6. /\ BidOfA(market, book, inv) = low + step - offset
      /\ AskOfA(market, book, inv) = high - step + offset
  BY DEF BidOfA, AskOfA
<1>7. low + high \in TwiceMids /\ high - low >= MinProfitableSpread(market.fee)
  BY <1>3
<1>8. ~((high - step + offset) - (low + step - offset) < tick)
  BY <1>2, <1>6
<1> HIDE DEF tick, offset, step, low, high
<1>9. high - low >= 0
  <2>1. MinProfitableSpread(market.fee) \in Nat
    BY <1>1, MinimumIsNotNegative
  <2>2. QED
    BY <1>5, <1>7, <2>1
<1>10. /\ low <= high /\ low + high \in TwiceMids
       /\ low + step - offset < high - step + offset
  BY <1>5, <1>7, <1>8, <1>9
<1>11. /\ ToProbability(low + step - offset) \in Int
       /\ ToProbability(high - step + offset) \in Int
       /\ ToProbability(low + step - offset) < ToProbability(high - step + offset)
       /\ ToProbability(low + step - offset) < high
       /\ ToProbability(high - step + offset) > low
  BY <1>5, <1>10, AroundTheMidpoint
<1>12. QED
  BY <1>6, <1>11 DEF low, high

LEMMA PriceOfCIsBelow ==
  ASSUME NEW book, book.bid \in Int, book.ask \in Int, Certain(book)
  PROVE  PriceOfC(book) \in Int /\ PriceOfC(book) < book.ask
<1> DEFINE low == book.bid
           high == book.ask
           n == Clamp(2 * (high - 200), 2 * (high - 100), 2 * high - (high - low))
<1>1. PriceOfC(book) = RoundHalfEven(n, 2)
  BY DEF PriceOfC
<1>2. low \in Int /\ high \in Int
  OBVIOUS
<1> HIDE DEF low, high
<1>3. n \in Int /\ n <= 2 * (high - 100)
  BY <1>2 DEF Clamp, Larger, Smaller
<1> HIDE DEF n
<1>4. high - 100 \in Int
  BY <1>2
<1>5. RoundHalfEven(n, 2) \in Int /\ RoundHalfEven(n, 2) <= high - 100
  BY <1>3, <1>4, HalfRounded
<1>6. QED
  BY <1>1, <1>2, <1>5 DEF high

Shaped(x) == x = Signal(x.strategy, x.side, x.price, x.size, x.postOnly, x.expiry)

\* The reward band moves prices and sizes, and nothing else.
LEMMA Adjusted ==
  ASSUME NEW market, NEW x,
         Shaped(x)
  PROVE  /\ ApplyRewardConstraints(x, market).side = x.side
         /\ ApplyRewardConstraints(x, market).strategy = x.strategy
         /\ ApplyRewardConstraints(x, market).postOnly = x.postOnly
         /\ ApplyRewardConstraints(x, market).expiry = x.expiry
         /\ ~Rewarded(market) => ApplyRewardConstraints(x, market).price = x.price
         /\ Rewarded(market) => ApplyRewardConstraints(x, market).price =
                                  Clamp(RewardLow(market), RewardHigh(market), x.price)
<1> DEFINE size == IF market.minSize = None THEN x.size ELSE Larger(x.size, market.minSize)
           price == Clamp(RewardLow(market), RewardHigh(market), x.price)
<1>1. CASE ~Rewarded(market)
  <2>1. ApplyRewardConstraints(x, market) = x
    BY <1>1 DEF ApplyRewardConstraints
  <2>2. QED
    BY <1>1, <2>1
<1>2. CASE Rewarded(market)
  <2>1. ApplyRewardConstraints(x, market) = [x EXCEPT !.price = price, !.size = size]
    BY <1>2 DEF ApplyRewardConstraints
  <2> HIDE DEF price, size
  <2>2. ApplyRewardConstraints(x, market) =
          Signal(x.strategy, x.side, price, size, x.postOnly, x.expiry)
    BY <2>1 DEF Shaped, Signal
  <2>3. QED
    BY <1>2, <2>2 DEF Signal, price
<1>3. QED
  BY <1>1, <1>2

SellA(market, book, inv, time) == QuoteOfA("SELL", AskOfA(market, book, inv), time)
BuyA(market, book, inv, time) == QuoteOfA("BUY", BidOfA(market, book, inv), time)
BuyB(book) ==
  Signal("B", "BUY", book.ask, Larger(1, Settings.pennyBudget \div book.ask), FALSE, NoExpiry)
BuyC(book, time) ==
  Signal("C", "BUY", PriceOfC(book), SizeOfC(book), TRUE, time.resolution - SnipeBuffer + 1)

\* The ways a quote comes about.
Signals(market, book, inv, time) ==
  {x \in {BuyA(market, book, inv, time), SellA(market, book, inv, time), BuyB(book),
          BuyC(book, time)} :
     \/ x = BuyA(market, book, inv, time) /\ AsksOfA(market, book, inv, time)
     \/ /\ x = SellA(market, book, inv, time) /\ AsksOfA(market, book, inv, time)
        /\ MaySell(market, inv)
     \/ x = BuyB(book)
     \/ /\ x = BuyC(book, time) /\ GatesOfC(market, book, inv, time)
        /\ Certain(book) \/ CertainNot(book)}

LEMMA OneThenAnother ==
  ASSUME NEW b, NEW s
  PROVE  <<b>> \o <<>> = <<b>> /\ <<b>> \o <<s>> = <<b, s>>
<1> DEFINE c == <<b>> \o <<s>>
<1>1. /\ <<b>> \in Seq({b, s}) /\ <<s>> \in Seq({b, s}) /\ Len(<<b>>) = 1 /\ Len(<<s>>) = 1
      /\ <<b, s>> \in Seq({b, s}) /\ Len(<<b, s>>) = 2
  OBVIOUS
<1>2. <<b>> \o <<>> = <<b>>
  BY <1>1, ConcatEmptySeq
<1>3. c \in Seq({b, s}) /\ Len(c) = 2 /\ c[1] = b /\ c[2] = s
  BY <1>1, ConcatProperties
<1> HIDE DEF c
<1>4. c = <<b, s>>
  BY <1>1, <1>3, SeqEqual
<1>5. QED
  BY <1>2, <1>4 DEF c

LEMMA WhatAStates ==
  ASSUME NEW market, NEW book, NEW inv, NEW time
  PROVE  \/ StrategyA(market, book, inv, time) = <<>>
         \/ /\ AsksOfA(market, book, inv, time)
            /\ StrategyA(market, book, inv, time) = <<BuyA(market, book, inv, time)>>
         \/ /\ AsksOfA(market, book, inv, time) /\ MaySell(market, inv)
            /\ StrategyA(market, book, inv, time) =
                 <<BuyA(market, book, inv, time), SellA(market, book, inv, time)>>
<1> DEFINE asks == AsksOfA(market, book, inv, time)
           stops == \/ ~GatesOfA(market, book, inv, time)
                    \/ AskOfA(market, book, inv) - BidOfA(market, book, inv) < market.tick
           may == MaySell(market, inv)
           b == BuyA(market, book, inv, time)
           s == SellA(market, book, inv, time)
           a == StrategyA(market, book, inv, time)
<1>1. a = IF stops THEN <<>> ELSE <<b>> \o (IF may THEN <<s>> ELSE <<>>)
  BY DEF StrategyA, BuyA, SellA
<1>2. stops \/ asks
  BY DEF AsksOfA
<1> HIDE DEF a, stops, asks, may, b, s
<1>3. /\ stops => a = <<>>
      /\ ~stops /\ may => a = <<b>> \o <<s>>
      /\ ~stops /\ ~may => a = <<b>> \o <<>>
  BY <1>1
<1>4. <<b>> \o <<s>> = <<b, s>> /\ <<b>> \o <<>> = <<b>>
  BY OneThenAnother
<1>5. \/ a = <<>>
      \/ asks /\ a = <<b>>
      \/ asks /\ may /\ a = <<b, s>>
  BY <1>2, <1>3, <1>4
<1>6. QED
  BY <1>5 DEF a, asks, may, b, s

LEMMA StatedByA ==
  ASSUME NEW market, NEW book, NEW inv, NEW time
  PROVE  StrategyA(market, book, inv, time) \in Seq(Signals(market, book, inv, time))
<1> DEFINE S == Signals(market, book, inv, time)
           asks == AsksOfA(market, book, inv, time)
           may == MaySell(market, inv)
           b == BuyA(market, book, inv, time)
           s == SellA(market, book, inv, time)
           a == StrategyA(market, book, inv, time)
<1>1. (asks => b \in S) /\ (asks /\ may => s \in S)
  BY DEF Signals
<1>2. \/ a = <<>>
      \/ asks /\ a = <<b>>
      \/ asks /\ may /\ a = <<b, s>>
  BY WhatAStates
<1> HIDE DEF S, asks, may, b, s, a
<1>3. /\ <<>> \in Seq(S) /\ (asks => <<b>> \in Seq(S))
      /\ asks /\ may => <<b, s>> \in Seq(S)
  BY <1>1
<1>4. a \in Seq(S)
  BY <1>2, <1>3
<1>5. QED
  BY <1>4 DEF a, S

LEMMA StatedByB ==
  ASSUME NEW market, NEW book, NEW inv, NEW time
  PROVE  StrategyB(market, book, time) \in Seq(Signals(market, book, inv, time))
<1> DEFINE S == Signals(market, book, inv, time)
           x == BuyB(book)
<1>1. StrategyB(market, book, time) \in {<<>>, <<x>>}
  BY DEF StrategyB, BuyB
<1>2. x \in S
  BY DEF Signals
<1> HIDE DEF S, x
<1>3. <<x>> \in Seq(S) /\ <<>> \in Seq(S)
  BY <1>2
<1>4. QED
  BY <1>1, <1>3 DEF S

LEMMA StatedByC ==
  ASSUME NEW market, NEW book, NEW inv, NEW time
  PROVE  StrategyC(market, book, inv, time) \in Seq(Signals(market, book, inv, time))
<1> DEFINE S == Signals(market, book, inv, time)
           x == BuyC(book, time)
           bids == GatesOfC(market, book, inv, time) /\ (Certain(book) \/ CertainNot(book))
<1>1. /\ bids => StrategyC(market, book, inv, time) = <<x>>
      /\ ~bids => StrategyC(market, book, inv, time) = <<>>
  BY DEF StrategyC, BuyC
<1>2. bids => x \in S
  BY DEF Signals
<1> HIDE DEF S, x, bids
<1>3. (bids => <<x>> \in Seq(S)) /\ <<>> \in Seq(S)
  BY <1>2
<1>4. StrategyC(market, book, inv, time) \in Seq(S)
  BY <1>1, <1>3
<1>5. QED
  BY <1>4 DEF S

LEMMA ThreeInARow ==
  ASSUME NEW S, NEW a \in Seq(S), NEW b \in Seq(S), NEW c \in Seq(S)
  PROVE  \A i \in DOMAIN (a \o b \o c) : (a \o b \o c)[i] \in S
<1>1. a \o b \in Seq(S)
  BY ConcatProperties
<1>2. (a \o b) \o c \in Seq(S)
  BY <1>1, ConcatProperties
<1>3. QED
  BY <1>2, ElementOfSeq, LenProperties

\* Each quote is one of them, adjusted.
LEMMA WhatIsStated ==
  ASSUME NEW market, NEW book, NEW inv, NEW time,
         NEW i \in DOMAIN Desired(market, book, inv, time)
  PROVE  \E x \in Signals(market, book, inv, time) :
           Desired(market, book, inv, time)[i] = ApplyRewardConstraints(x, market)
<1> DEFINE S == Signals(market, book, inv, time)
           a == IF "A" \in Settings.enabled THEN StrategyA(market, book, inv, time) ELSE <<>>
           b == IF "B" \in Settings.enabled THEN StrategyB(market, book, time) ELSE <<>>
           c == IF "C" \in Settings.enabled THEN StrategyC(market, book, inv, time) ELSE <<>>
           signals == a \o b \o c
<1>1. a \in Seq(S) /\ b \in Seq(S) /\ c \in Seq(S)
  BY StatedByA, StatedByB, StatedByC
<1>2. Desired(market, book, inv, time) =
        [j \in DOMAIN signals |-> ApplyRewardConstraints(signals[j], market)]
  BY Zenon DEF Desired
<1> HIDE DEF S, a, b, c
<1>3. \A j \in DOMAIN signals : signals[j] \in S
  BY <1>1, ThreeInARow
<1> HIDE DEF signals
<1>4. i \in DOMAIN signals /\ signals[i] \in S
  BY <1>2, <1>3
<1>5. Desired(market, book, inv, time)[i] = ApplyRewardConstraints(signals[i], market)
  BY <1>2, <1>4
<1>6. QED
  BY <1>4, <1>5 DEF S

BoughtByA(x, market, book, inv, time) ==
  /\ x.strategy = "A" /\ x.side = "BUY" /\ x.expiry = ExpiryOfA(time)
  /\ x.price = ToProbability(BidOfA(market, book, inv))
  /\ AsksOfA(market, book, inv, time)

SoldByA(x, market, book, inv, time) ==
  /\ x.strategy = "A" /\ x.side = "SELL" /\ x.expiry = ExpiryOfA(time)
  /\ x.price = ToProbability(AskOfA(market, book, inv))
  /\ AsksOfA(market, book, inv, time) /\ MaySell(market, inv)

BoughtByB(x, book) ==
  /\ x.strategy = "B" /\ x.side = "BUY" /\ x.price = book.ask
  /\ x.postOnly = FALSE /\ x.expiry = NoExpiry

BoughtByC(x, market, book, inv, time) ==
  /\ x.strategy = "C" /\ x.side = "BUY" /\ x.price = PriceOfC(book)
  /\ x.expiry = time.resolution - SnipeBuffer + 1
  /\ GatesOfC(market, book, inv, time) /\ (Certain(book) \/ CertainNot(book))

LEMMA SignalsAreSignals ==
  ASSUME NEW market, NEW book, NEW inv, NEW time, NEW x \in Signals(market, book, inv, time)
  PROVE  /\ Shaped(x)
         /\ \/ BoughtByA(x, market, book, inv, time) \/ SoldByA(x, market, book, inv, time)
            \/ BoughtByB(x, book) \/ BoughtByC(x, market, book, inv, time)
<1>1. Shaped(x)
  BY DEF Signals, BuyA, SellA, BuyB, BuyC, QuoteOfA, Signal, Shaped
<1>2. CASE x = BuyA(market, book, inv, time) /\ AsksOfA(market, book, inv, time)
  <2>1. BoughtByA(x, market, book, inv, time)
    BY <1>2 DEF BuyA, QuoteOfA, Signal, BoughtByA
  <2>2. QED
    BY <1>1, <2>1
<1>3. CASE /\ x = SellA(market, book, inv, time) /\ AsksOfA(market, book, inv, time)
           /\ MaySell(market, inv)
  <2>1. SoldByA(x, market, book, inv, time)
    BY <1>3 DEF SellA, QuoteOfA, Signal, SoldByA
  <2>2. QED
    BY <1>1, <2>1
<1>4. CASE x = BuyB(book)
  <2>1. BoughtByB(x, book)
    BY <1>4 DEF BuyB, Signal, BoughtByB
  <2>2. QED
    BY <1>1, <2>1
<1>5. CASE /\ x = BuyC(book, time) /\ GatesOfC(market, book, inv, time)
           /\ Certain(book) \/ CertainNot(book)
  <2>1. BoughtByC(x, market, book, inv, time)
    BY <1>5 DEF BuyC, Signal, BoughtByC
  <2>2. QED
    BY <1>1, <2>1
<1>6. QED
  BY <1>2, <1>3, <1>4, <1>5 DEF Signals

LEMMA BandIsTyped ==
  ASSUME NEW market, market.adjMid \in Int, market.maxSpread \in Int
  PROVE  RewardLow(market) \in Int /\ RewardHigh(market) \in Int
<1>1. market.maxSpread \div 2 \in Int
  BY DivisionIsInt
<1>2. QED
  BY <1>1 DEF RewardLow, RewardHigh

LEMMA PriceOfCIsInt ==
  ASSUME NEW book, book.bid \in Int, book.ask \in Int
  PROVE  PriceOfC(book) \in Int
<1> DEFINE low == book.bid
           high == book.ask
           top == IF Certain(book) THEN high ELSE 10000 - low
           n == Clamp(2 * (top - 200), 2 * (top - 100), 2 * top - (high - low))
<1>1. PriceOfC(book) = RoundHalfEven(n, 2)
  BY DEF PriceOfC
<1>2. low \in Int /\ high \in Int
  OBVIOUS
<1> HIDE DEF low, high
<1>3. top \in Int
  BY <1>2
<1> HIDE DEF top
<1>4. n \in Int
  BY <1>2, <1>3 DEF Clamp, Larger, Smaller
<1> HIDE DEF n
<1>5. QED
  BY <1>1, <1>4, RoundedIsInt

\* Prices are integers.
LEMMA DesiredIsPriced ==
  ASSUME NEW market, NEW book, NEW inv \in Inventory, NEW time,
         TypedCase(market, book, time), NEW i \in DOMAIN Desired(market, book, inv, time)
  PROVE  Desired(market, book, inv, time)[i].price \in Int
<1> DEFINE y == Desired(market, book, inv, time)[i]
           low == RewardLow(market)
           high == RewardHigh(market)
<1>1. PICK x \in Signals(market, book, inv, time) : y = ApplyRewardConstraints(x, market)
  BY WhatIsStated
<1>2. /\ Shaped(x)
      /\ \/ BoughtByA(x, market, book, inv, time) \/ SoldByA(x, market, book, inv, time)
         \/ BoughtByB(x, book) \/ BoughtByC(x, market, book, inv, time)
  BY SignalsAreSignals
<1>3. /\ ~Rewarded(market) => y.price = x.price
      /\ Rewarded(market) => y.price = Clamp(low, high, x.price)
  BY <1>1, <1>2, Adjusted
<1>4. book.bid \in Int /\ book.ask \in Int /\ low \in Int /\ high \in Int
  BY BandIsTyped DEF TypedCase
<1>5. x.price \in Int
  <2>1. CASE BoughtByA(x, market, book, inv, time)
    BY <2>1, PricesOfA DEF BoughtByA
  <2>2. CASE SoldByA(x, market, book, inv, time)
    BY <2>2, PricesOfA DEF SoldByA
  <2>3. CASE BoughtByB(x, book)
    BY <2>3, <1>4 DEF BoughtByB
  <2>4. CASE BoughtByC(x, market, book, inv, time)
    BY <2>4, <1>4, PriceOfCIsInt DEF BoughtByC
  <2>5. QED
    BY <1>2, <2>1, <2>2, <2>3, <2>4
<1> HIDE DEF y, low, high
<1>6. y.price \in Int
  BY <1>3, <1>4, <1>5 DEF Clamp, Larger, Smaller
<1>7. QED
  BY <1>6 DEF y

\* What Desired() states is bought, but for what Strategy A may sell.
LEMMA WhoSells ==
  ASSUME NEW market, NEW book, NEW inv, NEW time,
         NEW i \in DOMAIN Desired(market, book, inv, time)
  PROVE  \/ Desired(market, book, inv, time)[i].side = "BUY"
         \/ MaySell(market, inv) /\ GatesOfA(market, book, inv, time)
<1>1. PICK x \in Signals(market, book, inv, time) :
        Desired(market, book, inv, time)[i] = ApplyRewardConstraints(x, market)
  BY WhatIsStated
<1>2. /\ Shaped(x)
      /\ \/ BoughtByA(x, market, book, inv, time) \/ SoldByA(x, market, book, inv, time)
         \/ BoughtByB(x, book) \/ BoughtByC(x, market, book, inv, time)
  BY SignalsAreSignals
<1>3. Desired(market, book, inv, time)[i].side = x.side
  BY <1>1, <1>2, Adjusted
<1>4. x.side = "BUY" \/ SoldByA(x, market, book, inv, time)
  BY <1>2 DEF BoughtByA, BoughtByB, BoughtByC
<1>5. QED
  BY <1>3, <1>4 DEF SoldByA, AsksOfA

-----------------------------------------------------------------------------
LEMMA Starts == Init => TInv
<1> SUFFICES ASSUME Init PROVE TInv
  OBVIOUS
<1>1. DOMAIN Empty = {}
  BY DEF Empty
<1>2. MarketsTyped /\ InventoriesTyped /\ PositionsTyped
  BY <1>1 DEF Init, MarketsTyped, InventoriesTyped, PositionsTyped, Account
<1>3. FillsTyped
  <2>1. fillQueue \in Seq({}) /\ \A f \in {} : Sized(f)
    BY DEF Init
  <2>2. QED
    BY <2>1 DEF FillsTyped
<1>4. Bracket
  BY <1>1 DEF Init, Bracket, Held
<1>5. \A o \in placed : Resting(o)
  BY DEF Init
<1>6. Accounted
  BY <1>1 DEF Init, Accounted
<1>7. Exact
  BY <1>1 DEF Init, Exact, Held
<1>8. QED
  BY <1>2, <1>3, <1>4, <1>5, <1>6, <1>7 DEF TInv

LEMMA NewIsTyped ==
  NewInventory \in Inventory /\ NewInventory.no = 0 /\ NewInventory.yes = 0
BY DEF NewInventory, Inventory

\* The tokens that lose an inventory with something in it are missed.
LEMMA ScannerKeeps ==
  ASSUME TInv, NEW selected \in SUBSET Tokens, ScannerUpdate(selected)
  PROVE  TInv'
<1> USE DEF TInv
<1>1. MarketsTyped'
  <2>1. PICK found \in [selected -> UNION {Markets[t] : t \in selected}] :
          /\ \A t \in selected : found[t] \in Markets[t]
          /\ markets' = found
    BY DEF ScannerUpdate
  <2>2. QED
    BY <2>1 DEF MarketsTyped
<1>2. /\ DOMAIN inventories' = DOMAIN inventories \cap selected
      /\ \A t \in DOMAIN inventories' : inventories'[t] = inventories[t]
  BY DEF ScannerUpdate, Restrict
<1>3. InventoriesTyped'
  BY <1>2 DEF InventoriesTyped, Ordinary
<1>4. PositionsTyped' /\ FillsTyped' /\ \A o \in placed' : Resting(o)
  BY DEF ScannerUpdate, PositionsTyped, FillsTyped, Sized, Resting
<1>5. Bracket'
  <2> SUFFICES ASSUME NEW t \in Tokens \ missed'
               PROVE  IF t \in DOMAIN inventories'
                      THEN /\ Held(t)' <= inventories'[t].yes
                           /\ Held(t)' >= inventories'[t].yes - inventories'[t].no
                      ELSE Held(t)' = 0
    BY DEF Bracket
  <2>1. Held(t)' = Held(t) /\ t \notin missed
    BY DEF ScannerUpdate, Held
  <2>2. CASE t \in DOMAIN inventories'
    BY <2>1, <2>2, <1>2 DEF Bracket
  <2>3. CASE t \notin DOMAIN inventories
    BY <2>1, <2>3, <1>2 DEF Bracket
  <2>4. CASE t \in DOMAIN inventories /\ t \notin DOMAIN inventories'
    <3>1. inventories[t] = NewInventory
      BY <2>4, <1>2 DEF ScannerUpdate
    <3>2. Held(t) <= 0 /\ Held(t) \in Nat
      BY <2>1, <2>4, <3>1, NewIsTyped DEF Bracket, Held, PositionsTyped, Position
    <3>3. QED
      BY <2>1, <2>4, <3>2
  <2>5. QED
    BY <2>2, <2>3, <2>4
<1>6. Accounted' /\ Exact'
  BY DEF ScannerUpdate, Accounted, Exact, Held
<1>7. QED
  BY <1>1, <1>3, <1>4, <1>5, <1>6

LEMMA InventoryOfIsTyped ==
  ASSUME TInv, NEW t \in Tokens
  PROVE  /\ InventoryOf(t) \in Inventory
         /\ Ordinary(t) => InventoryOf(t).no = 0
BY NewIsTyped DEF TInv, InventoriesTyped, InventoryOf

LEMMA GatesKeepSkewAway ==
  ASSUME NEW market, NEW book, NEW inv, NEW time, GatesOfA(market, book, inv, time)
  PROVE  ~SkewReaches(inv, Settings.haltThreshold)
BY DEF GatesOfA, SkewReaches

\* Nothing is sold of an ordinary token: what Strategy A needs to hold for a SELL
\* stops it.
LEMMA OrdinaryBuys ==
  ASSUME TInv, NEW t \in DOMAIN markets, Ordinary(t), NEW e,
         NEW i \in DOMAIN Desired(markets[t], e.book, InventoryOf(t), e.time)
  PROVE  Desired(markets[t], e.book, InventoryOf(t), e.time)[i].side = "BUY"
<1> DEFINE inv == InventoryOf(t)
<1>1. t \in Tokens /\ ~markets[t].negRisk
  BY DEF TInv, MarketsTyped, Ordinary
<1>2. inv \in Inventory /\ inv.no = 0
  BY <1>1, InventoryOfIsTyped
<1>3. inv.yes \in Nat
  BY <1>2 DEF Inventory
<1> HIDE DEF inv
<1>4. ~(MaySell(markets[t], inv) /\ GatesOfA(markets[t], e.book, inv, e.time))
  <2> SUFFICES ASSUME MaySell(markets[t], inv), GatesOfA(markets[t], e.book, inv, e.time)
               PROVE  FALSE
    OBVIOUS
  <2>1. inv.yes >= Settings.orderSize
    BY <1>1 DEF MaySell
  <2>2. inv.yes > 0
    BY <1>3, <2>1, SettingsAssumption
  <2>3. SkewReaches(inv, Settings.haltThreshold)
    BY <1>2, <2>2, FullySkewed
  <2>4. QED
    BY <2>3, GatesKeepSkewAway
<1>5. QED
  BY <1>4, WhoSells DEF inv

\* The books and times a registered token meets are typed, and so is its inventory.
LEMMA HappeningsAreTyped ==
  ASSUME TInv, NEW t \in DOMAIN markets, NEW e \in Situations[t] \cup Events[t]
  PROVE  TypedCase(markets[t], e.book, e.time) /\ InventoryOf(t) \in Inventory
<1>1. t \in Tokens /\ markets[t] \in Markets[t]
  BY DEF TInv, MarketsTyped
<1>2. TypedCase(markets[t], e.book, e.time)
  BY <1>1, MarketsAreTyped, SituationsAreTyped DEF TypedCase
<1>3. QED
  BY <1>1, <1>2, InventoryOfIsTyped

LEMMA BookKeeps ==
  ASSUME TInv, NEW token \in Tokens, NEW event \in Events[token], HandleBook(token, event)
  PROVE  TInv'
<1> USE DEF TInv
<1>1. token \in DOMAIN markets
  BY DEF HandleBook
<1>2. MarketsTyped' /\ PositionsTyped' /\ FillsTyped'
  BY DEF HandleBook, MarketsTyped, PositionsTyped, FillsTyped
<1>3. inventories' = [t \in DOMAIN inventories \cup {token} |-> InventoryOf(t)]
  BY DEF HandleBook
<1>4. InventoriesTyped'
  BY <1>3, InventoryOfIsTyped DEF InventoriesTyped
<1>5. Bracket'
  <2> SUFFICES ASSUME NEW t \in Tokens \ missed'
               PROVE  IF t \in DOMAIN inventories'
                      THEN /\ Held(t)' <= inventories'[t].yes
                           /\ Held(t)' >= inventories'[t].yes - inventories'[t].no
                      ELSE Held(t)' = 0
    BY DEF Bracket
  <2>1. Held(t)' = Held(t) /\ t \notin missed
    BY DEF HandleBook, Held
  <2>2. CASE t \in DOMAIN inventories
    BY <2>1, <2>2, <1>3 DEF Bracket, InventoryOf
  <2>3. CASE t \notin DOMAIN inventories
    <3>1. Held(t) = 0
      BY <2>1, <2>3 DEF Bracket
    <3>2. t \in DOMAIN inventories' => inventories'[t] = NewInventory
      BY <1>3, <2>3 DEF InventoryOf
    <3>3. QED
      BY <2>1, <3>1, <3>2, NewIsTyped
  <2>4. QED
    BY <2>2, <2>3
<1>6. \A o \in placed' : Resting(o)
  <2> DEFINE quotes == Desired(markets[token], event.book, InventoryOf(token), event.time)
             order(i) == [id |-> <<counts.events, i>>, token |-> token,
                          negRisk |-> markets[token].negRisk, strategy |-> quotes[i].strategy,
                          side |-> quotes[i].side, price |-> quotes[i].price,
                          size |-> quotes[i].size, left |-> quotes[i].size]
  <2>1. PICK accepted \in SUBSET DOMAIN quotes :
          placed' = placed \cup {order(i) : i \in accepted}
    BY DEF HandleBook
  <2>2. ~markets[token].negRisk => Ordinary(token)
    BY <1>1, MarketsAssumption DEF MarketsTyped, Ordinary
  <2>3. Ordinary(token) => \A i \in DOMAIN quotes : quotes[i].side = "BUY"
    BY <1>1, OrdinaryBuys
  <2> HIDE DEF quotes
  <2>4. \A i \in DOMAIN Desired(markets[token], event.book, InventoryOf(token), event.time) :
          Desired(markets[token], event.book, InventoryOf(token), event.time)[i].price \in Int
    BY <1>1, HappeningsAreTyped, DesiredIsPriced
  <2>5. \A i \in accepted : Resting(order(i))
    BY <2>2, <2>3, <2>4 DEF Resting, quotes
  <2> HIDE DEF order
  <2>6. QED
    BY <2>1, <2>5
<1>7. Accounted' /\ Exact'
  BY DEF HandleBook, Accounted, Exact, Held
<1>8. QED
  BY <1>2, <1>4, <1>5, <1>6, <1>7

LEMMA FillKeeps ==
  ASSUME TInv, NEW order \in placed, NEW size \in 1..order.left, Fill(order, size)
  PROVE  TInv'
<1> USE DEF TInv
<1>1. MarketsTyped' /\ InventoriesTyped' /\ PositionsTyped'
  BY DEF Fill, MarketsTyped, InventoriesTyped, PositionsTyped
<1>2. Bracket' /\ Accounted' /\ Exact'
  BY DEF Fill, Bracket, Held, Accounted, Exact
<1>3. \A o \in placed' : Resting(o)
  <2>1. Resting(order)
    OBVIOUS
  <2>2. Resting([order EXCEPT !.left = @ - size])
    BY <2>1 DEF Resting
  <2>3. QED
    BY <2>2 DEF Fill
<1>4. FillsTyped'
  <2> DEFINE fill == [id |-> order.id, token |-> order.token, side |-> order.side,
                      price |-> order.price, size |-> size]
  <2>1. PICK S : fillQueue \in Seq(S) /\ \A f \in S : Sized(f)
    BY DEF FillsTyped
  <2>2. Sized(fill)
    BY DEF Sized, Resting
  <2>3. fillQueue' = Append(fillQueue, fill)
    BY DEF Fill
  <2> HIDE DEF fill
  <2>4. fillQueue' \in Seq(S \cup {fill})
    BY <2>1, <2>3
  <2>5. QED
    BY <2>1, <2>2, <2>4 DEF FillsTyped
<1>5. QED
  BY <1>1, <1>2, <1>3, <1>4

LEMMA NewIsBalanced ==
  ASSUME NEW price \in Int
  PROVE  /\ NewPosition(price) \in Position /\ NewPosition(price).shares = 0
         /\ [bought |-> 0, sold |-> 0, paid |-> 0, earned |-> 0] \in Account
         /\ Balanced(NewPosition(price), [bought |-> 0, sold |-> 0, paid |-> 0, earned |-> 0])
<1> DEFINE pos == NewPosition(price)
           acc == [bought |-> 0, sold |-> 0, paid |-> 0, earned |-> 0]
<1>1. /\ pos.shares = 0 /\ pos.avg[1] = price /\ pos.avg[2] = 1
      /\ pos.realized[1] = 0 /\ pos.realized[2] = 1
      /\ acc.bought - acc.sold = 0 /\ acc.earned - acc.paid = 0
  BY DEF NewPosition, Whole
<1>2. pos \in Position /\ acc \in Account
  BY DEF NewPosition, Whole, Position, Fractions, Account
<1> HIDE DEF pos, acc
<1>3. InNumbers(0, 0, price, 1, 0, 1, 0)
  BY DEF InNumbers
<1>4. Balanced(pos, acc)
  BY <1>1, <1>2, <1>3, BalancedInNumbers
<1>5. QED
  BY <1>1, <1>2, <1>4 DEF pos, acc

\* A fill's position and account, before and after.
LEMMA FillBalances ==
  ASSUME NEW pos \in Position, NEW acc \in Account, Balanced(pos, acc), NEW fill, Sized(fill)
  PROVE  /\ UpdatePosition(pos, fill.side, fill.price, fill.size) \in Position
         /\ Entered(acc, fill) \in Account
         /\ Balanced(UpdatePosition(pos, fill.side, fill.price, fill.size), Entered(acc, fill))
         /\ UpdatePosition(pos, fill.side, fill.price, fill.size).shares =
              IF fill.side = "BUY" THEN pos.shares + fill.size
              ELSE IF pos.shares >= fill.size THEN pos.shares - fill.size ELSE 0
<1>1. fill.size \in Nat \ {0} /\ fill.price \in Int
  BY DEF Sized
<1>2. CASE fill.side = "BUY"
  BY <1>1, <1>2, BuyingBalances
<1>3. CASE fill.side # "BUY"
  BY <1>1, <1>3, SellingBalances
<1>4. QED
  BY <1>2, <1>3

\* A purchase adds to both; a sale takes from the shares, down to none, and adds to
\* the NO shares.
LEMMA HandleFillKeeps ==
  ASSUME TInv, HandleFill
  PROVE  TInv'
<1> USE DEF TInv
<1> DEFINE fill == Head(fillQueue)
           tok == fill.token
           pos == IF tok \in DOMAIN positions THEN positions[tok] ELSE NewPosition(fill.price)
           acc == accounts[tok]
<1>1. Sized(fill) /\ FillsTyped'
  <2>1. PICK S : fillQueue \in Seq(S) /\ \A f \in S : Sized(f)
    BY DEF FillsTyped
  <2>2. fillQueue # <<>> /\ fillQueue' = Tail(fillQueue)
    BY DEF HandleFill
  <2>3. Head(fillQueue) \in S /\ fillQueue' \in Seq(S)
    BY <2>1, <2>2
  <2>4. QED
    BY <2>1, <2>3 DEF FillsTyped
<1>2. /\ positions' = With(positions, tok, UpdatePosition(pos, fill.side, fill.price, fill.size))
      /\ accounts' = [accounts EXCEPT ![tok] = Entered(accounts[tok], fill)]
      /\ UpdateInventory(fill) /\ markets' = markets /\ placed' = placed
      /\ oversold' = oversold \cup
           {t \in {tok} : fill.side # "BUY" /\ fill.size > accounts[t].bought - accounts[t].sold}
  BY DEF HandleFill, RecordFill
<1> HIDE DEF fill
<1>3. tok \in Tokens /\ fill.size \in Nat /\ fill.price \in Int
      /\ (Ordinary(tok) => fill.side = "BUY")
  BY <1>1 DEF Sized
<1>4. MarketsTyped' /\ \A o \in placed' : Resting(o)
  BY <1>2 DEF MarketsTyped
<1>5. /\ pos \in Position /\ acc \in Account /\ Balanced(pos, acc)
      /\ pos.shares \in Nat /\ pos.shares = Held(tok)
  <2>1. acc \in Account
    BY <1>3 DEF PositionsTyped
  <2>2. CASE tok \in DOMAIN positions
    BY <2>1, <2>2, <1>3 DEF PositionsTyped, Held, Accounted, Position
  <2>3. CASE tok \notin DOMAIN positions
    <3>1. acc = [bought |-> 0, sold |-> 0, paid |-> 0, earned |-> 0]
      BY <2>3, <1>3 DEF Accounted
    <3>2. pos = NewPosition(fill.price) /\ Held(tok) = 0
      BY <2>3 DEF Held
    <3>3. QED
      BY <3>1, <3>2, <1>3, NewIsBalanced
  <2>4. QED
    BY <2>2, <2>3
<1> HIDE DEF pos, acc
<1> DEFINE new == UpdatePosition(pos, fill.side, fill.price, fill.size)
           entered == Entered(acc, fill)
<1>6. /\ new \in Position /\ new.shares \in Nat
      /\ entered \in Account /\ Balanced(new, entered)
      /\ IF fill.side = "BUY" THEN new.shares = pos.shares + fill.size
         ELSE new.shares <= pos.shares /\ new.shares >= pos.shares - fill.size
  <2>1. /\ new \in Position /\ entered \in Account /\ Balanced(new, entered)
        /\ new.shares = IF fill.side = "BUY" THEN pos.shares + fill.size
                        ELSE IF pos.shares >= fill.size THEN pos.shares - fill.size ELSE 0
    BY <1>1, <1>5, FillBalances
  <2> HIDE DEF new, entered
  <2>2. QED
    BY <1>3, <1>5, <2>1
<1>6a. ASSUME tok \notin oversold'
       PROVE  new.shares = entered.bought - entered.sold
  <2>1. acc.bought \in Nat /\ acc.sold \in Nat
    BY <1>5 DEF Account
  <2>2. pos.shares = acc.bought - acc.sold
    BY <1>2, <1>3, <1>5, <1>6a DEF Exact, acc
  <2>3. new.shares = IF fill.side = "BUY" THEN pos.shares + fill.size
                     ELSE IF pos.shares >= fill.size THEN pos.shares - fill.size ELSE 0
    BY <1>1, <1>5, FillBalances DEF new
  <2>4. CASE fill.side = "BUY"
    <3>1. entered.bought = acc.bought + fill.size /\ entered.sold = acc.sold
      BY <1>5, <2>4 DEF entered, Entered, Account
    <3>2. QED
      BY <1>3, <2>1, <2>2, <2>3, <2>4, <3>1
  <2>5. CASE fill.side # "BUY"
    <3>1. entered.bought = acc.bought /\ entered.sold = acc.sold + fill.size
      BY <1>5, <2>5 DEF entered, Entered, Account
    <3>2. ~(fill.size > acc.bought - acc.sold)
      BY <1>2, <1>6a, <2>5 DEF acc
    <3>3. pos.shares >= fill.size
      BY <1>3, <2>1, <2>2, <3>2
    <3>4. QED
      BY <1>3, <2>1, <2>2, <2>3, <2>5, <3>1, <3>3
  <2>6. QED
    BY <2>4, <2>5
<1> HIDE DEF new, entered
<1>7. /\ DOMAIN positions' = DOMAIN positions \cup {tok}
      /\ positions'[tok] = new
      /\ \A t \in DOMAIN positions \ {tok} : positions'[t] = positions[t]
  BY <1>2 DEF With, new
<1>8. PositionsTyped' /\ Accounted' /\ Exact'
  <2>1. /\ accounts' \in [Tokens -> Account] /\ accounts'[tok] = entered
        /\ \A t \in Tokens \ {tok} : accounts'[t] = accounts[t]
    BY <1>2, <1>3, <1>6 DEF PositionsTyped, entered, acc
  <2> HIDE DEF tok
  <2>2. PositionsTyped'
    BY <1>3, <1>6, <1>7, <2>1 DEF PositionsTyped
  <2>3. Accounted'
    BY <1>6, <1>7, <2>1 DEF Accounted
  <2>4. Exact'
    <3> SUFFICES ASSUME NEW t \in Tokens \ oversold'
                 PROVE  Held(t)' = accounts'[t].bought - accounts'[t].sold
      BY DEF Exact
    <3>1. CASE t = tok
      BY <1>6a, <1>7, <2>1, <3>1 DEF Held
    <3>2. CASE t # tok
      <4>1. t \notin oversold /\ Held(t)' = Held(t) /\ accounts'[t] = accounts[t]
        BY <1>2, <1>7, <2>1, <3>2 DEF Held
      <4>2. QED
        BY <4>1 DEF Exact
    <3>3. QED
      BY <3>1, <3>2
  <2>5. QED
    BY <2>2, <2>3, <2>4
<1> HIDE DEF tok
<1>9. CASE tok \notin DOMAIN inventories
  <2>1. missed' = missed \cup {tok} /\ inventories' = inventories
    BY <1>2, <1>9 DEF UpdateInventory, tok
  <2>2. Bracket'
    BY <2>1, <1>7 DEF Bracket, Held
  <2>3. QED
    BY <1>1, <1>4, <1>8, <2>1, <2>2 DEF InventoriesTyped
<1>10. CASE tok \in DOMAIN inventories
  <2> DEFINE inv == inventories[tok]
             grown == ApplyFill(inv, fill.side, fill.size)
  <2>1. /\ missed' = missed /\ DOMAIN inventories' = DOMAIN inventories
        /\ inventories'[tok] = grown
        /\ \A t \in DOMAIN inventories \ {tok} : inventories'[t] = inventories[t]
    BY <1>2, <1>10 DEF UpdateInventory, tok
  <2>2. inv \in Inventory /\ (Ordinary(tok) => inv.no = 0)
    BY <1>10 DEF InventoriesTyped
  <2> HIDE DEF inv
  <2>3. /\ grown \in Inventory /\ (Ordinary(tok) => grown.no = 0)
        /\ IF fill.side = "BUY" THEN grown.yes = inv.yes + fill.size /\ grown.no = inv.no
           ELSE grown.yes = inv.yes /\ grown.no = inv.no + fill.size
    BY <1>3, <2>2 DEF ApplyFill, Inventory
  <2> HIDE DEF grown
  <2>4. InventoriesTyped'
    BY <2>1, <2>3 DEF InventoriesTyped
  <2>5. Bracket'
    <3> SUFFICES ASSUME NEW t \in Tokens \ missed'
                 PROVE  IF t \in DOMAIN inventories'
                        THEN /\ Held(t)' <= inventories'[t].yes
                             /\ Held(t)' >= inventories'[t].yes - inventories'[t].no
                        ELSE Held(t)' = 0
      BY DEF Bracket
    <3>1. CASE t # tok
      BY <3>1, <1>7, <2>1 DEF Bracket, Held
    <3>2. CASE t = tok
      <4>1. pos.shares <= inv.yes /\ pos.shares >= inv.yes - inv.no
        BY <3>2, <1>5, <1>10, <2>1 DEF Bracket, inv
      <4>2. inv.yes \in Nat /\ inv.no \in Nat
        BY <2>2 DEF Inventory
      <4>3. new.shares <= grown.yes /\ new.shares >= grown.yes - grown.no
        BY <4>1, <4>2, <1>3, <1>5, <1>6, <2>3
      <4>4. Held(t)' = new.shares
        BY <3>2, <1>7 DEF Held
      <4>5. QED
        BY <3>2, <4>3, <4>4, <1>10, <2>1
    <3>3. QED
      BY <3>1, <3>2
  <2>6. QED
    BY <1>1, <1>4, <1>8, <2>4, <2>5
<1>11. QED
  BY <1>9, <1>10

\* The types and the two relations of TInv hold in every state of Trading.
THEOREM TInvHolds == Spec => []TInv
<1>1. Init => TInv
  BY Starts
<1>2. TInv /\ [Next]_vars => TInv'
  <2> SUFFICES ASSUME TInv, [Next]_vars PROVE TInv'
    OBVIOUS
  <2>1. CASE \E selected \in SUBSET Tokens : ScannerUpdate(selected)
    BY <2>1, ScannerKeeps
  <2>2. CASE \E token \in Tokens : \E event \in Events[token] : HandleBook(token, event)
    BY <2>2, BookKeeps
  <2>3. CASE \E order \in placed : \E size \in 1..order.left : Fill(order, size)
    BY <2>3, FillKeeps
  <2>4. CASE HandleFill
    BY <2>4, HandleFillKeeps
  <2>5. CASE UNCHANGED vars
    BY <2>5 DEF vars, TInv, MarketsTyped, InventoriesTyped, PositionsTyped, FillsTyped,
                Bracket, Held, Accounted, Exact
  <2>6. QED
    BY <2>1, <2>2, <2>3, <2>4, <2>5 DEF Next
<1>3. QED
  BY <1>1, <1>2, PTL DEF Spec

\* core/orchestrator.py:479, as in Trading: of a token whose inventory saw every
\* fill, the position lies between yes_shares less no_shares, and yes_shares.
THEOREM InventoryBracketsPositionHolds == Spec => []InventoryBracketsPosition
<1>1. TInv => InventoryBracketsPosition
  BY DEF TInv, Bracket, InventoriesTyped, Held, InventoryBracketsPosition
<1>2. QED
  BY <1>1, TInvHolds, PTL

\* strategies/strategy_a.py:172-175, as in Trading: no SELL on a market that is not
\* neg_risk, whatever the books, the settings and the fills.
THEOREM OrdinaryMarketsAreNeverSoldHolds == Spec => []OrdinaryMarketsAreNeverSold
<1>1. TInv => OrdinaryMarketsAreNeverSold
  BY DEF TInv, Resting, OrdinaryMarketsAreNeverSold
<1>2. QED
  BY <1>1, TInvHolds, PTL

-----------------------------------------------------------------------------
\* A price before and after the reward band.
AdjustedPrice(y, p, market) ==
  /\ ~Rewarded(market) => y.price = p
  /\ Rewarded(market) => y.price = Clamp(RewardLow(market), RewardHigh(market), p)

LEMMA BidsRespectBook ==
  ASSUME NEW market, NEW book, NEW time, TypedCase(market, book, time),
         NEW y, y.side = "BUY", NEW p \in Int, p < book.ask, AdjustedPrice(y, p, market)
  PROVE  RespectsBook(y, market, book)
<1>1. RewardLow(market) \in Int /\ RewardHigh(market) \in Int /\ book.ask \in Int
  BY BandIsTyped DEF TypedCase
<1>2. SUFFICES ASSUME y.price >= book.ask
               PROVE  Rewarded(market) /\ RewardLow(market) >= book.ask
  BY DEF RespectsBook, Crosses
<1> DEFINE low == RewardLow(market)
           high == RewardHigh(market)
           ask == book.ask
<1>3. CASE ~Rewarded(market)
  BY <1>1, <1>2, <1>3 DEF AdjustedPrice
<1>4. CASE Rewarded(market)
  <2>1. Clamp(low, high, p) >= ask
    BY <1>2, <1>4 DEF AdjustedPrice
  <2>2. low \in Int /\ high \in Int /\ ask \in Int /\ p < ask
    BY <1>1
  <2> HIDE DEF low, high, ask
  <2>3. low >= ask
    BY <2>1, <2>2, Banded
  <2>4. QED
    BY <2>3, <1>4 DEF low, ask
<1>5. QED
  BY <1>3, <1>4

LEMMA OffersRespectBook ==
  ASSUME NEW market, NEW book, NEW time, TypedCase(market, book, time),
         NEW y, y.side = "SELL", NEW p \in Int, p > book.bid, AdjustedPrice(y, p, market)
  PROVE  RespectsBook(y, market, book)
<1>1. RewardLow(market) \in Int /\ RewardHigh(market) \in Int /\ book.bid \in Int
  BY BandIsTyped DEF TypedCase
<1>2. SUFFICES ASSUME y.price <= book.bid
               PROVE  Rewarded(market) /\ RewardHigh(market) <= book.bid
  BY DEF RespectsBook, Crosses
<1> DEFINE low == RewardLow(market)
           high == RewardHigh(market)
           bid == book.bid
<1>3. CASE ~Rewarded(market)
  BY <1>1, <1>2, <1>3 DEF AdjustedPrice
<1>4. CASE Rewarded(market)
  <2>1. Clamp(low, high, p) <= bid
    BY <1>2, <1>4 DEF AdjustedPrice
  <2>2. low \in Int /\ high \in Int /\ bid \in Int /\ p > bid
    BY <1>1
  <2> HIDE DEF low, high, bid
  <2>3. high <= bid
    BY <2>1, <2>2, Banded
  <2>4. QED
    BY <2>3, <1>4 DEF high, bid
<1>5. QED
  BY <1>3, <1>4

\* Whatever is desired respects the book it is desired for.
LEMMA DesiredRespectsBook ==
  ASSUME NEW market, NEW book, NEW inv \in Inventory, NEW time,
         TypedCase(market, book, time), NEW i \in DOMAIN Desired(market, book, inv, time)
  PROVE  RespectsBook(Desired(market, book, inv, time)[i], market, book)
<1> DEFINE y == Desired(market, book, inv, time)[i]
<1>1. PICK x \in Signals(market, book, inv, time) : y = ApplyRewardConstraints(x, market)
  BY WhatIsStated
<1>2. /\ Shaped(x)
      /\ \/ BoughtByA(x, market, book, inv, time) \/ SoldByA(x, market, book, inv, time)
         \/ BoughtByB(x, book) \/ BoughtByC(x, market, book, inv, time)
  BY SignalsAreSignals
<1>3. /\ y.side = x.side /\ y.strategy = x.strategy /\ y.postOnly = x.postOnly
      /\ AdjustedPrice(y, x.price, market)
  BY <1>1, <1>2, Adjusted DEF AdjustedPrice
<1> HIDE DEF y
<1>4. CASE BoughtByA(x, market, book, inv, time)
  <2>1. AsksOfA(market, book, inv, time)
    BY <1>4 DEF BoughtByA
  <2>2. x.price \in Int /\ x.price < book.ask /\ y.side = "BUY"
    BY <1>3, <1>4, <2>1, PricesOfA DEF BoughtByA
  <2>3. QED
    BY <1>3, <2>2, BidsRespectBook DEF y
<1>5. CASE SoldByA(x, market, book, inv, time)
  <2>1. AsksOfA(market, book, inv, time)
    BY <1>5 DEF SoldByA
  <2>2. x.price \in Int /\ x.price > book.bid /\ y.side = "SELL"
    BY <1>3, <1>5, <2>1, PricesOfA DEF SoldByA
  <2>3. QED
    BY <1>3, <2>2, OffersRespectBook DEF y
<1>6. CASE BoughtByB(x, book)
  BY <1>3, <1>6 DEF BoughtByB, RespectsBook, y
<1>7. CASE BoughtByC(x, market, book, inv, time) /\ Certain(book)
  <2>1. book.bid \in Int /\ book.ask \in Int
    BY DEF TypedCase
  <2>2. x.price \in Int /\ x.price < book.ask /\ y.side = "BUY"
    BY <1>3, <1>7, <2>1, PriceOfCIsBelow DEF BoughtByC
  <2>3. QED
    BY <1>3, <2>2, BidsRespectBook DEF y
<1>8. CASE BoughtByC(x, market, book, inv, time) /\ CertainNot(book)
  BY <1>3, <1>8 DEF BoughtByC, RespectsBook, y
<1>9. QED
  BY <1>2, <1>4, <1>5, <1>6, <1>7, <1>8 DEF BoughtByC

LEMMA DesiredLives ==
  ASSUME NEW market, NEW book, NEW inv, NEW time,
         TypedCase(market, book, time), NEW i \in DOMAIN Desired(market, book, inv, time)
  PROVE  LivesInItsWindow(Desired(market, book, inv, time)[i], time)
<1> DEFINE y == Desired(market, book, inv, time)[i]
           res == time.resolution
           game == time.game
           buffer == Settings.gtdBuffer
           within == Settings.gtdWithin
<1>1. PICK x \in Signals(market, book, inv, time) : y = ApplyRewardConstraints(x, market)
  BY WhatIsStated
<1>2. /\ Shaped(x)
      /\ \/ BoughtByA(x, market, book, inv, time) \/ SoldByA(x, market, book, inv, time)
         \/ BoughtByB(x, book) \/ BoughtByC(x, market, book, inv, time)
  BY SignalsAreSignals
<1>3. y.strategy = x.strategy /\ y.expiry = x.expiry
  BY <1>1, <1>2, Adjusted
<1>4. res \in Int /\ game \in Int /\ buffer \in Int /\ within \in Int
  BY WindowsAssumption DEF TypedCase
<1>5. SUFFICES LivesInItsWindow(y, time)
  OBVIOUS
<1> HIDE DEF y
<1>6. CASE BoughtByA(x, market, book, inv, time) \/ SoldByA(x, market, book, inv, time)
  <2>1. y.strategy = "A" /\ y.expiry = ExpiryOfA(time) /\ AsksOfA(market, book, inv, time)
    BY <1>3, <1>6 DEF BoughtByA, SoldByA
  <2>2. res > Settings.resolutionWarn
    BY <2>1 DEF AsksOfA, GatesOfA
  <2>3. res > buffer
    BY <2>2, <1>4, WindowsAssumption
  <2>4. CASE res <= within
    <3>1. y.expiry = res - buffer + 1 /\ LastMinute(y, time) = res - buffer
      BY <2>1, <2>4 DEF ExpiryOfA, LastMinute
    <3> HIDE DEF res, buffer
    <3>2. y.expiry - 1 = LastMinute(y, time) /\ y.expiry > 1
      BY <1>4, <2>3, <3>1
    <3>3. QED
      BY <3>2 DEF LivesInItsWindow
  <2>5. CASE ~(res <= within) /\ game <= within
    <3>1. y.expiry = game - buffer + 1 /\ LastMinute(y, time) = game - buffer
      BY <2>1, <2>5 DEF ExpiryOfA, LastMinute
    <3>2. y.expiry - 1 = LastMinute(y, time) /\ (y.expiry > 1 \/ game <= buffer)
      <4> HIDE DEF game, buffer
      <4>1. QED
        BY <1>4, <3>1
    <3>3. QED
      BY <2>1, <3>2 DEF LivesInItsWindow
  <2>6. CASE ~(res <= within) /\ ~(game <= within)
    BY <2>1, <2>6 DEF ExpiryOfA, LivesInItsWindow
  <2>7. QED
    BY <2>4, <2>5, <2>6
<1>7. CASE BoughtByB(x, book)
  BY <1>3, <1>7 DEF BoughtByB, LivesInItsWindow
<1>8. CASE BoughtByC(x, market, book, inv, time)
  <2>1. y.strategy = "C" /\ y.expiry = res - SnipeBuffer + 1 /\ res > SnipeBuffer
    BY <1>3, <1>8 DEF BoughtByC, GatesOfC
  <2>2. LastMinute(y, time) = res - SnipeBuffer
    BY <2>1 DEF LastMinute
  <2>3. SnipeBuffer \in Int
    BY DEF SnipeBuffer
  <2> HIDE DEF res
  <2>4. y.expiry - 1 = LastMinute(y, time) /\ y.expiry > 1
    BY <1>4, <2>1, <2>2, <2>3
  <2>5. QED
    BY <2>4 DEF LivesInItsWindow
<1>9. QED
  BY <1>2, <1>6, <1>7, <1>8

LEMMA QuotesOfAStayApart ==
  ASSUME NEW market, NEW book, NEW inv \in Inventory, NEW time, TypedCase(market, book, time),
         Len(StrategyA(market, book, inv, time)) = 2
  PROVE  LET quotes == StrategyA(market, book, inv, time)
             price(i) == ApplyRewardConstraints(quotes[i], market).price
         IN  /\ price(1) <= price(2)
             /\ price(1) = price(2) => Rewarded(market)
<1> DEFINE buy == BuyA(market, book, inv, time)
           sell == SellA(market, book, inv, time)
           asks == AsksOfA(market, book, inv, time)
           quotes == StrategyA(market, book, inv, time)
           low == RewardLow(market)
           high == RewardHigh(market)
<1>1. asks /\ quotes[1] = buy /\ quotes[2] = sell
  <2>1. \/ quotes = <<>>
        \/ asks /\ quotes = <<buy>>
        \/ asks /\ quotes = <<buy, sell>>
    BY WhatAStates
  <2>2. Len(<<>>) = 0 /\ Len(<<buy>>) = 1
    OBVIOUS
  <2> HIDE DEF quotes, buy, sell, asks
  <2>3. Len(quotes) = 2
    BY DEF quotes
  <2>4. QED
    BY <2>1, <2>2, <2>3
<1>2. /\ Shaped(buy) /\ buy.price = ToProbability(BidOfA(market, book, inv))
      /\ Shaped(sell) /\ sell.price = ToProbability(AskOfA(market, book, inv))
  BY DEF BuyA, SellA, QuoteOfA, Shaped, Signal
<1>3. buy.price \in Int /\ sell.price \in Int /\ buy.price < sell.price
  BY <1>1, <1>2, PricesOfA
<1>4. low \in Int /\ high \in Int
  BY BandIsTyped DEF TypedCase
<1> DEFINE p == buy.price
           q == sell.price
           p2 == ApplyRewardConstraints(buy, market).price
           q2 == ApplyRewardConstraints(sell, market).price
<1>5. /\ ~Rewarded(market) => p2 = p /\ q2 = q
      /\ Rewarded(market) => p2 = Clamp(low, high, p) /\ q2 = Clamp(low, high, q)
  BY <1>2, Adjusted
<1>6. p2 <= q2 /\ (p2 = q2 => Rewarded(market))
  <2>1. p \in Int /\ q \in Int /\ p < q
    BY <1>3
  <2> HIDE DEF p, q, p2, q2, low, high
  <2>2. CASE ~Rewarded(market)
    BY <1>5, <2>1, <2>2
  <2>3. CASE Rewarded(market)
    <3>1. Clamp(low, high, p) <= Clamp(low, high, q)
      BY <1>4, <2>1, Banded
    <3>2. QED
      BY <1>5, <2>3, <3>1
  <2>4. QED
    BY <2>2, <2>3
<1>7. QED
  BY <1>1, <1>6

\* strategies/strategy_a.py:114, as in Trading: no quote crosses the book, at any
\* inventory, book, fee and tick, but for the exceptions RespectsBook names.
THEOREM QuotesRespectBookHolds == Spec => []QuotesRespectBook
<1>1. TInv => QuotesRespectBook
  <2> SUFFICES ASSUME TInv, NEW t \in DOMAIN markets, NEW s \in Situations[t],
                      NEW quote \in QuotesIn(t, s)
               PROVE  RespectsBook(quote, markets[t], s.book)
    BY DEF QuotesRespectBook
  <2> DEFINE quotes == Desired(markets[t], s.book, InventoryOf(t), s.time)
  <2>1. PICK i \in DOMAIN quotes : quote = quotes[i]
    BY DEF QuotesIn, ToSet
  <2>2. TypedCase(markets[t], s.book, s.time) /\ InventoryOf(t) \in Inventory
    BY HappeningsAreTyped
  <2>3. QED
    BY <2>1, <2>2, DesiredRespectsBook
<1>2. QED
  BY <1>1, TInvHolds, PTL

\* strategies/strategy_a.py:125-141, as in Trading: Strategy A's two quotes do not
\* cross each other, and only the reward band can make them meet.
THEOREM QuotesStayApartHolds == Spec => []QuotesStayApart
<1>1. TInv => QuotesStayApart
  <2> SUFFICES ASSUME TInv PROVE QuotesStayApart
    OBVIOUS
  <2>1. \A t \in DOMAIN markets : \A s \in Situations[t] :
          TypedCase(markets[t], s.book, s.time) /\ InventoryOf(t) \in Inventory
    BY HappeningsAreTyped
  <2>2. QED
    BY <2>1, QuotesOfAStayApart DEF QuotesStayApart
<1>2. QED
  BY <1>1, TInvHolds, PTL

\* PRD FR-201, as in Trading: every GTD quote ends a buffer before its market
\* resolves, and is alive when placed, but for those of the last hours before a game.
THEOREM GtdLivesInItsWindowHolds == Spec => []GtdLivesInItsWindow
<1>1. TInv => GtdLivesInItsWindow
  <2> SUFFICES ASSUME TInv, NEW t \in DOMAIN markets, NEW s \in Situations[t],
                      NEW quote \in QuotesIn(t, s)
               PROVE  LivesInItsWindow(quote, s.time)
    BY DEF GtdLivesInItsWindow
  <2> DEFINE quotes == Desired(markets[t], s.book, InventoryOf(t), s.time)
  <2>1. PICK i \in DOMAIN quotes : quote = quotes[i]
    BY DEF QuotesIn, ToSet
  <2>2. TypedCase(markets[t], s.book, s.time)
    BY HappeningsAreTyped
  <2>3. QED
    BY <2>1, <2>2, DesiredLives
<1>2. QED
  BY <1>1, TInvHolds, PTL

\* core/ledger/fill_position_ledger.py _update_position, as in Trading: for any fills
\* in any order the shares are what the fills left, and the realised profit is what came
\* in less what went out, plus what those shares cost, until more is sold than there is.
THEOREM AccountsBalanceHolds == Spec => []AccountsBalance
<1>1. TInv => AccountsBalance
  <2> SUFFICES ASSUME TInv, NEW t \in DOMAIN positions
               PROVE  LET pos == positions[t]
                          acc == accounts[t]
                          net == acc.bought - acc.sold
                      IN  /\ pos.shares >= 0 /\ pos.shares >= net
                          /\ t \notin oversold =>
                               /\ pos.shares = net
                               /\ SameFraction(pos.realized, Plus(Whole(acc.earned - acc.paid),
                                                                 Times(pos.avg, net)))
    BY DEF AccountsBalance
  <2>1. t \in Tokens /\ positions[t] \in Position /\ Balanced(positions[t], accounts[t])
    BY DEF TInv, PositionsTyped, Accounted
  <2>2. positions[t].shares >= 0
    BY <2>1 DEF Position
  <2>3. t \notin oversold => positions[t].shares = accounts[t].bought - accounts[t].sold
    BY <2>1 DEF TInv, Exact, Held
  <2>4. QED
    BY <2>1, <2>2, <2>3 DEF Balanced
<1>2. QED
  BY <1>1, TInvHolds, PTL
=============================================================================
