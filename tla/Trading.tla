------------------------------- MODULE Trading -------------------------------
(***************************************************************************)
(* What the bot buys and sells, and what it believes it holds.  Book       *)
(* events make the quote engine (Quoting) state its quotes from the        *)
(* inventory; the exchange fills what rests there, bit by bit; each fill   *)
(* goes to the position ledger (Positions) and to the inventory, if the    *)
(* token has one; the scanner takes tokens out of the registry, with their *)
(* inventory, and puts them back.                                          *)
(*                                                                         *)
(* Between quote and exchange lie the diff, the risk gate and the actor of *)
(* QuoteLoop.  Here any of the quotes may be accepted, which covers them   *)
(* for a bot that starts without open orders: its ledger stays empty, and  *)
(* each event states its quotes again.                                     *)
(***************************************************************************)
EXTENDS Quoting, Positions, FiniteSetsExt, SequencesExt

CONSTANTS
  Tokens,
  Markets,      \* token -> market records the scanner may find for it
  Events,       \* token -> [book, time] records of the book events that happen
  Situations,   \* token -> [book, time] records the quotes are judged in
  MaxEvents, MaxFills, MaxScans      \* bounds: book events, fills, scanner cycles

ASSUME TradingAssumption == MaxEvents \in Nat /\ MaxFills \in Nat /\ MaxScans \in Nat

\* neg_risk is a fact of a market, which no scan finds changed.
ASSUME MarketsAssumption ==
  \A t \in Tokens : \A m, n \in Markets[t] : m.negRisk = n.negRisk

\* Prices and times are integers, ticks are positive.
ASSUME MarketsAreTyped ==
  \A t \in Tokens : \A m \in Markets[t] :
    m.tick \in Nat \ {0} /\ {m.fee, m.adjMid, m.maxSpread} \subseteq Int

ASSUME SituationsAreTyped ==
  \A t \in Tokens : \A s \in Situations[t] \cup Events[t] :
    {s.book.bid, s.book.ask, s.time.resolution, s.time.game} \subseteq Int

VARIABLES
  markets,      \* _markets: market record of each registered token
  inventories,  \* _inventories
  placed,       \* every order the exchange took, with what is left of it
  fillQueue,    \* fill_queue
  positions,    \* FillAndPositionLedger._positions
  fills,        \* ._fills: the record under each fill id
  byOrder,      \* ._fills_by_order: how often each order id was recorded
  accounts,     \* history: what the handled fills of each token come to
  oversold,     \* history: tokens of which more was sold than had been bought
  missed,       \* history: tokens whose inventory lacks a fill
  counts        \* bound: events, fills and scans so far

vars == <<markets, inventories, placed, fillQueue, positions, fills, byOrder, accounts,
          oversold, missed, counts>>

Empty == [x \in {} |-> x]

Init ==
  /\ markets = Empty /\ inventories = Empty
  /\ placed = {} /\ fillQueue = <<>>
  /\ positions = Empty /\ fills = Empty /\ byOrder = Empty
  /\ accounts = [t \in Tokens |-> [bought |-> 0, sold |-> 0, paid |-> 0, earned |-> 0]]
  /\ oversold = {} /\ missed = {}
  /\ counts = [events |-> 0, fills |-> 0, scans |-> 0]

-----------------------------------------------------------------------------
\* _on_scanner_update: the selection replaces the registry, and what fell out of
\* it loses its inventory.
ScannerUpdate(selected) ==
  /\ counts.scans < MaxScans
  /\ counts' = [counts EXCEPT !.scans = @ + 1]
  /\ \E found \in [selected -> UNION {Markets[t] : t \in selected}] :
       /\ \A t \in selected : found[t] \in Markets[t]
       /\ markets' = found
  /\ inventories' = Restrict(inventories, DOMAIN inventories \cap selected)
  /\ missed' = missed \cup {t \in DOMAIN inventories \ selected : inventories[t] # NewInventory}
  /\ UNCHANGED <<placed, fillQueue, positions, fills, byOrder, accounts, oversold>>

InventoryOf(token) ==
  IF token \in DOMAIN inventories THEN inventories[token] ELSE NewInventory

\* The exchange refuses a post-only order that would trade at once.
Crosses(quote, book) ==
  IF quote.side = "BUY" THEN book.ask # None /\ quote.price >= book.ask
  ELSE book.bid # None /\ quote.price <= book.bid

\* _handle_book_event.  An inventory is there from the first event on.
HandleBook(token, event) ==
  LET quotes == Desired(markets[token], event.book, InventoryOf(token), event.time)
      welcome == {i \in DOMAIN quotes : quotes[i].postOnly => ~Crosses(quotes[i], event.book)}
      order(i) == [id |-> <<counts.events, i>>, token |-> token,
                   negRisk |-> markets[token].negRisk, strategy |-> quotes[i].strategy,
                   side |-> quotes[i].side, price |-> quotes[i].price,
                   size |-> quotes[i].size, left |-> quotes[i].size]
  IN  /\ token \in DOMAIN markets
      /\ counts.events < MaxEvents
      /\ counts' = [counts EXCEPT !.events = @ + 1]
      /\ inventories' = [t \in DOMAIN inventories \cup {token} |-> InventoryOf(t)]
      /\ \E accepted \in SUBSET welcome : placed' = placed \cup {order(i) : i \in accepted}
      /\ UNCHANGED <<markets, fillQueue, positions, fills, byOrder, accounts, oversold,
                     missed>>

\* The exchange fills part or all of an order and the user stream queues that.
Fill(order, size) ==
  /\ counts.fills < MaxFills
  /\ counts' = [counts EXCEPT !.fills = @ + 1]
  /\ placed' = (placed \ {order}) \cup {[order EXCEPT !.left = @ - size]}
  /\ fillQueue' = Append(fillQueue, [id |-> order.id, token |-> order.token,
                                     side |-> order.side, price |-> order.price,
                                     size |-> size])
  /\ UNCHANGED <<markets, inventories, positions, fills, byOrder, accounts, oversold, missed>>

With(f, key, value) == [x \in DOMAIN f \cup {key} |-> IF x = key THEN value ELSE f[x]]

\* record_fill: the record is kept under the order's id, a later fill of the order
\* in the place of an earlier one; the position is updated by each of them.
RecordFill(fill) ==
  LET pos == IF fill.token \in DOMAIN positions THEN positions[fill.token]
             ELSE NewPosition(fill.price)
      times == IF fill.id \in DOMAIN byOrder THEN byOrder[fill.id] ELSE 0
  IN  /\ fills' = With(fills, fill.id, fill)
      /\ byOrder' = With(byOrder, fill.id, times + 1)
      /\ positions' = With(positions, fill.token,
                           UpdatePosition(pos, fill.side, fill.price, fill.size))

\* Only a token with an inventory has it updated.
UpdateInventory(fill) ==
  IF fill.token \in DOMAIN inventories
  THEN /\ inventories' = [inventories EXCEPT
                            ![fill.token] = ApplyFill(@, fill.side, fill.size)]
       /\ UNCHANGED missed
  ELSE /\ missed' = missed \cup {fill.token}
       /\ UNCHANGED inventories

Entered(acc, fill) ==
  LET cash == fill.size * fill.price
  IN  IF fill.side = "BUY"
      THEN [acc EXCEPT !.bought = @ + fill.size, !.paid = @ + cash]
      ELSE [acc EXCEPT !.sold = @ + fill.size, !.earned = @ + cash]

\* _handle_fill_event, up to the refetch of the fee.
HandleFill ==
  /\ fillQueue # <<>>
  /\ fillQueue' = Tail(fillQueue)
  /\ RecordFill(Head(fillQueue))
  /\ UpdateInventory(Head(fillQueue))
  /\ accounts' = [accounts EXCEPT ![Head(fillQueue).token] = Entered(@, Head(fillQueue))]
  /\ oversold' = oversold \cup {t \in {Head(fillQueue).token} :
                    /\ Head(fillQueue).side # "BUY"
                    /\ Head(fillQueue).size > accounts[t].bought - accounts[t].sold}
  /\ UNCHANGED <<markets, placed, counts>>

Next ==
  \/ \E selected \in SUBSET Tokens : ScannerUpdate(selected)
  \/ \E token \in Tokens : \E event \in Events[token] : HandleBook(token, event)
  \/ \E order \in placed : \E size \in 1..order.left : Fill(order, size)
  \/ HandleFill

Spec == Init /\ [][Next]_vars

-----------------------------------------------------------------------------
\* core/ledger/fill_position_ledger.py _update_position: the shares are never short and
\* never less than the fills left; and until a fill sells more than had been bought they
\* are what the fills left, and the realised profit is the cash that came in less the
\* cash that went out, plus what those shares cost, whatever the order and the prices
\* of the partial fills.
AccountsBalance ==
  \A t \in DOMAIN positions :
    LET pos == positions[t]
        acc == accounts[t]
        net == acc.bought - acc.sold
    IN  /\ pos.shares >= 0 /\ pos.shares >= net
        /\ t \notin oversold =>
             /\ pos.shares = net
             /\ SameFraction(pos.realized, Plus(Whole(acc.earned - acc.paid),
                                               Times(pos.avg, net)))

\* core/orchestrator.py:479: yes_shares is the net token count only as long as
\* nothing of the token is sold and the inventory has seen every fill.  From then on
\* the position lies between yes_shares less no_shares, and yes_shares.
InventoryBracketsPosition ==
  \A t \in DOMAIN inventories \cap DOMAIN positions :
    t \notin missed =>
      /\ positions[t].shares <= inventories[t].yes
      /\ positions[t].shares >= inventories[t].yes - inventories[t].no

\* strategies/strategy_a.py:172-175 sells what it holds enough of, but on a market
\* that is not neg_risk no SELL is ever placed: to hold tokens the bot must have
\* bought, a position of one kind only is a skew of one, and at that skew Strategy A
\* states no quotes, until the scanner drops the token and the position is forgotten.
OrdinaryMarketsAreNeverSold ==
  \A order \in placed : ~order.negRisk => order.side = "BUY"

\* What would be quoted in a situation, from the inventory there is now.
QuotesIn(token, situation) ==
  ToSet(Desired(markets[token], situation.book, InventoryOf(token), situation.time))

RespectsBook(quote, market, book) ==
  quote.postOnly /\ Crosses(quote, book) =>
    \/ Rewarded(market) /\ RewardLow(market) >= book.ask
    \/ Rewarded(market) /\ RewardHigh(market) <= book.bid
    \/ quote.strategy = "C" /\ CertainNot(book)

\* strategies/strategy_a.py:114: quotes avoid crossing the book, at every skew,
\* except where the reward band of a midpoint from the last scan lies outside it, and
\* except Strategy C's bids in a market that is all but lost, which bid for this token
\* what the other one is worth.
QuotesRespectBook ==
  \A t \in DOMAIN markets : \A s \in Situations[t] : \A quote \in QuotesIn(t, s) :
    RespectsBook(quote, markets[t], s.book)

\* Strategy A's two quotes never cross each other, whatever skew and reward band do
\* to them, and the reward band alone can bring them together.
QuotesStayApart ==
  \A t \in DOMAIN markets : \A s \in Situations[t] :
    LET quotes == StrategyA(markets[t], s.book, InventoryOf(t), s.time)
        price(i) == ApplyRewardConstraints(quotes[i], markets[t]).price
    IN  Len(quotes) = 2 =>
          /\ price(1) <= price(2)
          /\ price(1) = price(2) => Rewarded(markets[t])

\* When a GTD quote is to end: a buffer before the resolution, or before the game.
LastMinute(quote, time) ==
  IF quote.strategy = "C" THEN time.resolution - SnipeBuffer
  ELSE IF time.resolution <= Settings.gtdWithin THEN time.resolution - Settings.gtdBuffer
  ELSE time.game - Settings.gtdBuffer

LivesInItsWindow(quote, time) ==
  quote.expiry # NoExpiry =>
    /\ quote.expiry - 1 = LastMinute(quote, time)
    /\ quote.expiry > 1 \/ (quote.strategy = "A" /\ time.game <= Settings.gtdBuffer)

\* PRD FR-201: a GTD quote ends two hours before its market resolves, and still has
\* time to live when it is placed (the exchange takes the last minute off).  A game
\* is given the same two hours: in the two hours before its start Strategy A's
\* quotes are born expired.
GtdLivesInItsWindow ==
  \A t \in DOMAIN markets : \A s \in Situations[t] : \A quote \in QuotesIn(t, s) :
    LivesInItsWindow(quote, s.time)
=============================================================================
