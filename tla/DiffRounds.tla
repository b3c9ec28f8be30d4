----------------------------- MODULE DiffRounds -----------------------------
(***************************************************************************)
(* The reconciliation rounds of core/execution: the quote engine states    *)
(* the Desired intents, diff() computes the mutations, every mutation      *)
(* succeeds and is confirmed before the next round.  This is the loop the  *)
(* diff is written for; what happens when mutations are late, lost or      *)
(* refused is in ExecutionActor and QuoteLoop.                             *)
(***************************************************************************)
EXTENDS OrderDiff

CONSTANTS
  QuoteLists, \* the desired lists (sequences of intents) the engine may state
  Books,      \* the confirmed lists (sequences of orders) recovery may leave
  MaxRounds   \* bound: rounds that are counted

Sides   == {"BUY", "SELL"}
Intents == [token : STRING, side : Sides, price : Int, tick : Nat \ {0}, terms : STRING]
Orders  == [id : Nat, token : STRING, side : Sides, price : Int, terms : STRING]

\* The intents of a list are those of one market, which has one tick size; the ids of
\* the orders are the keys of a ledger.
ASSUME RoundsAssumption ==
  /\ MaxRounds \in Nat
  /\ QuoteLists \subseteq Seq(Intents) /\ Books \subseteq Seq(Orders)
  /\ \A list \in QuoteLists : \A i, k \in DOMAIN list : list[i].tick = list[k].tick
  /\ \A list \in Books : \A j, k \in DOMAIN list : list[j].id = list[k].id => j = k

VARIABLES
  quotes,    \* the Desired intents, in the order the strategies emit them
  book,      \* the Confirmed orders, in ledger insertion order
  rounds     \* rounds since the last change of Desired, counted up to MaxRounds

roundsVars == <<quotes, book, rounds>>

\* The order an intent becomes, or an order stays.  Ids only have to be distinct:
\* an order carries its position.
Resting(id, x) ==
  [id |-> id, token |-> x.token, side |-> x.side, price |-> x.price, terms |-> x.terms]

\* The members of a finite set of numbers, in ascending order.
InOrder(P) ==
  [n \in 1..Cardinality(P) |-> CHOOSE j \in P : Cardinality({k \in P : k <= j}) = n]

\* The positions of the orders that are not cancelled and of the intents placed.
Staying(mutations) == InOrder({j \in DOMAIN book : book[j] \notin mutations.cancels})
Sent(mutations)    == InOrder(DOMAIN mutations.places)

\* The book once a round's mutations are confirmed: the orders that are left keep
\* their order, those placed come after them, as they were sent.
OrderAt(mutations, j) ==
  LET stayed == Len(Staying(mutations))
  IN  Resting(j, IF j <= stayed THEN book[Staying(mutations)[j]]
                 ELSE mutations.places[Sent(mutations)[j - stayed]])

AfterDiff(mutations) ==
  [j \in 1..(Len(Staying(mutations)) + Len(Sent(mutations))) |-> OrderAt(mutations, j)]

RoundsInit ==
  /\ quotes \in QuoteLists
  /\ book \in Books
  /\ rounds = 0

\* One cycle: diff, cancel, place, all confirmed.
Round ==
  /\ book' = AfterDiff(Diff(quotes, book))
  /\ rounds' = IF rounds < MaxRounds THEN rounds + 1 ELSE rounds
  /\ UNCHANGED quotes

\* The market moves and the strategies state other intents.
Requote ==
  /\ quotes' \in QuoteLists
  /\ rounds' = 0
  /\ UNCHANGED book

RoundsNext == Round \/ Requote

RoundsSpec == RoundsInit /\ [][RoundsNext]_roundsVars

-----------------------------------------------------------------------------
Quiet ==
  LET mutations == Diff(quotes, book)
  IN  mutations.cancels = {} /\ DOMAIN mutations.places = {}

\* Every two opposite intents are at least n ticks apart.
ApartBy(n) ==
  \A i, j \in ToSet(quotes) :
    i.side = "BUY" /\ j.side = "SELL" => j.price - i.price >= n * i.tick

\* With three ticks between opposite quotes no kept order, which may be a tick off
\* its intent, is in the way of a placement, and one round settles.
SettlesAtOnce == rounds >= 1 /\ ApartBy(3) => Quiet

\* With two ticks a kept order may be cancelled as a self-cross of the placement next
\* to it, and its own placement may find another such order in the next round: the
\* diff settles all the same, within as many rounds as there are quotes.
Settles ==
  /\ SettlesAtOnce
  /\ rounds >= 1 /\ rounds >= Len(quotes) /\ ApartBy(2) => Quiet

\* Two opposite quotes a tick apart, and one order: it meets one of them and is within
\* a tick of the other.
Alternating ==
  /\ Len(quotes) = 2 /\ Len(book) = 1
  /\ WithinTick(quotes[1].price, quotes[2].price, quotes[1].tick)
  /\ \E met, due \in 1..2 :
       /\ book[1].token = quotes[met].token /\ OrderMatchesIntent(book[1], quotes[met])
       /\ Opposes(book[1], quotes[due])
       /\ WithinTick(book[1].price, quotes[due].price, quotes[1].tick)

\* core/execution/execution_actor.py:96 and polymarket-bot-prd.md:288: "the minimum
\* mutation set from Desired → Confirmed".  strategy_a.py:131 (gate 6) lets quotes through
\* that are "at least 1 tick" apart; to the diff, a tick apart is a self-cross.  Once
\* one of two such quotes is filled, every round cancels the quote that is open to
\* place the other, and the desired state is never reached.
OneForTheOther == [][Alternating /\ Round => Alternating' /\ book' # book]_roundsVars

\* When the diff asks for nothing, each intent has an order of its own that
\* satisfies it and no other order rests: the diff never settles on a book with
\* a missing, a doubled or a left-over quote.
QuietMeansQuoted ==
  Quiet => /\ Len(book) = Len(quotes)
           /\ \E f \in [DOMAIN quotes -> DOMAIN book] :
                /\ \A i, k \in DOMAIN quotes : f[i] = f[k] => i = k
                /\ \A i \in DOMAIN quotes :
                     OrderMatchesIntent(book[f[i]], quotes[i])
=============================================================================
