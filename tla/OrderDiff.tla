----------------------------- MODULE OrderDiff -----------------------------
(***************************************************************************)
(* core/execution/execution_actor.py, diff(): the stateless computation of *)
(* the mutations that take the Confirmed orders to the Desired intents.    *)
(*                                                                         *)
(* An intent is a record [token, side, price, tick, terms], an order a     *)
(* record [id, token, side, price, terms].  Prices are integers in units   *)
(* of the smallest tick; `terms' stands for the triple (size,              *)
(* time_in_force, post_only), which the code compares for equality only.   *)
(* Ids of confirmed orders are distinct: they are keys of the ledger.      *)
(***************************************************************************)
EXTENDS Integers, Sequences, FiniteSetsExt, SequencesExt

\* Mutant of WithinTick: two ticks pass for one.
WithinTwoTicks(a, b, tick) == a - b <= 2 * tick /\ b - a <= 2 * tick

\* True when two prices are at most one tick apart.  The code compares floats
\* with "abs(a - b) < tick + 1e-9", so exactly one tick apart counts.
WithinTick(a, b, tick) == a - b <= tick /\ b - a <= tick

OrderMatchesIntent(order, intent) ==
  /\ order.side = intent.side
  /\ WithinTick(order.price, intent.price, intent.tick)
  /\ order.terms = intent.terms

\* The position of the confirmed order the loop takes for an intent: the first
\* one not taken yet that satisfies it, if there is one.
PickFor(intent, confirmed, taken) ==
  LET fits == {j \in DOMAIN confirmed \ taken :
                 /\ confirmed[j].token = intent.token
                 /\ OrderMatchesIntent(confirmed[j], intent)}
  IN  IF fits = {} THEN {} ELSE {Min(fits)}

\* Taken(desired, confirmed)[i]: positions of `confirmed' taken by the first i
\* intents.
Taken(desired, confirmed) ==
  LET taken[i \in 0..Len(desired)] ==
        IF i = 0 THEN {}
        ELSE taken[i - 1] \cup PickFor(desired[i], confirmed, taken[i - 1])
  IN  taken

\* Step 1: the orders some intent keeps, and the intents no order satisfies, by
\* their position in Desired; they are placed in ascending order of position.
Matched(desired, confirmed) ==
  {confirmed[j] : j \in {k \in DOMAIN confirmed : k \in Taken(desired, confirmed)[Len(desired)]}}

DesiredToPlace(desired, confirmed) ==
  LET taken == Taken(desired, confirmed)
  IN  [i \in {k \in DOMAIN desired : taken[k] = taken[k - 1]} |-> desired[i]]

\* Mutant of NoLongerDesired: orders with no intent are left alone.
NothingDropped(desired, confirmed) == {}

\* Step 2: an order no intent keeps is no longer desired.
NoLongerDesired(desired, confirmed) ==
  ToSet(confirmed) \ Matched(desired, confirmed)

Opposes(order, intent) == order.token = intent.token /\ order.side # intent.side

\* Mutant of SelfCross: step 3 is missing.
NoSelfCross(desired, confirmed) == {}

\* Step 3: kept orders that a new placement would cross.  The tick is the first
\* intent's, whatever intent is placed.
SelfCross(desired, confirmed) ==
  {o \in Matched(desired, confirmed) :
     \E p \in Range(DesiredToPlace(desired, confirmed)) :
       Opposes(o, p) /\ WithinTick(o.price, p.price, desired[1].tick)}

Diff(desired, confirmed) ==
  [cancels |-> NoLongerDesired(desired, confirmed) \cup SelfCross(desired, confirmed),
   places  |-> DesiredToPlace(desired, confirmed)]
=============================================================================
