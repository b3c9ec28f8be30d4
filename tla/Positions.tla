------------------------------ MODULE Positions ------------------------------
(***************************************************************************)
(* core/ledger/fill_position_ledger.py: positions and realised profit from *)
(* fills.  Averages and profits are exact fractions <<numerator, positive  *)
(* denominator>>; the floats of the code are close to them.                *)
(***************************************************************************)
EXTENDS Integers

Fractions == Int \X (Nat \ {0})

Plus(a, b) == <<a[1] * b[2] + b[1] * a[2], a[2] * b[2]>>
Times(a, k) == <<a[1] * k, a[2]>>
Whole(n) == <<n, 1>>
SameFraction(a, b) == a[1] * b[2] = b[1] * a[2]

-----------------------------------------------------------------------------
\* A position that does not exist yet takes its first fill's price as average.
NewPosition(price) == [shares |-> 0, avg |-> Whole(price), realized |-> Whole(0)]

\* Mutant of Bought: the average is the last price.
BoughtAtLast(pos, price, size) == [pos EXCEPT !.shares = @ + size, !.avg = Whole(price)]

\* The average is over the shares there are after the purchase.
Bought(pos, price, size) ==
  LET cost == Plus(Times(pos.avg, pos.shares), Whole(size * price))
  IN  [pos EXCEPT !.shares = @ + size,
                  !.avg = <<cost[1], cost[2] * (pos.shares + size)>>]

\* All of the size earns price - average, and the shares stop at zero.
Sold(pos, price, size) ==
  [pos EXCEPT !.shares = IF @ >= size THEN @ - size ELSE 0,
              !.realized = Plus(@, Times(Plus(Whole(price), Times(pos.avg, -1)), size))]

\* _update_position.
UpdatePosition(pos, side, price, size) ==
  IF side = "BUY" THEN Bought(pos, price, size) ELSE Sold(pos, price, size)
=============================================================================
