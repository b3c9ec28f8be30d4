------------------------------- MODULE BookFeed -------------------------------
(***************************************************************************)
(* What the market stream promises the quote engine: the book it acts on   *)
(* for a token is a state the exchange's book has had, never an older one  *)
(* than before, and never crossed.  A view may be unsound, and then it is  *)
(* promised only not to be crossed; core/execution/market_stream.py:12     *)
(* promises more ("always a complete, self-consistent snapshot").          *)
(***************************************************************************)
EXTENDS Integers, Sequences

CONSTANTS Tokens, Books, Crossed(_)

VARIABLES
  history,   \* token -> the states of the exchange's book, oldest first
  view       \* token -> [version, levels, sound], version 0 before the first book

Nothing == [version |-> 0, levels |-> {}, sound |-> FALSE]

Init ==
  /\ history \in [Tokens -> {<<b>> : b \in Books}]
  /\ view = [t \in Tokens |-> Nothing]

\* The exchange's book changes.
Publish(t) ==
  /\ \E b \in Books : history' = [history EXCEPT ![t] = Append(@, b)]
  /\ UNCHANGED view

\* The quote engine gets a book.
Refresh(t) ==
  /\ \E v \in 1..Len(history[t]) :
       /\ v >= view[t].version
       /\ view'[t].version = v
       /\ view'[t].sound => view'[t].levels = history[t][v]
  /\ ~Crossed(view'[t].levels)
  /\ \A other \in Tokens \ {t} : view'[other] = view[other]
  /\ UNCHANGED history

Next == \E t \in Tokens : Publish(t) \/ Refresh(t)

Spec == Init /\ [][Next]_<<history, view>>
=============================================================================
