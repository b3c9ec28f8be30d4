------------------------------- MODULE FillFeed -------------------------------
(***************************************************************************)
(* What the user stream promises the position ledger: every fill that the  *)
(* exchange reports is handled once, the earliest first, and a fill is     *)
(* given up only when a connection breaks, with all that came after it.    *)
(* A fill is a record whose field n is its place in all that was reported. *)
(***************************************************************************)
EXTENDS Integers, Sequences, SequencesExt

VARIABLES
  underway,  \* the fills reported and not handled yet
  handled,   \* the fills the position ledger has taken, oldest first
  breaks     \* number of broken connections

Init == underway = {} /\ handled = <<>> /\ breaks = 0

\* The fills of Early are earlier than those of Late.
Earlier(Early, Late) == \A e \in Early, l \in Late : e.n < l.n

\* The exchange reports fills later than all before.
Report ==
  /\ underway \subseteq underway'
  /\ Earlier(underway \cup ToSet(handled), underway' \ underway)
  /\ \A e, f \in underway' \ underway : e # f => e.n # f.n
  /\ UNCHANGED <<handled, breaks>>

\* The earliest fill is handled.
Deliver ==
  /\ \E f \in underway :
       /\ Earlier({f}, underway \ {f})
       /\ underway' = underway \ {f}
       /\ handled' = Append(handled, f)
  /\ UNCHANGED breaks

\* A connection breaks: some of the latest fills will never come.
Break ==
  /\ underway' \subseteq underway
  /\ Earlier(underway', underway \ underway')
  /\ breaks' = breaks + 1
  /\ UNCHANGED handled

Next == Report \/ Deliver \/ Break

FeedSpec == Init /\ [][Next]_<<underway, handled, breaks>>
===============================================================================
