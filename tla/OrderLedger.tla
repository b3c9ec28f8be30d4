----------------------------- MODULE OrderLedger -----------------------------
(***************************************************************************)
(* core/ledger/order_ledger.py and the reconciliation of                   *)
(* core/ledger/recovery_coordinator.py, as operators on a ledger: a        *)
(* function from order ids to the state of the latest record.              *)
(***************************************************************************)

CONSTANT Orders

Unknown == "unknown"                       \* no record of this order_id
Terminal == {"FILLED", "CANCELLED", "EXPIRED", "REJECTED"}
OrderState == {"SUBMITTED", "ACKNOWLEDGED", "PARTIALLY_FILLED"} \cup Terminal

Ledgers == [Orders -> OrderState \cup {Unknown}]

EmptyLedger == [o \in Orders |-> Unknown]

RecordSubmitted(ledger, order) == [ledger EXCEPT ![order] = "SUBMITTED"]

\* _transition: no transition of a known order is refused.
Transition(ledger, order, state) ==
  IF ledger[order] = Unknown THEN ledger ELSE [ledger EXCEPT ![order] = state]

OpenOrders(ledger) == {o \in Orders : ledger[o] \notin Terminal \cup {Unknown}}

\* Mutant of Reconciled: what the exchange does not list is left alone.
ReconciledListedOnly(ledger, listed) ==
  [o \in Orders |->
     IF o \in listed /\ ledger[o] \notin Terminal THEN "ACKNOWLEDGED" ELSE ledger[o]]

\* Mutant of Reconciled: orders of an earlier life get no stub.
ReconciledKnownOnly(ledger, listed) ==
  [o \in Orders |->
     IF o \notin OpenOrders(ledger) THEN ledger[o]
     ELSE IF o \in listed THEN "ACKNOWLEDGED" ELSE "CANCELLED"]

\* Mutant of Reconciled: what the exchange lists is open, whatever the ledger says.
ReconciledReopening(ledger, listed) ==
  [o \in Orders |->
     IF o \in listed THEN "ACKNOWLEDGED"
     ELSE IF o \in OpenOrders(ledger) THEN "CANCELLED" ELSE ledger[o]]

\* recover() with the answer to get_open_orders(): an open record is confirmed or
\* cancelled, an unknown order gets a stub that is submitted and acknowledged.  A
\* terminal record stays, listed or not.
Reconciled(ledger, listed) ==
  [o \in Orders |->
     IF o \in OpenOrders(ledger)
     THEN IF o \in listed THEN "ACKNOWLEDGED" ELSE "CANCELLED"
     ELSE IF o \in listed /\ ledger[o] = Unknown THEN "ACKNOWLEDGED" ELSE ledger[o]]
=============================================================================
