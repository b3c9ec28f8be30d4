----------------------------- MODULE Redemption -----------------------------
(***************************************************************************)
(* core/ledger/auto_redemption.py, auto_redeem(), and the redemption part  *)
(* of core/ledger/reward_rebate_ledger.py.  One task calls auto_redeem()   *)
(* for resolved conditions; the relayer takes a transaction, refuses it,   *)
(* or does not answer in time; the process is restarted.                   *)
(***************************************************************************)
EXTENDS Integers, FiniteSets

CONSTANTS
  Conditions,    \* condition ids of resolved markets
  Attempts,      \* len(_RETRY_DELAYS_S)
  MaxCalls,      \* bound: calls of auto_redeem() in a behaviour
  MaxRestarts    \* bound: restarts in a behaviour

ASSUME RedemptionAssumption ==
  /\ Attempts \in Nat \ {0}
  /\ MaxCalls \in Nat /\ MaxRestarts \in Nat

VARIABLES
  pc,          \* where the auto_redeem() call is suspended
  cond,        \* its condition
  attempt,     \* its attempt
  ledger,      \* _redemptions: the condition ids recorded, in memory
  txs,         \* the transactions posted, with what became of them
  calls,       \* number of calls so far; names the calls
  restarts     \* number of restarts so far; names the lives of the process

vars == <<pc, cond, attempt, ledger, txs, calls, restarts>>

\* What became of a transaction: `relayer' is what the relayer did with it,
\* `answer' what post_transaction told the caller.
Transaction(call, c, k, relayer, answer) ==
  [call |-> call, cond |-> c, attempt |-> k, life |-> restarts,
   relayer |-> relayer, answer |-> answer]

Init ==
  /\ pc = "idle" /\ cond \in Conditions /\ attempt = 0
  /\ ledger = {} /\ txs = {}
  /\ calls = 0 /\ restarts = 0

\* Mutant of IsRedeemed: the ledger is not asked.
NeverRedeemed(c) == FALSE

IsRedeemed(c) == c \in ledger

Post(call, c, k) ==
  /\ pc' = "posting"
  /\ attempt' = k
  /\ txs' = txs \cup {Transaction(call, c, k, "none", "none")}

\* The transaction the call is waiting for.
Awaited(tx) == pc = "posting" /\ tx.call = calls /\ tx.attempt = attempt

Becomes(tx, new) == txs' = (txs \ {tx}) \cup {new}

\* A call begins: a condition the ledger has is skipped, any other is posted.
AutoRedeem(c) ==
  /\ pc = "idle"
  /\ calls < MaxCalls
  /\ calls' = calls + 1
  /\ cond' = c
  /\ IF IsRedeemed(c) THEN UNCHANGED <<pc, attempt, txs>> ELSE Post(calls', c, 1)
  /\ UNCHANGED <<ledger, restarts>>

\* The relayer gets a request, at any time after it was sent, and takes it or
\* refuses it.
RelayerDecides(tx, relayer) ==
  /\ tx.relayer = "none"
  /\ Becomes(tx, [tx EXCEPT !.relayer = relayer])
  /\ UNCHANGED <<pc, cond, attempt, ledger, calls, restarts>>

\* The hash arrives: it is recorded before the alert is awaited.
PostReturns(tx) ==
  /\ Awaited(tx)
  /\ tx.relayer = "taken"
  /\ Becomes(tx, [tx EXCEPT !.answer = "hash"])
  /\ ledger' = ledger \cup {cond}
  /\ pc' = "alerting"
  /\ UNCHANGED <<cond, attempt, calls, restarts>>

MoreAttempts == attempt < Attempts

\* post_transaction raises, for a refusal or for want of an answer; after the
\* last attempt the failure is alerted.
PostRaises(tx) ==
  /\ Awaited(tx)
  /\ Becomes(tx, [tx EXCEPT !.answer = IF tx.relayer = "refused" THEN "refusal" ELSE "timeout"])
  /\ pc' = IF MoreAttempts THEN "sleeping" ELSE "alerting"
  /\ UNCHANGED <<cond, attempt, ledger, calls, restarts>>

\* Mutant of Retry: the attempt is not counted.
RetryUncounted ==
  /\ pc = "sleeping"
  /\ Post(calls, cond, attempt)
  /\ UNCHANGED <<cond, ledger, calls, restarts>>

\* The backoff is over; the call posts again and does not ask the ledger again.
Retry ==
  /\ pc = "sleeping"
  /\ Post(calls, cond, attempt + 1)
  /\ UNCHANGED <<cond, ledger, calls, restarts>>

\* The alert is sent, or its failure logged by the Alerter; the call returns.
Return ==
  /\ pc = "alerting"
  /\ pc' = "idle"
  /\ UNCHANGED <<cond, attempt, ledger, txs, calls, restarts>>

\* The process goes down and comes back with an empty ledger; a request it sent
\* may still reach the relayer.
Restart ==
  /\ restarts < MaxRestarts
  /\ restarts' = restarts + 1
  /\ pc' = "idle"
  /\ ledger' = {}
  /\ UNCHANGED <<cond, attempt, txs, calls>>

Resume == Retry \/ Return \/ \E tx \in txs : PostReturns(tx) \/ PostRaises(tx)

Next ==
  \/ \E c \in Conditions : AutoRedeem(c)
  \/ Resume
  \/ \E tx \in txs, relayer \in {"taken", "refused"} : RelayerDecides(tx, relayer)
  \/ Restart

\* Every await of the call ends: with an answer, a timeout, or a sleep's end.
Spec == Init /\ [][Next]_vars /\ WF_vars(Resume)

-----------------------------------------------------------------------------
\* Types, and a suspended call has the transaction it waits for.
TypeOK ==
  /\ pc \in {"idle", "posting", "sleeping", "alerting"}
  /\ cond \in Conditions /\ attempt \in 0..Attempts
  /\ ledger \subseteq Conditions
  /\ calls \in 0..MaxCalls /\ restarts \in 0..MaxRestarts
  /\ \A tx \in txs : /\ tx.relayer \in {"none", "taken", "refused"}
                     /\ tx.answer \in {"none", "hash", "refusal", "timeout"}
  /\ pc = "posting" => \E tx \in txs : Awaited(tx) /\ tx.cond = cond

\* Within one life of the process a condition is redeemed twice only behind a
\* timeout: of two transactions the relayer took, the caller gave up on one
\* without an answer.  Refusals, retries and repeated calls never do it.
RedeemedOnce ==
  \A tx1, tx2 \in {tx \in txs : tx.relayer = "taken"} :
    tx1.cond = tx2.cond /\ tx1.life = tx2.life /\ tx1 # tx2 =>
      "timeout" \in {tx1.answer, tx2.answer}

\* Every call of auto_redeem() ends, unless the process goes down with it.
CallsEnd == pc # "idle" ~> pc = "idle"
=============================================================================
