-------------------------- MODULE RedemptionProofs --------------------------
(***************************************************************************)
(* RedeemedOnce for any conditions, number of attempts, calls and restarts.*)
(*                                                                         *)
(* The argument: a transaction without an answer is the one the call waits *)
(* for, and a call that posts has found its condition missing in the       *)
(* ledger, which has every condition of an answered transaction of this    *)
(* life.  So of the transactions of one life for one condition at most one *)
(* is unanswered or answered with a hash.                                  *)
(***************************************************************************)
EXTENDS Redemption, TLAPS

Transactions ==
  [call : Nat, cond : Conditions, attempt : Nat, life : Nat,
   relayer : {"none", "taken", "refused"}, answer : {"none", "hash", "refusal", "timeout"}]

Types ==
  /\ pc \in {"idle", "posting", "sleeping", "alerting"}
  /\ cond \in Conditions /\ attempt \in 0..Attempts
  /\ ledger \subseteq Conditions
  /\ calls \in 0..MaxCalls /\ restarts \in 0..MaxRestarts
  /\ txs \subseteq Transactions
  /\ pc = "sleeping" => attempt < Attempts

\* The posted transactions are of calls and attempts and lives so far.
PostedBefore ==
  \A tx \in txs : /\ tx.life <= restarts /\ tx.call <= calls
                  /\ tx.call = calls => tx.attempt <= attempt

AwaitedIsUnanswered ==
  /\ pc = "posting" => \E tx \in txs : Awaited(tx)
  /\ \A tx \in txs : Awaited(tx) => tx.answer = "none" /\ tx.cond = cond /\ tx.life = restarts

UnansweredIsAwaited ==
  \A tx \in txs : tx.answer = "none" /\ tx.life = restarts => Awaited(tx)

AwaitedIsOne == \A tx1, tx2 \in txs : Awaited(tx1) /\ Awaited(tx2) => tx1 = tx2

LedgerHasHashes ==
  \A tx \in txs : tx.answer = "hash" /\ tx.life = restarts => tx.cond \in ledger

PostingIsNew == pc \in {"posting", "sleeping"} => cond \notin ledger

RefusalIsRefused == \A tx \in txs : tx.answer = "refusal" => tx.relayer = "refused"

\* Of the transactions of a life for a condition, all but one were given up.
OneNotGivenUp ==
  \A tx1, tx2 \in txs :
    tx1.cond = tx2.cond /\ tx1.life = tx2.life /\ tx1 # tx2 =>
      \/ tx1.answer \in {"refusal", "timeout"}
      \/ tx2.answer \in {"refusal", "timeout"}

IInv ==
  /\ Types /\ PostedBefore /\ AwaitedIsUnanswered /\ UnansweredIsAwaited /\ AwaitedIsOne
  /\ LedgerHasHashes /\ PostingIsNew /\ RefusalIsRefused /\ OneNotGivenUp

-----------------------------------------------------------------------------
LEMMA IInvInit == Init => IInv
  BY RedemptionAssumption
  DEF Init, IInv, Types, PostedBefore, AwaitedIsUnanswered, UnansweredIsAwaited, AwaitedIsOne,
      LedgerHasHashes, PostingIsNew, RefusalIsRefused, OneNotGivenUp, Awaited

LEMMA IInvImplies == IInv => TypeOK /\ RedeemedOnce
<1> SUFFICES ASSUME IInv PROVE TypeOK /\ RedeemedOnce
  OBVIOUS
<1>1. TypeOK
  BY DEF IInv, Types, Transactions, AwaitedIsUnanswered, TypeOK
<1>2. RedeemedOnce
  BY DEF IInv, Types, Transactions, RefusalIsRefused, OneNotGivenUp, RedeemedOnce
<1>3. QED
  BY <1>1, <1>2

\* A post of the attempt k of the call n for c: there was no such attempt, nothing is
\* awaited, and the ledger has no hash for c.
LEMMA PostKeepsIInv ==
  ASSUME IInv, NEW n \in Nat, NEW c \in Conditions, NEW k \in 1..Attempts,
         pc \in {"idle", "sleeping"}, c \notin ledger,
         \A tx \in txs : tx.call <= n /\ (tx.call = n => tx.attempt < k),
         Post(n, c, k), calls' = n, n \in 0..MaxCalls, cond' = c,
         UNCHANGED <<ledger, restarts>>
  PROVE  IInv'
<1> DEFINE new == Transaction(n, c, k, "none", "none")
<1>1. /\ new = [call |-> n, cond |-> c, attempt |-> k, life |-> restarts,
                relayer |-> "none", answer |-> "none"]
      /\ txs' = txs \cup {new} /\ pc' = "posting" /\ attempt' = k
  BY DEF Post, Transaction
<1> HIDE DEF new
<1>2. new \in Transactions
  BY <1>1, RedemptionAssumption DEF IInv, Types, Transactions
<1>3. Types'
  BY <1>1, <1>2, RedemptionAssumption DEF IInv, Types
<1>4. \A tx \in txs : ~(tx.answer = "none" /\ tx.life = restarts)
  BY DEF IInv, UnansweredIsAwaited, Awaited
<1>6. PostedBefore'
  BY <1>1, RedemptionAssumption DEF IInv, Types, Transactions, PostedBefore
<1>7. AwaitedIsUnanswered' /\ UnansweredIsAwaited' /\ AwaitedIsOne'
  <2>1. \A tx \in txs' : Awaited(tx)' <=> tx = new
    BY <1>1, RedemptionAssumption DEF Awaited
  <2>2. QED
    BY <1>1, <1>4, <2>1 DEF AwaitedIsUnanswered, UnansweredIsAwaited, AwaitedIsOne
<1>8. LedgerHasHashes' /\ PostingIsNew' /\ RefusalIsRefused'
  BY <1>1 DEF IInv, LedgerHasHashes, PostingIsNew, RefusalIsRefused
<1>9. OneNotGivenUp'
  <2>1. \A tx \in txs : tx.cond = c /\ tx.life = restarts => tx.answer \in {"refusal", "timeout"}
    BY <1>4 DEF IInv, LedgerHasHashes, Types, Transactions
  <2>2. QED
    BY <1>1, <2>1 DEF IInv, OneNotGivenUp
<1>10. QED
  BY <1>3, <1>6, <1>7, <1>8, <1>9 DEF IInv

\* The relayer decides, or the caller learns: what identifies a transaction stays.
LEMMA RelayerDecidesKeepsIInv ==
  ASSUME IInv, NEW tx \in txs, NEW relayer \in {"taken", "refused"}, RelayerDecides(tx, relayer)
  PROVE  IInv'
<1> DEFINE new == [tx EXCEPT !.relayer = relayer]
<1>1. /\ txs' = (txs \ {tx}) \cup {new} /\ tx.relayer = "none"
      /\ UNCHANGED <<pc, cond, attempt, ledger, calls, restarts>>
  BY DEF RelayerDecides, Becomes
<1>2. /\ new \in Transactions
      /\ new.call = tx.call /\ new.cond = tx.cond /\ new.attempt = tx.attempt
      /\ new.life = tx.life /\ new.answer = tx.answer /\ new.relayer = relayer
  BY DEF IInv, Types, Transactions
<1> HIDE DEF new
<1>3. Types' /\ PostedBefore' /\ PostingIsNew'
  BY <1>1, <1>2 DEF IInv, Types, PostedBefore, PostingIsNew
<1>4. Awaited(new)' <=> Awaited(tx)
  BY <1>1, <1>2 DEF Awaited
<1>5. \A other \in txs : Awaited(other)' <=> Awaited(other)
  BY <1>1 DEF Awaited
<1>6. AwaitedIsUnanswered' /\ UnansweredIsAwaited' /\ AwaitedIsOne'
  BY <1>1, <1>2, <1>4, <1>5
  DEF IInv, AwaitedIsUnanswered, UnansweredIsAwaited, AwaitedIsOne
<1>7. LedgerHasHashes'
  BY <1>1, <1>2 DEF IInv, LedgerHasHashes
<1>8. RefusalIsRefused'
  <2>1. tx.answer # "refusal"
    BY <1>1 DEF IInv, RefusalIsRefused
  <2>2. QED
    BY <1>1, <1>2, <2>1 DEF IInv, RefusalIsRefused
<1>9. OneNotGivenUp'
  BY <1>1, <1>2 DEF IInv, OneNotGivenUp
<1>10. QED
  BY <1>3, <1>6, <1>7, <1>8, <1>9 DEF IInv

LEMMA PostReturnsKeepsIInv ==
  ASSUME IInv, NEW tx \in txs, PostReturns(tx)
  PROVE  IInv'
<1> DEFINE new == [tx EXCEPT !.answer = "hash"]
<1>1. /\ txs' = (txs \ {tx}) \cup {new} /\ Awaited(tx)
      /\ pc' = "alerting" /\ ledger' = ledger \cup {cond}
      /\ UNCHANGED <<cond, attempt, calls, restarts>>
  BY DEF PostReturns, Becomes
<1>2. /\ new \in Transactions
      /\ new.call = tx.call /\ new.cond = tx.cond /\ new.attempt = tx.attempt
      /\ new.life = tx.life /\ new.answer = "hash" /\ new.relayer = tx.relayer
  BY DEF IInv, Types, Transactions
<1>3. tx.answer = "none" /\ tx.cond = cond /\ tx.life = restarts
  BY <1>1 DEF IInv, AwaitedIsUnanswered
<1> HIDE DEF new
<1>4. \A other \in txs \ {tx} : ~(other.answer = "none" /\ other.life = restarts)
  BY <1>1 DEF IInv, UnansweredIsAwaited, AwaitedIsOne
<1>5. Types' /\ PostedBefore'
  BY <1>1, <1>2 DEF IInv, Types, PostedBefore
<1>6. AwaitedIsUnanswered' /\ UnansweredIsAwaited' /\ AwaitedIsOne' /\ PostingIsNew'
  BY <1>1, <1>2, <1>4
  DEF AwaitedIsUnanswered, UnansweredIsAwaited, AwaitedIsOne, PostingIsNew, Awaited
<1>7. LedgerHasHashes' /\ RefusalIsRefused'
  BY <1>1, <1>2, <1>3 DEF IInv, LedgerHasHashes, RefusalIsRefused
<1>8. OneNotGivenUp'
  BY <1>1, <1>2, <1>3 DEF IInv, OneNotGivenUp
<1>9. QED
  BY <1>5, <1>6, <1>7, <1>8 DEF IInv

LEMMA PostRaisesKeepsIInv ==
  ASSUME IInv, NEW tx \in txs, PostRaises(tx)
  PROVE  IInv'
<1> DEFINE new == [tx EXCEPT !.answer = IF tx.relayer = "refused" THEN "refusal" ELSE "timeout"]
<1>1. /\ txs' = (txs \ {tx}) \cup {new} /\ Awaited(tx)
      /\ pc' \in {"sleeping", "alerting"} /\ (pc' = "sleeping" => attempt < Attempts)
      /\ UNCHANGED <<cond, attempt, ledger, calls, restarts>>
  BY DEF PostRaises, Becomes, MoreAttempts
<1>2. /\ new \in Transactions
      /\ new.call = tx.call /\ new.cond = tx.cond /\ new.attempt = tx.attempt
      /\ new.life = tx.life /\ new.relayer = tx.relayer
      /\ new.answer = IF tx.relayer = "refused" THEN "refusal" ELSE "timeout"
  BY DEF IInv, Types, Transactions
<1> HIDE DEF new
<1>3. \A other \in txs \ {tx} : ~(other.answer = "none" /\ other.life = restarts)
  BY <1>1 DEF IInv, UnansweredIsAwaited, AwaitedIsOne
<1>4. pc = "posting"
  BY <1>1 DEF Awaited
<1>5. Types' /\ PostedBefore' /\ PostingIsNew'
  BY <1>1, <1>2, <1>4 DEF IInv, Types, PostedBefore, PostingIsNew
<1>6. AwaitedIsUnanswered' /\ UnansweredIsAwaited' /\ AwaitedIsOne'
  BY <1>1, <1>2, <1>3
  DEF AwaitedIsUnanswered, UnansweredIsAwaited, AwaitedIsOne, Awaited
<1>7. LedgerHasHashes' /\ RefusalIsRefused'
  BY <1>1, <1>2 DEF IInv, LedgerHasHashes, RefusalIsRefused
<1>8. OneNotGivenUp'
  BY <1>1, <1>2 DEF IInv, OneNotGivenUp
<1>9. QED
  BY <1>5, <1>6, <1>7, <1>8 DEF IInv

-----------------------------------------------------------------------------
LEMMA IInvNext == IInv /\ [Next]_vars => IInv'
<1> SUFFICES ASSUME IInv, [Next]_vars PROVE IInv'
  OBVIOUS
<1>1. ASSUME NEW c \in Conditions, AutoRedeem(c) PROVE IInv'
  <2>1. CASE IsRedeemed(c)
    <3>1. /\ calls' = calls + 1 /\ calls < MaxCalls /\ cond' = c /\ pc = "idle"
          /\ UNCHANGED <<pc, attempt, txs, ledger, restarts>>
      BY <1>1, <2>1 DEF AutoRedeem
    <3>2. Types' /\ PostedBefore'
      BY <3>1, RedemptionAssumption DEF IInv, Types, Transactions, PostedBefore
    <3>3. QED
      BY <3>1, <3>2
      DEF IInv, AwaitedIsUnanswered, UnansweredIsAwaited, AwaitedIsOne, Awaited,
          LedgerHasHashes, PostingIsNew, RefusalIsRefused, OneNotGivenUp
  <2>2. CASE ~IsRedeemed(c)
    <3>1. /\ calls' = calls + 1 /\ calls < MaxCalls /\ cond' = c /\ pc = "idle"
          /\ c \notin ledger /\ Post(calls + 1, c, 1) /\ UNCHANGED <<ledger, restarts>>
      BY <1>1, <2>2 DEF AutoRedeem, IsRedeemed
    <3>2. \A tx \in txs : tx.call <= calls + 1 /\ (tx.call = calls + 1 => tx.attempt < 1)
      BY RedemptionAssumption DEF IInv, Types, Transactions, PostedBefore
    <3>3. calls + 1 \in 0..MaxCalls /\ calls + 1 \in Nat /\ 1 \in 1..Attempts
      BY <3>1, RedemptionAssumption DEF IInv, Types
    <3>4. QED
      BY <3>1, <3>2, <3>3, PostKeepsIInv
  <2>3. QED
    BY <2>1, <2>2
<1>2. ASSUME Retry PROVE IInv'
  <2>1. /\ pc = "sleeping" /\ Post(calls, cond, attempt + 1)
        /\ UNCHANGED <<cond, ledger, calls, restarts>>
    BY <1>2 DEF Retry
  <2>2. cond \in Conditions /\ calls \in 0..MaxCalls /\ calls \in Nat /\ cond \notin ledger
    BY <2>1, RedemptionAssumption DEF IInv, Types, PostingIsNew
  <2>3. attempt + 1 \in 1..Attempts
    BY <2>1, RedemptionAssumption DEF IInv, Types
  <2>4. \A tx \in txs : tx.call <= calls /\ (tx.call = calls => tx.attempt < attempt + 1)
    BY RedemptionAssumption DEF IInv, Types, Transactions, PostedBefore
  <2>5. QED
    BY <2>1, <2>2, <2>3, <2>4, PostKeepsIInv
<1>3. ASSUME Return PROVE IInv'
  BY <1>3
  DEF Return, IInv, Types, PostedBefore, AwaitedIsUnanswered, UnansweredIsAwaited,
      AwaitedIsOne, Awaited, LedgerHasHashes, PostingIsNew, RefusalIsRefused, OneNotGivenUp
<1>4. ASSUME Restart PROVE IInv'
  <2>1. /\ restarts < MaxRestarts /\ restarts' = restarts + 1 /\ pc' = "idle" /\ ledger' = {}
        /\ UNCHANGED <<cond, attempt, txs, calls>>
    BY <1>4 DEF Restart
  <2>2. \A tx \in txs : tx.life # restarts' /\ tx.life <= restarts'
    BY <2>1, RedemptionAssumption DEF IInv, Types, Transactions, PostedBefore
  <2>3. Types' /\ PostedBefore'
    BY <2>1, <2>2, RedemptionAssumption DEF IInv, Types, PostedBefore
  <2>4. QED
    BY <2>1, <2>2, <2>3
    DEF IInv, AwaitedIsUnanswered, UnansweredIsAwaited, AwaitedIsOne, Awaited,
        LedgerHasHashes, PostingIsNew, RefusalIsRefused, OneNotGivenUp
<1>5. CASE UNCHANGED vars
  BY <1>5
  DEF vars, IInv, Types, PostedBefore, AwaitedIsUnanswered, UnansweredIsAwaited,
      AwaitedIsOne, Awaited, LedgerHasHashes, PostingIsNew, RefusalIsRefused, OneNotGivenUp
<1>6. QED
  BY <1>1, <1>2, <1>3, <1>4, <1>5, PostReturnsKeepsIInv, PostRaisesKeepsIInv,
     RelayerDecidesKeepsIInv
  DEF Next, Resume

LEMMA Always == Spec => []IInv
  BY IInvInit, IInvNext, PTL DEF Spec

-----------------------------------------------------------------------------
\* The types of auto_redeem()'s state, and a suspended call has its transaction.
THEOREM TypeCorrect == Spec => []TypeOK
  BY Always, IInvImplies, PTL

\* core/ledger/auto_redemption.py:48-107: refusals, retries and repeated calls never
\* make the relayer take two transactions for a condition in one life of the process.
THEOREM RedeemedOnceHolds == Spec => []RedeemedOnce
  BY Always, IInvImplies, PTL
=============================================================================
