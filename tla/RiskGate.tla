------------------------------ MODULE RiskGate ------------------------------
(***************************************************************************)
(* core/execution/risk_gate.py: the synchronous checks made of every       *)
(* placement before it leaves the process.  Amounts are integers in the    *)
(* unit the limits are given in; an intent of OrderDiff is worth its price *)
(* times its size.                                                         *)
(***************************************************************************)
EXTENDS Integers, Sequences

CONSTANTS
  SizeOf,             \* the size each value of `terms' stands for
  MaxTotalExposure,   \* settings.MAX_TOTAL_EXPOSURE
  MaxPerMarket,       \* settings.MAX_PER_MARKET
  MaxDailyLoss,       \* settings.MAX_DAILY_LOSS
  MaxDrawdown         \* settings.MAX_DRAWDOWN

ASSUME RiskAssumption ==
  /\ MaxTotalExposure \in Nat /\ MaxPerMarket \in Nat
  /\ MaxDailyLoss \in Nat /\ MaxDrawdown \in Nat

\* The default RiskState(), which is what the orchestrator gives the gate.
FreshRiskState ==
  [total_exposure |-> 0, per_market_exposure |-> <<>>, inventory_halted |-> {},
   kill_switch_active |-> FALSE, session_healthy |-> TRUE,
   daily_loss |-> 0, drawdown |-> 0]

Notional(intent) == intent.price * SizeOf[intent.terms]

\* per_market_exposure.get(token, 0.0)
MarketExposure(token, state) ==
  IF token \in DOMAIN state.per_market_exposure
  THEN state.per_market_exposure[token] ELSE 0

\* check(): every one of the eight checks passes.
RiskCheck(intent, acceptingOrders, state) ==
  /\ ~state.kill_switch_active
  /\ state.session_healthy
  /\ state.daily_loss < MaxDailyLoss
  /\ state.drawdown < MaxDrawdown
  /\ state.total_exposure + Notional(intent) <= MaxTotalExposure
  /\ MarketExposure(intent.token, state) + Notional(intent) <= MaxPerMarket
  /\ intent.token \notin state.inventory_halted
  /\ acceptingOrders
=============================================================================
