------------------------------- MODULE Session -------------------------------
(***************************************************************************)
(* Lives of the bot against an exchange that keeps the orders: startup     *)
(* (core/orchestrator.py steps 6, 8, 10, 11), recover()                    *)
(* (core/ledger/recovery_coordinator.py), the order-safety heartbeat       *)
(* (core/execution/liveness.py), crashes.                                  *)
(*                                                                         *)
(* The program calls recover() at startup and never writes to the ledger   *)
(* again.  Here a caller does what the ledger, the PRD (FR-115, FR-502)    *)
(* and tests/integration/test_reconnect.py are written for: it records     *)
(* what the exchange answers and reports, and recovers after a reconnect.  *)
(***************************************************************************)
EXTENDS OrderLedger, Migrations, SequencesExt

CONSTANTS
  Closings,               \* how the exchange closes an order, besides cancelling it
  MaxStarts, MaxDrops, MaxRecoveries   \* bounds

ASSUME SessionAssumption == Closings \subseteq Terminal /\ IsFiniteSet(Orders)

VARIABLES
  boot,       \* "down", "migrating", "recovering" or "up": past the startup
  ledger,     \* _order_ledger: memory of one life
  recovery,   \* recover(): [at : "none", "asked", "answered"], and the answer
  beat,       \* the heartbeat task: "off", "ok", "missed" or "dead"
  connected,  \* the user stream
  reports,    \* what the exchange reported and the caller has not recorded yet
  post,       \* order -> its post_order request
  open,       \* exchange: open orders
  missed,     \* orders the ledger cannot know are closed (history)
  astray,     \* orders the ledger cannot know are open (history)
  counts      \* bounds: starts, drops, recoveries

client == <<boot, ledger, recovery, beat>>
stream == <<connected, reports>>
history == <<missed, astray>>
vars == <<schema, client, stream, post, open, history, counts>>

Idle == [at |-> "none", ids |-> {}]

Init ==
  /\ MigrationsInit
  /\ boot = "down" /\ ledger = EmptyLedger /\ recovery = Idle /\ beat = "off"
  /\ connected = FALSE /\ reports = <<>>
  /\ post = [o \in Orders |-> "none"] /\ open = {}
  /\ missed = {} /\ astray = {}
  /\ counts = [starts |-> 0, drops |-> 0, recoveries |-> 0]

-----------------------------------------------------------------------------
\* The exchange tells the stream, if there is one, of these orders.
Report(orders, state) ==
  reports' = IF connected
             THEN reports \o [i \in DOMAIN SetToSeq(orders) |->
                                [order |-> SetToSeq(orders)[i], state |-> state]]
             ELSE reports

ClosingReported(o) ==
  \E i \in DOMAIN reports : reports[i].order = o /\ reports[i].state \in Terminal

\* A post_order request of this life, and one whose process is gone.
Accept(o) ==
  /\ post[o] \in {"sent", "stray"}
  /\ post' = [post EXCEPT ![o] = IF @ = "sent" THEN "accepted" ELSE "done"]
  /\ open' = open \cup {o}
  /\ astray' = IF post[o] = "stray" THEN astray \cup {o} ELSE astray
  /\ Report({o}, "ACKNOWLEDGED")
  /\ UNCHANGED <<schema, client, connected, missed, counts>>

PartlyFill(o) ==
  /\ o \in open /\ connected
  /\ ~\E i \in DOMAIN reports : reports[i].state = "PARTIALLY_FILLED"    \* bound
  /\ Report({o}, "PARTIALLY_FILLED")
  /\ UNCHANGED <<schema, client, connected, post, open, history, counts>>

CloseOrders(orders, state) ==
  /\ orders # {}
  /\ open' = open \ orders
  /\ Report(orders, state)
  /\ missed' = IF connected THEN missed ELSE missed \cup orders
  /\ UNCHANGED <<schema, client, connected, post, astray, counts>>

\* Filled or expired.
Close(o) == o \in open /\ \E state \in Closings : CloseOrders({o}, state)

\* Ten seconds without a heartbeat.
PlatformCancelsAll == beat # "ok" /\ CloseOrders(open, "CANCELLED")

-----------------------------------------------------------------------------
\* Startup up to step 6.
Start ==
  /\ boot = "down" /\ counts.starts < MaxStarts
  /\ counts' = [counts EXCEPT !.starts = @ + 1]
  /\ boot' = "migrating"
  /\ StartRunner("bot")
  /\ UNCHANGED <<scripts, recorded, torn, ledger, recovery, beat, stream, post, open,
                 history>>

\* scripts/migrate.py (bound: once).
RunMigrate ==
  /\ runner["migrate"].at = "off"
  /\ StartRunner("migrate")
  /\ UNCHANGED <<scripts, recorded, torn, client, stream, post, open, history, counts>>

Migrate ==
  /\ \E r \in Runners : MigrationStep(r)
  /\ UNCHANGED <<client, stream, post, open, history, counts>>

\* Mutant of Recover: a failed migration is logged.
RecoverAnyhow ==
  /\ boot = "migrating" /\ runner["bot"].at \in {"done", "raised"}
  /\ boot' = "recovering"
  /\ recovery' = [at |-> "asked", ids |-> {}]
  /\ UNCHANGED <<schema, ledger, beat, stream, post, open, history, counts>>

\* Step 8.
Recover ==
  /\ boot = "migrating" /\ runner["bot"].at = "done"
  /\ boot' = "recovering"
  /\ recovery' = [at |-> "asked", ids |-> {}]
  /\ UNCHANGED <<schema, ledger, beat, stream, post, open, history, counts>>

\* The caller recovers after a reconnect.
RecoverAgain ==
  /\ boot = "up" /\ connected /\ recovery.at = "none"
  /\ counts.recoveries < MaxRecoveries
  /\ counts' = [counts EXCEPT !.recoveries = @ + 1]
  /\ recovery' = [at |-> "asked", ids |-> {}]
  /\ UNCHANGED <<schema, boot, ledger, beat, stream, post, open, history>>

\* The exchange answers get_open_orders() with what is open now.
Answer ==
  /\ recovery.at = "asked"
  /\ recovery' = [at |-> "answered", ids |-> open]
  /\ UNCHANGED <<schema, boot, ledger, beat, stream, post, open, history, counts>>

\* recover() goes on with an answer that may be older than the exchange and the ledger
\* are by now.  At startup the last awaits are behind it: heartbeats and consumers start.
Reconcile ==
  /\ recovery.at = "answered"
  /\ ledger' = Reconciled(ledger, recovery.ids)
  /\ recovery' = Idle
  /\ boot' = "up"
  /\ beat' = IF boot = "recovering" THEN "ok" ELSE beat
  /\ missed' = missed \cap recovery.ids
  /\ astray' = {o \in astray : o \notin recovery.ids \/ ledger[o] \in Terminal}
               \cup ((OpenOrders(ledger) \cap open) \ recovery.ids)
  /\ UNCHANGED <<schema, stream, post, open, counts>>

\* The process is gone: killed, or ended by an exception in a startup step.  Requests
\* it sent may still be served.
Die(left) ==
  /\ boot' = "down" /\ ledger' = EmptyLedger /\ recovery' = Idle /\ beat' = "off"
  /\ connected' = FALSE /\ reports' = <<>>
  /\ post' = [o \in Orders |-> CASE post[o] = "sent" -> "stray"
                                 [] post[o] = "accepted" -> "done"
                                 [] OTHER -> post[o]]
  /\ open' = left
  /\ missed' = {} /\ astray' = left
  /\ RunEnds("bot", "off")
  /\ UNCHANGED <<scripts, recorded, counts>>

Crash ==
  /\ boot # "down"
  /\ Die(open)

\* A startup step raised: _main() calls stop(), whose cancel_all() may take effect if
\* the client is there, and exits.
StartupFails ==
  \/ boot = "migrating" /\ runner["bot"].at = "raised" /\ Die(open)
  \/ boot = "recovering" /\ \E left \in {open, {}} : Die(left)

\* The caller is told that recover() failed.
RecoveryFails ==
  /\ boot = "up" /\ recovery.at # "none"
  /\ recovery' = Idle
  /\ UNCHANGED <<schema, boot, ledger, beat, stream, post, open, history, counts>>

-----------------------------------------------------------------------------
\* A quote is placed, never while is_resyncing().
Post(o) ==
  /\ boot = "up" /\ recovery.at = "none"
  /\ post[o] = "none"
  /\ post' = [post EXCEPT ![o] = "sent"]
  /\ UNCHANGED <<schema, client, stream, open, history, counts>>

\* The answer has the order id: only now can the order be recorded.
PostReturns(o) ==
  /\ post[o] = "accepted"
  /\ post' = [post EXCEPT ![o] = "done"]
  /\ ledger' = RecordSubmitted(ledger, o)
  /\ missed' = IF o \notin open /\ ~ClosingReported(o) THEN missed \cup {o} ELSE missed
  /\ UNCHANGED <<schema, boot, recovery, beat, stream, open, astray, counts>>

\* The caller records a report; for an order it has no record of nothing happens.
Deliver ==
  /\ boot = "up" /\ reports # <<>>
  /\ reports' = Tail(reports)
  /\ LET o == Head(reports).order
         state == Head(reports).state
     IN  /\ ledger' = Transition(ledger, o, state)
         /\ missed' = IF ledger[o] = Unknown /\ state \in Terminal THEN missed \cup {o} ELSE missed
         /\ astray' = IF ledger[o] # Unknown /\ state \notin Terminal THEN astray \ {o} ELSE astray
  /\ UNCHANGED <<schema, boot, recovery, beat, connected, post, open, counts>>

Connect ==
  /\ boot = "up" /\ ~connected
  /\ connected' = TRUE
  /\ UNCHANGED <<schema, client, reports, post, open, history, counts>>

\* The stream breaks with what it had not delivered.
Drop ==
  /\ connected /\ counts.drops < MaxDrops
  /\ counts' = [counts EXCEPT !.drops = @ + 1]
  /\ connected' = FALSE /\ reports' = <<>>
  /\ missed' = missed \cup {o \in Orders : ClosingReported(o)}
  /\ UNCHANGED <<schema, client, post, open, astray>>

\* order_safety_heartbeat_loop: the second miss in a row ends the task, and no task
\* looks after it.
Heartbeat ==
  /\ \/ beat \in {"ok", "missed"} /\ beat' = "ok"
     \/ beat = "ok" /\ beat' = "missed"
     \/ beat = "missed" /\ beat' = "dead"
  /\ UNCHANGED <<schema, boot, ledger, recovery, stream, post, open, history, counts>>

Exchange ==
  \/ PlatformCancelsAll
  \/ \E o \in Orders : Accept(o) \/ PartlyFill(o) \/ Close(o)

Next ==
  \/ Start \/ Migrate \/ RunMigrate \/ Recover \/ RecoverAgain \/ Answer \/ Reconcile
  \/ RecoveryFails \/ StartupFails \/ Crash \/ Deliver \/ Connect \/ Drop \/ Heartbeat
  \/ Exchange \/ \E o \in Orders : Post(o) \/ PostReturns(o)

Spec == Init /\ [][Next]_vars

-----------------------------------------------------------------------------
SchemaReady == \A v \in Versions : v \in recorded /\ Runs(v) > 0

\* Types, what holds of one part of a life by another one, and postgres_client.py:72 with
\* orchestrator.py step 6: the bot is past its migrations only with each of them applied
\* and recorded, whatever crashed before or ran beside it.
TypeOK ==
  /\ MigrationsTypeOK
  /\ boot \in {"down", "migrating", "recovering", "up"}
  /\ ledger \in Ledgers
  /\ recovery \in [at : {"none", "asked", "answered"}, ids : SUBSET Orders]
  /\ beat \in {"off", "ok", "missed", "dead"}
  /\ \A i \in DOMAIN reports : reports[i].order \in Orders /\ reports[i].state \in OrderState
  /\ post \in [Orders -> {"none", "sent", "stray", "accepted", "done"}]
  /\ beat = "off" <=> boot # "up"
  /\ boot = "recovering" => recovery.at # "none"
  /\ connected => boot = "up"
  /\ boot \in {"recovering", "up"} => SchemaReady

\* FR-115: an order the ledger has open and the exchange has not is one whose closing
\* the ledger is about to be told, or could not be told since the last recovery.
GhostsExplained ==
  \A o \in OpenOrders(ledger) \ open : ClosingReported(o) \/ o \in missed

\* FR-502: an order the exchange has open and the ledger has not is one whose answer is
\* on its way, or one that came to be after the answer the last recovery went by.
OrphansExplained ==
  boot = "up" => \A o \in open \ OpenOrders(ledger) : post[o] = "accepted" \/ o \in astray

\* order_ledger.py:167: a record that says the order is over is undone in two ways only.
\* A recovery closed it by itself, and an older report is recorded behind it; or a
\* recovery listed it, it was closed, and only then its own post_order() returns.
OnlyRecoveryIsUndone ==
  [][\A o \in Orders :
       ledger[o] \in Terminal /\ ledger'[o] \notin Terminal \cup {Unknown} =>
         \/ ledger[o] = "CANCELLED" /\ reports # <<>> /\ Head(reports).order = o
         \/ post[o] = "accepted" /\ post'[o] = "done"]_vars
=============================================================================
