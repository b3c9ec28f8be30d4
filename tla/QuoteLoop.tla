------------------------------ MODULE QuoteLoop ------------------------------
(***************************************************************************)
(* core/orchestrator.py: one life of the bot process.  start() boots and   *)
(* enters _run_event_loop, whose two consumer tasks take book events and   *)
(* fills from their queues; the scanner task replaces the market registry; *)
(* a signal makes stop() run as a task of its own beside them.  Each book  *)
(* event goes through the registry, the quote engine, diff() and the risk  *)
(* gate into ExecutionActor.apply, which this module extends: the book     *)
(* consumer is the only caller of apply().                                 *)
(*                                                                         *)
(* The confirmed orders of a token are the ones recovery found at startup: *)
(* nothing the loop does adds to the order ledger or removes from it.      *)
(***************************************************************************)
EXTENDS ExecutionActor, RiskGate

CONSTANTS
  Capacity,     \* maxsize of book_queue
  MaxFills      \* bound: fill events in a behaviour; MaxBatches bounds the book events

ASSUME LoopAssumption == Capacity \in Nat \ {0} /\ MaxFills \in Nat

VARIABLES
  running,      \* _running
  booted,       \* start() has entered the event loop
  exited,       \* start() returned or raised: the process is gone
  books,        \* book_queue: the tokens of the waiting book events
  fills,        \* number of events in fill_queue
  consumer,     \* the tasks _consume_book and _consume_fills
  registry,     \* keys of _markets
  gatewayUp,    \* the websocket tasks deliver events
  stopAt,       \* where stop() is suspended
  killSwitch,   \* the cancel_all request of stop()
  arrived,      \* bound: events that ever arrived, per queue
  evented,      \* history: tokens a book event was handled for
  busyAtStop,   \* history: apply() was running when stop() was called
  late          \* history: book events taken while _running was False

loopOnly == <<running, booted, exited, books, fills, consumer, registry, gatewayUp,
              stopAt, killSwitch, arrived, evented, busyAtStop, late>>

loopVars == <<actorVars, loopOnly>>

-----------------------------------------------------------------------------
LoopInit ==
  /\ ActorInit
  /\ running = FALSE
  /\ booted = FALSE
  /\ exited = FALSE
  /\ books = <<>>
  /\ fills = 0
  /\ consumer = [book |-> "off", fill |-> "off"]
  /\ registry = {}
  /\ gatewayUp = FALSE
  /\ stopAt = "none"
  /\ killSwitch = "none"
  /\ arrived = [book |-> 0, fill |-> 0]
  /\ evented = {}
  /\ busyAtStop = FALSE
  /\ late = 0

\* Mutant of LoopTop: "while True".
LoopAlways == "get"

\* "while self._running": a consumer that is done with an event goes back to
\* the queue or leaves its loop.
LoopTop == IF running THEN "get" ELSE "ended"

\* From the last await of the startup sequence to the event loop, in one step.
\* stop() may have run meanwhile: start() does not look.
Boot ==
  /\ ~booted /\ ~exited
  /\ booted' = TRUE
  /\ running' = TRUE
  /\ gatewayUp' = TRUE
  /\ consumer' = [book |-> "get", fill |-> "get"]
  /\ UNCHANGED <<actorVars, exited, books, fills, registry, stopAt, killSwitch,
                 arrived, evented, busyAtStop, late>>

\* A step of the startup raises; main() calls stop(), which may reach the
\* exchange with cancel_all() if the client exists already, and exits.
BootFails ==
  /\ ~booted /\ ~exited
  /\ exited' = TRUE
  /\ live' \in {live, {}}
  /\ UNCHANGED <<trackers, pc, batch, todo, at, attempt, cancelTasks, posts, accepted,
                 running, booted, books, fills, consumer, registry, gatewayUp,
                 stopAt, killSwitch, arrived, evented, busyAtStop, late>>

\* The market gateway puts an event; at its maxsize the queue makes it wait.
BookArrives(token) ==
  /\ gatewayUp /\ ~exited
  /\ Len(books) < Capacity
  /\ arrived.book < MaxBatches
  /\ books' = Append(books, token)
  /\ arrived' = [arrived EXCEPT !.book = @ + 1]
  /\ UNCHANGED <<actorVars, running, booted, exited, fills, consumer, registry,
                 gatewayUp, stopAt, killSwitch, evented, busyAtStop, late>>

FillArrives ==
  /\ gatewayUp /\ ~exited
  /\ arrived.fill < MaxFills
  /\ fills' = fills + 1
  /\ arrived' = [arrived EXCEPT !.fill = @ + 1]
  /\ UNCHANGED <<actorVars, running, booted, exited, books, consumer, registry,
                 gatewayUp, stopAt, killSwitch, evented, busyAtStop, late>>

\* _on_scanner_update: the registry becomes the selected markets, all of them
\* accepting orders.  Orders of a token that left it are not touched.
ScannerUpdate(selected) ==
  /\ gatewayUp /\ ~exited
  /\ registry' = selected
  /\ UNCHANGED <<actorVars, running, booted, exited, books, fills, consumer,
                 gatewayUp, stopAt, killSwitch, arrived, evented, busyAtStop, late>>

-----------------------------------------------------------------------------
\* Mutant of Confirmed: the diff sees the orders of every token.
ConfirmedOfAll(token) == SetToSeq(RecoveredOrders)

\* The confirmed orders diffed against, those of the event's token only.
Confirmed(token) == Recovered[token]

\* risk_check of each placement, against a RiskState() made for this event.
PassingPlaces(places) ==
  {i \in DOMAIN places : RiskCheck(places[i], places[i].token \in registry, FreshRiskState)}

\* Mutant of SafeMutations: the gate forgets the cancels.
PlacesOnly(desired, token) ==
  LET m == Diff(desired, Confirmed(token))
  IN  [cancels |-> {}, places |-> Gated(m, PassingPlaces(m.places)).places]

SafeMutations(desired, token) ==
  LET m == Diff(desired, Confirmed(token))
  IN  Gated(m, PassingPlaces(m.places))

IsEmpty(m) == m.cancels = {} /\ DOMAIN m.places = {}

\* Mutant of HandleBook: apply() is started as a task and not awaited.
HandleBookDetached(token) ==
  /\ consumer' = [consumer EXCEPT !.book = LoopTop]
  /\ \/ token \notin registry /\ UNCHANGED <<actorVars, evented>>
     \/ /\ token \in registry
        /\ evented' = evented \cup {token}
        /\ \E desired \in Quotes[token] : Apply(token, SafeMutations(desired, token))

\* The rest of _handle_book_event once the event is taken: the token may be
\* unknown, the mutations none, or apply() is called and may suspend.
HandleBook(token) ==
  \/ /\ token \notin registry
     /\ consumer' = [consumer EXCEPT !.book = LoopTop]
     /\ UNCHANGED <<actorVars, evented>>
  \/ /\ token \in registry
     /\ evented' = evented \cup {token}
     /\ \E desired \in Quotes[token] :
          LET m == SafeMutations(desired, token)
          IN  \/ /\ IsEmpty(m)
                 /\ consumer' = [consumer EXCEPT !.book = LoopTop]
                 /\ UNCHANGED actorVars
              \/ /\ Apply(token, m)
                 /\ consumer' = [consumer EXCEPT !.book =
                                   IF pc' = "idle" THEN LoopTop ELSE "handling"]

\* book_queue.get() returns; the loop looked at _running before it waited.
TakeBook ==
  /\ ~exited
  /\ consumer.book = "get"
  /\ books # <<>>
  /\ books' = Tail(books)
  /\ late' = IF running THEN late ELSE late + 1
  /\ HandleBook(Head(books))
  /\ UNCHANGED <<running, booted, exited, fills, registry, gatewayUp, stopAt,
                 killSwitch, arrived, busyAtStop>>

\* The apply() call goes on; an exception in it ends the consumer task, and
\* gather(return_exceptions=True) keeps that to itself.
ResumeApply ==
  /\ ~exited
  /\ consumer.book = "handling"
  /\ Resume
  /\ consumer' = [consumer EXCEPT !.book = CASE pc' = "idle" -> LoopTop
                                             [] pc' = "raised" -> "ended"
                                             [] OTHER -> "handling"]
  /\ UNCHANGED <<running, booted, exited, books, fills, registry, gatewayUp, stopAt,
                 killSwitch, arrived, evented, busyAtStop, late>>

\* _handle_fill_event awaits the fee refetch, whose errors are caught.
TakeFill ==
  /\ ~exited
  /\ consumer.fill = "get"
  /\ fills > 0
  /\ fills' = fills - 1
  /\ consumer' = [consumer EXCEPT !.fill = "handling"]
  /\ UNCHANGED <<actorVars, running, booted, exited, books, registry, gatewayUp,
                 stopAt, killSwitch, arrived, evented, busyAtStop, late>>

\* Mutant of FillHandled: the fee refetch never ends once stop() closes the client.
FillHandledWhileRunning ==
  /\ ~exited /\ running
  /\ consumer.fill = "handling"
  /\ consumer' = [consumer EXCEPT !.fill = LoopTop]
  /\ UNCHANGED <<actorVars, running, booted, exited, books, fills, registry, gatewayUp,
                 stopAt, killSwitch, arrived, evented, busyAtStop, late>>

FillHandled ==
  /\ ~exited
  /\ consumer.fill = "handling"
  /\ consumer' = [consumer EXCEPT !.fill = LoopTop]
  /\ UNCHANGED <<actorVars, running, booted, exited, books, fills, registry, gatewayUp,
                 stopAt, killSwitch, arrived, evented, busyAtStop, late>>

\* start() returns when both consumers are done, and asyncio.run() cancels
\* every task that is left, stop() and the unawaited cancels among them.
Exit ==
  /\ ~exited
  /\ consumer.book = "ended" /\ consumer.fill = "ended"
  /\ exited' = TRUE
  /\ gatewayUp' = FALSE
  /\ UNCHANGED <<actorVars, running, booted, books, fills, consumer, registry,
                 stopAt, killSwitch, arrived, evented, busyAtStop, late>>

-----------------------------------------------------------------------------
\* A signal arrives (bound: one) and stop() runs up to its first await.  The client is
\* built in the same stretch of start() as the event loop is entered, with no await
\* in between that suspends: a signal before that finds nothing to cancel with.
StopCalled ==
  /\ ~exited
  /\ stopAt = "none"
  /\ running' = FALSE
  /\ stopAt' = IF booted THEN "cancel_all" ELSE "grace"
  /\ killSwitch' = IF booted THEN "sent" ELSE "none"
  /\ busyAtStop' = (pc # "idle" /\ pc # "raised")
  /\ UNCHANGED <<actorVars, booted, exited, books, fills, consumer, registry, gatewayUp,
                 arrived, evented, late>>

\* The exchange cancels everything; the worker thread gets there even if the
\* five seconds of wait_for are over or the process is on its way out.
KillTakesEffect ==
  /\ killSwitch = "sent"
  /\ killSwitch' = "effective"
  /\ live' = {}
  /\ UNCHANGED <<trackers, pc, batch, todo, at, attempt, cancelTasks, posts, accepted,
                 running, booted, exited, books, fills, consumer, registry, gatewayUp,
                 stopAt, arrived, evented, busyAtStop, late>>

\* cancel_all() returned, raised or timed out; the exception is swallowed.
CancelAllReturns ==
  /\ ~exited
  /\ stopAt = "cancel_all"
  /\ stopAt' = "grace"
  /\ killSwitch' \in (IF killSwitch = "sent" THEN {"sent", "failed"} ELSE {killSwitch})
  /\ UNCHANGED <<actorVars, running, booted, exited, books, fills, consumer, registry,
                 gatewayUp, arrived, evented, busyAtStop, late>>

\* After the half second the background tasks are cancelled, the gateways'
\* connect() loops among them; the consumers are not background tasks.
CancelBackgroundTasks ==
  /\ ~exited
  /\ stopAt = "grace"
  /\ stopAt' = "closing"
  /\ gatewayUp' = FALSE
  /\ UNCHANGED <<actorVars, running, booted, exited, books, fills, consumer, registry,
                 killSwitch, arrived, evented, busyAtStop, late>>

StopReturns ==
  /\ ~exited
  /\ stopAt = "closing"
  /\ stopAt' = "stopped"
  /\ UNCHANGED <<actorVars, running, booted, exited, books, fills, consumer, registry,
                 gatewayUp, killSwitch, arrived, evented, busyAtStop, late>>

Stop == CancelAllReturns \/ CancelBackgroundTasks \/ StopReturns

\* The exchange's own steps, and those of the unawaited cancel tasks.
Environment ==
  /\ Exchange \/ \E t \in Tokens : WindowAges(t)
  /\ UNCHANGED loopOnly

LoopNext ==
  \/ Boot \/ BootFails \/ FillArrives \/ TakeBook \/ ResumeApply \/ TakeFill
  \/ FillHandled \/ Exit \/ StopCalled \/ KillTakesEffect \/ Stop \/ Environment
  \/ \E t \in Tokens : BookArrives(t)
  \/ \E selected \in SUBSET Tokens : ScannerUpdate(selected)

\* Every task that can run is run by the event loop, and every await of the
\* consumers and of stop() ends.  Nothing makes events or signals arrive.
LoopSpec ==
  /\ LoopInit /\ [][LoopNext]_loopVars
  /\ WF_loopVars(Boot \/ BootFails)
  /\ WF_loopVars(TakeBook \/ ResumeApply)
  /\ WF_loopVars(TakeFill \/ FillHandled)
  /\ WF_loopVars(Stop)
  /\ WF_loopVars(Exit)

-----------------------------------------------------------------------------
TaskStates == {"off", "get", "handling", "ended"}

\* Types, and the book consumer is where the apply() call it made is.
LoopTypeOK ==
  /\ running \in BOOLEAN /\ exited \in BOOLEAN /\ gatewayUp \in BOOLEAN
  /\ books \in Seq(Tokens) /\ Len(books) <= Capacity
  /\ fills \in 0..MaxFills
  /\ consumer \in [book : TaskStates, fill : TaskStates]
  /\ registry \subseteq Tokens
  /\ stopAt \in {"none", "cancel_all", "grace", "closing", "stopped"}
  /\ killSwitch \in {"none", "sent", "effective", "failed"}
  /\ consumer.book = "off" <=> ~booted
  /\ consumer.book = "handling" <=> pc \notin {"idle", "raised"}
  /\ pc = "raised" => consumer.book = "ended"

\* The whole loop, with its startup and its shutdown, drives the exchange in no
\* way ExecutionActor does not: apply() is never entered twice, and a cancel_all
\* is to it one more way for orders to leave.
ImplementsActor == ActorInit /\ [][Next]_actorVars

\* Once stop() has cleared _running at most one more book event is acted on, the
\* one _consume_book was already waiting for, and none if it was busy.
OneMoreEvent == late + (IF busyAtStop THEN 1 ELSE 0) <= 1

\* An order is only cancelled by an event of its own token: the diff sees no
\* other token's orders, although the ledger holds those of all tokens.
CancelsOwnToken ==
  \A o \in batch.cancels \cup UNION {task.orders : task \in cancelTasks} :
    o.token \in evented

\* No book event waits for ever: whatever apply() meets for the events before
\* it, each one that arrives is taken, unless the consumer task has died or left.
EveryEventTaken ==
  \A n \in 1..MaxBatches :
    arrived.book >= n ~> arrived.book - Len(books) >= n \/ consumer.book = "ended" \/ exited

\* polymarket-bot-prd.md:615 (FR-211): the kill switch cancels "all open orders";
\* :698: "cancel_all() before exit".
NothingOpenAfterShutdown ==
  stopAt = "stopped" /\ killSwitch = "effective" => live = {}

\* core/orchestrator.py:429: "Consume events from all queues until _running is
\* False."  After stop() the process leaves, unless a consumer is left waiting for an
\* event that nothing sends any more: neither a batch under way nor the order in which
\* the consumers and stop() get to run keeps it.
ExitsUnlessWaiting ==
  booted /\ ~running ~>
    \/ exited
    \/ consumer.book = "get" /\ books = <<>>
    \/ consumer.fill = "get" /\ fills = 0
=============================================================================
