--------------------------- MODULE ExecutionActor ---------------------------
(***************************************************************************)
(* core/execution/execution_actor.py, class ExecutionActor: apply() sends  *)
(* one batch of mutations to the exchange, the cancels first and then the  *)
(* placements one after the other.  Between two awaits the exchange and    *)
(* the cancel tasks that apply() does not wait for make steps of their     *)
(* own.  DRY_RUN is off: with it no request leaves the process.            *)
(*                                                                         *)
(* An order id is a triple <<batch, position, attempt>> naming the request *)
(* that created it; the orders recovered at startup have batch 0.          *)
(***************************************************************************)
EXTENDS OrderDiff

CONSTANTS
  Tokens,        \* the token ids quoted
  TickOf,        \* market.tick_size of each token
  Quotes,        \* the Desired lists the quote engine may state for a token
  Recovered,     \* the confirmed orders of each token, in ledger order
  Attempts,      \* len(_RETRY_DELAYS_S)
  ThresholdPct,  \* settings.CANCEL_CONFIRM_THRESHOLD_PCT
  MaxBatches     \* bound: calls of apply() in a behaviour

ASSUME ActorAssumption ==
  /\ Attempts \in Nat \ {0}
  /\ ThresholdPct \in Nat
  /\ MaxBatches \in Nat
  /\ \A t \in Tokens :
       /\ Quotes[t] \subseteq Seq([token : {t}, side : {"BUY", "SELL"}, price : Int,
                                  tick : {TickOf[t]}, terms : STRING])
       /\ \A o \in ToSet(Recovered[t]) : o.id[1] = 0 /\ o.token = t

VARIABLES
  trackers,     \* _trackers: rejection statistics of each token
  pc,           \* where the running apply() is suspended
  batch,        \* the batch apply() was called with
  todo,         \* positions of the placements not started yet
  at,           \* position of the placement in progress
  attempt,      \* attempt of _place_with_retry in progress
  cancelTasks,  \* cancel requests nobody awaits (asyncio.ensure_future)
  posts,        \* post_order requests the exchange or the client is not done with
  live,         \* exchange: the open orders of this account
  accepted      \* history: ids of the orders the exchange ever accepted here

actorVars == <<trackers, pc, batch, todo, at, attempt, cancelTasks, posts, live, accepted>>

-----------------------------------------------------------------------------
\* The placements of m that the risk gate lets through; it drops no cancel.
Gated(m, passed) == [cancels |-> m.cancels, places |-> Restrict(m.places, passed)]

\* The batches the orchestrator makes for a token: diff(), then the risk gate,
\* which judges every placement by itself.
Batches(token) ==
  UNION {{Gated(m, passed) : passed \in SUBSET DOMAIN m.places} :
           m \in {Diff(desired, Recovered[token]) : desired \in Quotes[token]}}

\* Everything the ledger recovered, over all tokens.
RecoveredOrders == UNION {ToSet(Recovered[t]) : t \in Tokens}

(* _MarketRejectionTracker.  `old' says that 60 seconds have passed since   *)
(* the window started; the next record_* call then rolls the window.        *)
FreshTracker ==
  [placements |-> 0, rejections |-> 0, old |-> FALSE, confirmCancel |-> FALSE]

MaybeRoll(t) ==
  IF t.old THEN [FreshTracker EXCEPT !.confirmCancel = t.confirmCancel] ELSE t

\* Mutant of RecordPlacement: the placement is not counted before it is posted.
RecordNothing(t) == MaybeRoll(t)

RecordPlacement(t) == LET r == MaybeRoll(t) IN [r EXCEPT !.placements = @ + 1]
RecordRejection(t) == LET r == MaybeRoll(t) IN [r EXCEPT !.rejections = @ + 1]

RateAboveThreshold(t) ==
  t.placements > 0 /\ t.rejections * 100 > ThresholdPct * t.placements

UpdateConfirmCancelMode(t) == [t EXCEPT !.confirmCancel = RateAboveThreshold(t)]

-----------------------------------------------------------------------------
NoBatch ==
  [n |-> 0, cancels |-> {}, places |-> <<>>, awaited |-> FALSE]

ActorInit ==
  /\ trackers = [t \in Tokens |-> FreshTracker]
  /\ pc = "idle"
  /\ batch = NoBatch
  /\ todo = {}
  /\ at = 0
  /\ attempt = 0
  /\ cancelTasks = {}
  /\ posts = {}
  /\ live = RecoveredOrders
  /\ accepted = {}

\* apply() goes on with the next placement, or returns after the last one.
Continue(left) == IF left # {} THEN "placing" ELSE "idle"

Advance == attempt' = 0 /\ pc' = Continue(todo)

PostId == <<batch.n, at, attempt>>

Post(position, k) ==
  /\ at' = position
  /\ attempt' = k
  /\ pc' = "posting"
  /\ posts' = posts \cup {[id |-> <<batch.n, position, k>>,
                           intent |-> batch.places[position], status |-> "sent"]}

\* apply() is called with a non-empty batch for one token.  In confirm-cancel
\* mode it suspends in the cancel call; otherwise the cancel becomes a task.
Apply(token, mutations) ==
  /\ pc = "idle"
  /\ batch.n < MaxBatches
  /\ mutations.cancels # {} \/ DOMAIN mutations.places # {}
  /\ LET n       == batch.n + 1
         awaited == mutations.cancels # {} /\ trackers[token].confirmCancel
     IN  /\ batch' = [n |-> n, cancels |-> mutations.cancels,
                      places |-> mutations.places, awaited |-> awaited]
         /\ todo' = DOMAIN mutations.places
         /\ pc' = IF awaited THEN "cancelling" ELSE Continue(todo')
         /\ cancelTasks' = IF mutations.cancels # {} /\ ~awaited
                           THEN cancelTasks \cup {[n |-> n, orders |-> mutations.cancels]}
                           ELSE cancelTasks
  /\ attempt' = 0
  /\ UNCHANGED <<trackers, at, posts, live, accepted>>

\* The awaited batch cancel succeeds.
CancelReturns ==
  /\ pc = "cancelling"
  /\ live' = live \ batch.cancels
  /\ pc' = Continue(todo)
  /\ UNCHANGED <<trackers, batch, todo, at, attempt, cancelTasks, posts, accepted>>

\* The awaited batch cancel raises, before or after it took effect; nothing in
\* apply() catches it and the placements are not sent.
CancelRaises ==
  /\ pc = "cancelling"
  /\ live' \in {live, live \ batch.cancels}
  /\ pc' = "raised"
  /\ UNCHANGED <<trackers, batch, todo, at, attempt, cancelTasks, posts, accepted>>

\* A cancel nobody awaits reaches the exchange, or fails and nobody notices.
BackgroundCancel(task) ==
  /\ cancelTasks' = cancelTasks \ {task}
  /\ live' \in {live, live \ task.orders}
  /\ UNCHANGED <<trackers, pc, batch, todo, at, attempt, posts, accepted>>

\* _place_with_retry starts on the next intent: the placement is counted once,
\* then posted.
BeginPlacement ==
  /\ pc = "placing"
  /\ \E k \in todo :
       /\ \A j \in todo : k <= j
       /\ todo' = todo \ {k}
       /\ trackers' = [trackers EXCEPT ![batch.places[k].token] = RecordPlacement(@)]
       /\ Post(k, 1)
  /\ UNCHANGED <<batch, cancelTasks, live, accepted>>

\* The exchange takes a request; the caller may have given up on it already.
Answered(p, status) ==
  IF pc = "posting" /\ p.id = PostId
  THEN (posts \ {p}) \cup {[id |-> p.id, intent |-> p.intent, status |-> status]}
  ELSE posts \ {p}

OrderOf(p) ==
  [id |-> p.id, token |-> p.intent.token, side |-> p.intent.side,
   price |-> p.intent.price, terms |-> p.intent.terms]

ExchangeAccepts(p) ==
  /\ p.status = "sent"
  /\ posts' = Answered(p, "accepted")
  /\ live' = live \cup {OrderOf(p)}
  /\ accepted' = accepted \cup {p.id}
  /\ UNCHANGED <<trackers, pc, batch, todo, at, attempt, cancelTasks>>

ExchangeRejects(p, why) ==
  /\ p.status = "sent"
  /\ posts' = Answered(p, why)
  /\ UNCHANGED <<trackers, pc, batch, todo, at, attempt, cancelTasks, live, accepted>>

\* The response arrives with an order id.
PlacementSucceeds(p) ==
  /\ pc = "posting" /\ p.id = PostId /\ p.status = "accepted"
  /\ trackers' = [trackers EXCEPT ![p.intent.token] = UpdateConfirmCancelMode(@)]
  /\ posts' = posts \ {p}
  /\ Advance
  /\ UNCHANGED <<batch, todo, at, cancelTasks, live, accepted>>

\* "duplicate" or "already exists": counted, then slept on before the retry.
PlacementDuplicate(p) ==
  /\ pc = "posting" /\ p.id = PostId /\ p.status = "duplicate"
  /\ trackers' = [trackers EXCEPT
                    ![p.intent.token] = UpdateConfirmCancelMode(RecordRejection(@))]
  /\ posts' = posts \ {p}
  /\ pc' = "backoff"
  /\ UNCHANGED <<batch, todo, at, attempt, cancelTasks, live, accepted>>

\* Mutant of PlacementFails: whatever the exception, the placement is retried.
PlacementRetried(p) ==
  /\ pc = "posting" /\ p.id = PostId /\ p.status # "duplicate"
  /\ posts' = IF p.status = "sent" THEN posts ELSE posts \ {p}
  /\ pc' = "backoff"
  /\ UNCHANGED <<trackers, batch, todo, at, attempt, cancelTasks, live, accepted>>

\* Any other exception: a refusal, or a timeout that says nothing of what the
\* exchange did or will do with the request.  No retry, no mode update.
PlacementFails(p) ==
  /\ pc = "posting" /\ p.id = PostId /\ p.status # "duplicate"
  /\ posts' = IF p.status = "sent" THEN posts ELSE posts \ {p}
  /\ Advance
  /\ UNCHANGED <<trackers, batch, todo, at, cancelTasks, live, accepted>>

\* Mutant of Retry: an attempt that is not counted.
RetryUncounted ==
  /\ pc = "backoff"
  /\ Post(at, attempt)
  /\ UNCHANGED <<trackers, batch, todo, cancelTasks, live, accepted>>

\* The sleep ends; after the last attempt the placement is given up.
Retry ==
  /\ pc = "backoff"
  /\ attempt < Attempts
  /\ Post(at, attempt + 1)
  /\ UNCHANGED <<trackers, batch, todo, cancelTasks, live, accepted>>

GiveUp ==
  /\ pc = "backoff"
  /\ attempt = Attempts
  /\ Advance
  /\ UNCHANGED <<trackers, batch, todo, at, cancelTasks, posts, live, accepted>>

\* Sixty seconds have passed since the window of a token started.
WindowAges(t) ==
  /\ ~trackers[t].old
  /\ trackers[t].placements + trackers[t].rejections > 0
  /\ trackers' = [trackers EXCEPT ![t].old = TRUE]
  /\ UNCHANGED <<pc, batch, todo, at, attempt, cancelTasks, posts, live, accepted>>

\* Orders are filled, expire, or are cancelled by somebody else: cancel_all(),
\* the platform when it misses a heartbeat.
OrdersLeave(gone) ==
  /\ gone # {}
  /\ live' = live \ gone
  /\ UNCHANGED <<trackers, pc, batch, todo, at, attempt, cancelTasks, posts, accepted>>

\* What goes on while apply() is suspended or nobody calls it.
Exchange ==
  \/ \E task \in cancelTasks : BackgroundCancel(task)
  \/ \E p \in posts : ExchangeAccepts(p)
  \/ \E p \in posts, why \in {"duplicate", "refused"} : ExchangeRejects(p, why)
  \/ \E gone \in SUBSET live : OrdersLeave(gone)

\* The steps of the apply() call in progress.
Resume ==
  \/ CancelReturns \/ CancelRaises \/ BeginPlacement \/ Retry \/ GiveUp
  \/ \E p \in posts : PlacementSucceeds(p) \/ PlacementDuplicate(p) \/ PlacementFails(p)

Next ==
  \/ \E t \in Tokens : \E m \in Batches(t) : Apply(t, m)
  \/ Resume
  \/ Exchange
  \/ \E t \in Tokens : WindowAges(t)

\* Every await of apply() ends: the HTTP client answers or times out, a sleep
\* is over.  Nothing makes the exchange act or the window age.
Spec == ActorInit /\ [][Next]_actorVars /\ WF_actorVars(Resume)

-----------------------------------------------------------------------------
Statuses == {"sent", "accepted", "duplicate", "refused"}

Tracker ==
  [placements : Nat, rejections : Nat, old : BOOLEAN, confirmCancel : BOOLEAN]

\* Types, and where apply() is suspended against what it is waiting for.
TypeOK ==
  /\ trackers \in [Tokens -> Tracker]
  /\ pc \in {"idle", "cancelling", "placing", "posting", "backoff", "raised"}
  /\ batch.n \in Nat /\ attempt \in 0..Attempts
  /\ todo \subseteq DOMAIN batch.places
  /\ pc = "placing" => todo # {}
  /\ pc \in {"posting", "backoff"} => at \in DOMAIN batch.places \ todo
  /\ pc \in {"posting", "backoff"} => attempt \in 1..Attempts
  /\ pc \in {"cancelling", "raised"} => batch.awaited
  /\ \A p \in posts : p.status \in Statuses

\* However a placement is retried, refused, answered late or never answered,
\* the exchange accepts at most one order for each intent of each batch: only a
\* duplicate-id rejection is retried, and that one left no order behind.
OneOrderPerIntent ==
  \A a, b \in accepted : a[1] = b[1] /\ a[2] = b[2] => a = b

Crosses(a, b) ==
  a.token = b.token /\ a.side # b.side /\ WithinTick(a.price, b.price, TickOf[a.token])

\* In confirm-cancel mode no recovered order within a tick on the other side is
\* still open when an order of the batch rests: the diff found it and the
\* cancel was waited for.
NoCrossWhenAwaited ==
  batch.awaited =>
    \A r, o \in live : r.id[1] = 0 /\ o.id[1] = batch.n => ~Crosses(r, o)

\* The counters of a window stay in proportion although a window may roll
\* between a placement and its rejections: the rate never exceeds
\* 100 * Attempts * (1 + 1 / placements) percent.
RejectionsBounded ==
  \A t \in Tokens :
    trackers[t].rejections <= Attempts * (trackers[t].placements + 1)
=============================================================================
