---------------------------- MODULE ExecutionProofs ----------------------------
(***************************************************************************)
(* Proofs about core/execution and the loop of core/orchestrator.py: what  *)
(* apply() does to the exchange (ExecutionActor), what the process around  *)
(* it adds (QuoteLoop, which refines ExecutionActor step by step, so that  *)
(* what is shown of apply() alone holds of the whole process), and what    *)
(* diff() comes to when it is repeated (DiffRounds).                       *)
(***************************************************************************)
EXTENDS QuoteLoop, DiffRounds, FiniteSetTheorems, WellFoundedInduction, TLAPS

(***************************************************************************)
(* apply() alone, for every set of tokens, every quote, every recovered    *)
(* book, every number of attempts and batches: ExecutionActor.             *)
(*                                                                         *)
(* OneOrderPerIntent is not inductive: that a retry is safe depends on     *)
(* what the requests still in flight may become.  PlacementInv adds that a *)
(* placement has at most one request that is not settled, that a settled   *)
(* one has no other, and that nothing was ever sent for a placement that   *)
(* is still to do or is sleeping before its retry.                         *)
(***************************************************************************)
\* Two request ids that belong to the same intent of the same batch.
SamePlacement(a, b) == a[1] = b[1] /\ a[2] = b[2]

\* Nothing was sent for position k of the running batch, or all of it failed.
Unsent(k) ==
  /\ \A p \in posts : ~(p.id[1] = batch.n /\ p.id[2] = k)
  /\ \A a \in accepted : ~(a[1] = batch.n /\ a[2] = k)

PlacementInv ==
  /\ \A p, q \in posts : SamePlacement(p.id, q.id) => p = q
  /\ \A p \in posts, a \in accepted : SamePlacement(p.id, a) => p.status = "accepted"
  /\ OneOrderPerIntent
  /\ \A k \in todo : Unsent(k)
  /\ pc \in {"posting", "backoff"} => at \notin todo
  /\ pc = "backoff" => Unsent(at)
  /\ batch.n \in Nat
  /\ \A p \in posts : p.id[1] \in Nat /\ p.id[1] <= batch.n
  /\ \A a \in accepted : a[1] \in Nat /\ a[1] <= batch.n

LEMMA PlacementInit == ActorInit => PlacementInv
  BY DEF ActorInit, PlacementInv, OneOrderPerIntent, NoBatch, Unsent

\* A request added for a placement nothing was sent for.
LEMMA PostPlacement ==
  ASSUME PlacementInv, NEW position, NEW k, Unsent(position), Post(position, k),
         todo' = todo \ {position}, UNCHANGED <<batch, accepted>>
  PROVE  PlacementInv'
  BY DEF PlacementInv, Post, Unsent, SamePlacement, OneOrderPerIntent

LEMMA PlacementStep == PlacementInv /\ [Next]_actorVars => PlacementInv'
<1> SUFFICES ASSUME PlacementInv, [Next]_actorVars PROVE PlacementInv'
  OBVIOUS
<1> USE DEF PlacementInv, OneOrderPerIntent, SamePlacement, Unsent
<1>1. ASSUME NEW t \in Tokens, NEW m \in Batches(t), Apply(t, m) PROVE PlacementInv'
  BY <1>1 DEF Apply, Continue
<1>2. CASE CancelReturns
  BY <1>2 DEF CancelReturns, Continue
<1>3. CASE CancelRaises
  BY <1>3 DEF CancelRaises
<1>4. CASE BeginPlacement
  BY <1>4, PostPlacement DEF BeginPlacement
<1>5. CASE Retry
  BY <1>5, PostPlacement DEF Retry
<1>6. CASE GiveUp
  BY <1>6 DEF GiveUp, Advance, Continue
<1>7. ASSUME NEW p \in posts, PlacementSucceeds(p) PROVE PlacementInv'
  BY <1>7 DEF PlacementSucceeds, Advance, Continue
<1>8. ASSUME NEW p \in posts, PlacementDuplicate(p) PROVE PlacementInv'
  BY <1>8 DEF PlacementDuplicate, PostId
<1>9. ASSUME NEW p \in posts, PlacementFails(p) PROVE PlacementInv'
  BY <1>9 DEF PlacementFails, Advance, Continue
<1>10. ASSUME NEW task \in cancelTasks, BackgroundCancel(task) PROVE PlacementInv'
  BY <1>10 DEF BackgroundCancel
<1>11. ASSUME NEW p \in posts, ExchangeAccepts(p) PROVE PlacementInv'
  BY <1>11 DEF ExchangeAccepts, Answered, PostId
<1>12. ASSUME NEW p \in posts, NEW why \in {"duplicate", "refused"}, ExchangeRejects(p, why)
       PROVE PlacementInv'
  BY <1>12 DEF ExchangeRejects, Answered, PostId
<1>13. ASSUME NEW t \in Tokens, WindowAges(t) PROVE PlacementInv'
  BY <1>13 DEF WindowAges
<1>14. ASSUME NEW gone \in SUBSET live, OrdersLeave(gone) PROVE PlacementInv'
  BY <1>14 DEF OrdersLeave
<1>15. CASE UNCHANGED actorVars
  BY <1>15 DEF actorVars
<1> QED
  BY <1>1, <1>2, <1>3, <1>4, <1>5, <1>6, <1>7, <1>8, <1>9, <1>10, <1>11, <1>12,
     <1>13, <1>14, <1>15 DEF Next, Resume, Exchange

\* The exchange accepts at most one order for each intent of each batch
\* (ExecutionActor.apply, _place_with_retry), whatever is retried or times out.
THEOREM OneOrderPerIntentHolds == Spec => []OneOrderPerIntent
<1>1. PlacementInv => OneOrderPerIntent
  BY DEF PlacementInv
<1> QED
  BY <1>1, PlacementInit, PlacementStep, PTL DEF Spec

-----------------------------------------------------------------------------
(***************************************************************************)
(* Types, and the confirm-cancel mode.  NoCrossWhenAwaited needs to know   *)
(* what the diff guarantees of the batch (BatchInv) and that nothing but   *)
(* the batch's own intents can come to rest under its number (LiveInv).    *)
(***************************************************************************)

\* FR-210a as diff() computes it (core/execution/execution_actor.py:167): a confirmed
\* order within a tick of an opposite placement is among the cancels, kept by some
\* intent or not, for any lists of intents and orders.
THEOREM DiffCancelsCrossed ==
  ASSUME NEW desired, NEW confirmed, NEW o \in ToSet(confirmed),
         NEW i \in DOMAIN Diff(desired, confirmed).places,
         Opposes(o, Diff(desired, confirmed).places[i]),
         WithinTick(o.price, Diff(desired, confirmed).places[i].price, desired[1].tick)
  PROVE  o \in Diff(desired, confirmed).cancels
  BY DEF Diff, NoLongerDesired, SelfCross, Range

\* The placements of diff() are intents of Desired, its cancels confirmed orders.
LEMMA DiffMutations ==
  ASSUME NEW desired, NEW confirmed
  PROVE  /\ Diff(desired, confirmed).cancels \subseteq ToSet(confirmed)
         /\ \A i \in DOMAIN Diff(desired, confirmed).places :
              /\ i \in DOMAIN desired
              /\ Diff(desired, confirmed).places[i] = desired[i]
<1>1. Diff(desired, confirmed).cancels \subseteq ToSet(confirmed)
  BY DEF Diff, NoLongerDesired, SelfCross, Matched, ToSet
<1>2. DesiredToPlace(desired, confirmed) =
        [i \in DOMAIN DesiredToPlace(desired, confirmed) |-> desired[i]]
  BY DEF DesiredToPlace
<1>3. DOMAIN DesiredToPlace(desired, confirmed) \subseteq DOMAIN desired
  BY DEF DesiredToPlace
<1> QED
  BY <1>1, <1>2, <1>3 DEF Diff

BatchInv ==
  /\ batch.n \in Nat
  /\ batch.awaited \in BOOLEAN
  /\ batch.n = 0 => ~batch.awaited
  /\ batch.cancels \subseteq RecoveredOrders
  /\ \A i \in DOMAIN batch.places :
       /\ batch.places[i].token \in Tokens
       /\ \A r \in RecoveredOrders \ batch.cancels : ~Crosses(r, batch.places[i])

LiveInv ==
  /\ \A o \in live : /\ o.id[1] \in 0..batch.n
                     /\ o.id[1] = 0 => o \in RecoveredOrders
                     /\ o.id[1] = batch.n /\ batch.n # 0 =>
                          \E i \in DOMAIN batch.places :
                            /\ o.token = batch.places[i].token
                            /\ o.side = batch.places[i].side
                            /\ o.price = batch.places[i].price
  /\ \A p \in posts : /\ p.id[1] \in 1..batch.n
                      /\ p.id[1] = batch.n =>
                           /\ p.id[2] \in DOMAIN batch.places
                           /\ p.intent = batch.places[p.id[2]]
  /\ batch.awaited /\ pc \notin {"cancelling", "raised"} => batch.cancels \cap live = {}
  /\ pc \in {"cancelling", "raised"} =>
       /\ \A o \in live : o.id[1] # batch.n
       /\ \A p \in posts : p.id[1] # batch.n
  /\ pc \in {"placing", "posting", "backoff"} => batch.n # 0

LEMMA BatchStep == BatchInv /\ [Next]_actorVars => BatchInv'
<1> SUFFICES ASSUME BatchInv, [Next]_actorVars PROVE BatchInv'
  OBVIOUS
<1>1. ASSUME NEW t \in Tokens, NEW m \in Batches(t), Apply(t, m) PROVE BatchInv'
  <2>1. PICK desired \in Quotes[t] :
          \E passed \in SUBSET DOMAIN Diff(desired, Recovered[t]).places :
            m = Gated(Diff(desired, Recovered[t]), passed)
    BY DEF Batches
  <2> DEFINE d == Diff(desired, Recovered[t])
  <2>0. /\ m.cancels = d.cancels
        /\ \A i \in DOMAIN m.places : i \in DOMAIN d.places /\ m.places[i] = d.places[i]
    BY <2>1 DEF Gated, Restrict
  <2>2. /\ batch'.n = batch.n + 1 /\ batch'.awaited \in BOOLEAN
        /\ batch'.cancels = m.cancels /\ batch'.places = m.places
    BY <1>1 DEF Apply
  <2>3. batch'.cancels \subseteq RecoveredOrders
    BY <2>0, <2>2, DiffMutations DEF RecoveredOrders
  <2>4. ASSUME NEW i \in DOMAIN m.places
        PROVE  /\ m.places[i].token = t
               /\ \A r \in RecoveredOrders \ m.cancels : ~Crosses(r, m.places[i])
    <3>1. i \in DOMAIN desired /\ m.places[i] = desired[i]
      BY <2>0, <2>4, DiffMutations
    <3>2. desired \in Seq([token : {t}, side : {"BUY", "SELL"}, price : Int,
                          tick : {TickOf[t]}, terms : STRING])
      BY <2>1, ActorAssumption
    <3>3. desired[i].token = t /\ desired[1].tick = TickOf[t]
      <4> DEFINE Intent == [token : {t}, side : {"BUY", "SELL"}, price : Int,
                            tick : {TickOf[t]}, terms : STRING]
      <4>0. desired \in Seq(Intent)
        BY <3>2
      <4> HIDE DEF Intent
      <4>1. desired \in [1..Len(desired) -> Intent] /\ Len(desired) \in Nat
        BY <4>0
      <4>2. i \in 1..Len(desired) /\ 1 \in 1..Len(desired)
        BY <3>1, <4>1
      <4>3. desired[i] \in Intent /\ desired[1] \in Intent
        BY <4>1, <4>2
      <4> QED
        BY <4>3 DEF Intent
    <3>4. ASSUME NEW r \in RecoveredOrders, Crosses(r, m.places[i])
          PROVE  r \in m.cancels
      <4>1. PICK u \in Tokens : r \in ToSet(Recovered[u])
        BY DEF RecoveredOrders
      <4>2. r.token = u
        BY <4>1, ActorAssumption
      <4>3. u = t
        BY <4>2, <3>4, <3>1, <3>3 DEF Crosses
      <4>4. Opposes(r, m.places[i])
        BY <3>4 DEF Crosses, Opposes
      <4>5. WithinTick(r.price, m.places[i].price, desired[1].tick)
        BY <3>4, <3>3, <4>2, <4>3 DEF Crosses
      <4> QED
        BY <2>0, <4>1, <4>3, <4>4, <4>5, <2>4, DiffCancelsCrossed
    <3> QED
      BY <3>1, <3>3, <3>4
  <2> QED
    BY <2>2, <2>3, <2>4 DEF BatchInv
<1>2. CASE UNCHANGED batch
  BY <1>2 DEF BatchInv, RecoveredOrders, Crosses
<1> QED
  BY <1>1, <1>2 DEF Next, actorVars, Resume, Exchange, CancelReturns, CancelRaises,
     BeginPlacement, Retry, GiveUp, PlacementSucceeds, PlacementDuplicate,
     PlacementFails, BackgroundCancel, ExchangeAccepts, ExchangeRejects, OrdersLeave,
     WindowAges

\* The operations on the rejection statistics keep their type.
LEMMA TrackerTypes ==
  ASSUME NEW x \in Tracker
  PROVE  /\ RecordPlacement(x) \in Tracker
         /\ RecordRejection(x) \in Tracker
         /\ UpdateConfirmCancelMode(x) \in Tracker
<1>1. MaybeRoll(x) \in Tracker
  BY DEF MaybeRoll, FreshTracker, Tracker
<1>2. RecordPlacement(x) \in Tracker /\ RecordRejection(x) \in Tracker
  BY <1>1 DEF RecordPlacement, RecordRejection, Tracker
<1>3. RateAboveThreshold(x) \in BOOLEAN
  BY DEF RateAboveThreshold
<1>4. UpdateConfirmCancelMode(x) \in Tracker
  BY <1>3 DEF UpdateConfirmCancelMode, Tracker
<1> QED
  BY <1>2, <1>4

LEMMA TypeStep == TypeOK /\ BatchInv /\ [Next]_actorVars => TypeOK'
<1> SUFFICES ASSUME TypeOK, BatchInv, [Next]_actorVars PROVE TypeOK'
  OBVIOUS
<1> USE DEF TypeOK, Statuses
<1>1. ASSUME NEW t \in Tokens, NEW m \in Batches(t), Apply(t, m) PROVE TypeOK'
  <2>1. /\ batch'.n = batch.n + 1 /\ batch'.places = m.places
        /\ todo' = DOMAIN m.places /\ attempt' = 0
        /\ UNCHANGED <<trackers, posts>>
    BY <1>1 DEF Apply
  <2>2. \/ pc' = "cancelling" /\ batch'.awaited
        \/ pc' = "placing" /\ todo' # {}
        \/ pc' = "idle"
    BY <1>1 DEF Apply, Continue
  <2>3. 0 \in 0..Attempts
    BY ActorAssumption
  <2>4. trackers' \in [Tokens -> Tracker] /\ (\A p \in posts' : p.status \in Statuses)
    BY <2>1
  <2>5. batch'.n \in Nat /\ attempt' \in 0..Attempts /\ todo' \subseteq DOMAIN batch'.places
    BY <2>1, <2>3
  <2>6. /\ pc' \in {"idle", "cancelling", "placing"}
        /\ pc' = "placing" => todo' # {}
        /\ pc' = "cancelling" => batch'.awaited
    BY <2>2
  <2> QED
    BY <2>4, <2>5, <2>6
<1>2. CASE CancelReturns
  BY <1>2 DEF CancelReturns, Continue
<1>3. CASE CancelRaises
  BY <1>3 DEF CancelRaises
<1>4. CASE BeginPlacement
  <2>1. PICK k \in todo : /\ todo' = todo \ {k}
                          /\ trackers' = [trackers EXCEPT ![batch.places[k].token] =
                                             RecordPlacement(@)]
                          /\ Post(k, 1)
    BY <1>4 DEF BeginPlacement
  <2>2. batch.places[k].token \in Tokens
    BY <2>1 DEF BatchInv
  <2>3. trackers' \in [Tokens -> Tracker]
    BY <2>1, <2>2, TrackerTypes
  <2> QED
    BY <1>4, <2>1, <2>3, ActorAssumption DEF BeginPlacement, Post
<1>5. CASE Retry
  BY <1>5, ActorAssumption DEF Retry, Post
<1>6. CASE GiveUp
  BY <1>6, ActorAssumption DEF GiveUp, Advance, Continue
<1>7. ASSUME NEW p \in posts, PlacementSucceeds(p) PROVE TypeOK'
  <2>1. trackers' \in [Tokens -> Tracker]
    BY <1>7, TrackerTypes DEF PlacementSucceeds
  <2> QED
    BY <1>7, <2>1, ActorAssumption DEF PlacementSucceeds, Advance, Continue
<1>8. ASSUME NEW p \in posts, PlacementDuplicate(p) PROVE TypeOK'
  <2>1. trackers' \in [Tokens -> Tracker]
    BY <1>8, TrackerTypes DEF PlacementDuplicate
  <2> QED
    BY <1>8, <2>1 DEF PlacementDuplicate
<1>9. ASSUME NEW p \in posts, PlacementFails(p) PROVE TypeOK'
  BY <1>9, ActorAssumption DEF PlacementFails, Advance, Continue
<1>10. ASSUME NEW task \in cancelTasks, BackgroundCancel(task) PROVE TypeOK'
  BY <1>10 DEF BackgroundCancel
<1>11. ASSUME NEW p \in posts, ExchangeAccepts(p) PROVE TypeOK'
  BY <1>11 DEF ExchangeAccepts, Answered
<1>12. ASSUME NEW p \in posts, NEW why \in {"duplicate", "refused"}, ExchangeRejects(p, why)
       PROVE TypeOK'
  BY <1>12 DEF ExchangeRejects, Answered
<1>13. ASSUME NEW t \in Tokens, WindowAges(t) PROVE TypeOK'
  BY <1>13 DEF WindowAges, Tracker
<1>14. ASSUME NEW gone \in SUBSET live, OrdersLeave(gone) PROVE TypeOK'
  BY <1>14 DEF OrdersLeave
<1>15. CASE UNCHANGED actorVars
  BY <1>15 DEF actorVars
<1> QED
  BY <1>1, <1>2, <1>3, <1>4, <1>5, <1>6, <1>7, <1>8, <1>9, <1>10, <1>11, <1>12,
     <1>13, <1>14, <1>15 DEF Next, Resume, Exchange

LEMMA TypeInit == ActorInit => TypeOK /\ BatchInv
<1> SUFFICES ASSUME ActorInit PROVE TypeOK /\ BatchInv
  OBVIOUS
<1>1. TypeOK
  BY ActorAssumption DEF ActorInit, TypeOK, Tracker, NoBatch, FreshTracker
<1>2. BatchInv
  BY DEF ActorInit, BatchInv, NoBatch, RecoveredOrders
<1> QED
  BY <1>1, <1>2

\* The variables keep their types, and apply() is always suspended where its
\* position, attempt and mode say it is.
THEOREM TypeCorrect == Spec => [](TypeOK /\ BatchInv)
  BY TypeInit, TypeStep, BatchStep, PTL DEF Spec

-----------------------------------------------------------------------------
LEMMA RecoveredIds == \A o \in RecoveredOrders : o.id[1] = 0
<1> SUFFICES ASSUME NEW o \in RecoveredOrders PROVE o.id[1] = 0
  OBVIOUS
<1>1. PICK t \in Tokens : o \in ToSet(Recovered[t])
  BY DEF RecoveredOrders
<1> QED
  BY <1>1, ActorAssumption

\* The request in progress is one of the running batch's placements.
LEMMA LiveStep == TypeOK /\ BatchInv /\ LiveInv /\ [Next]_actorVars => LiveInv'
<1> SUFFICES ASSUME TypeOK, BatchInv, LiveInv, [Next]_actorVars PROVE LiveInv'
  OBVIOUS
<1> USE DEF LiveInv
<1> batch.n \in Nat
  BY DEF BatchInv
<1>1. ASSUME NEW t \in Tokens, NEW m \in Batches(t), Apply(t, m) PROVE LiveInv'
  <2>1. /\ batch'.n = batch.n + 1 /\ batch'.places = m.places /\ pc = "idle"
        /\ UNCHANGED <<live, posts>>
    BY <1>1 DEF Apply
  <2>2. \/ pc' = "cancelling"
        \/ pc' \in {"placing", "idle"} /\ ~(batch'.awaited)
    <3>1. CASE m.cancels # {} /\ trackers[t].confirmCancel
      BY <1>1, <3>1 DEF Apply
    <3>2. CASE ~(m.cancels # {} /\ trackers[t].confirmCancel)
      <4>1. batch'.awaited = FALSE
        BY <1>1, <3>2 DEF Apply
      <4>2. pc' = Continue(todo')
        BY <1>1, <3>2 DEF Apply
      <4> QED
        BY <4>1, <4>2 DEF Continue
    <3> QED
      BY <3>1, <3>2
  <2>3. \A o \in live' : o.id[1] \in 0..batch'.n /\ o.id[1] # batch'.n
    BY <2>1
  <2>4. \A p \in posts' : p.id[1] \in 1..batch'.n /\ p.id[1] # batch'.n
    BY <2>1
  <2> QED
    BY <2>1, <2>2, <2>3, <2>4 DEF RecoveredOrders
<1>2. CASE CancelReturns
  BY <1>2 DEF CancelReturns, Continue, BatchInv, TypeOK, RecoveredOrders
<1>3. CASE CancelRaises
  BY <1>3 DEF CancelRaises, RecoveredOrders
<1>4. CASE BeginPlacement
  <2>1. PICK k \in todo : Post(k, 1)
    BY <1>4 DEF BeginPlacement
  <2>2. k \in DOMAIN batch.places
    BY <2>1 DEF TypeOK
  <2> QED
    BY <1>4, <2>1, <2>2 DEF BeginPlacement, Post, RecoveredOrders
<1>5. CASE Retry
  BY <1>5 DEF Retry, Post, TypeOK, RecoveredOrders
<1>6. CASE GiveUp
  BY <1>6 DEF GiveUp, Advance, Continue, RecoveredOrders
<1>7. ASSUME NEW p \in posts, PlacementSucceeds(p) PROVE LiveInv'
  BY <1>7 DEF PlacementSucceeds, Advance, Continue, RecoveredOrders
<1>8. ASSUME NEW p \in posts, PlacementDuplicate(p) PROVE LiveInv'
  BY <1>8 DEF PlacementDuplicate, RecoveredOrders
<1>9. ASSUME NEW p \in posts, PlacementFails(p) PROVE LiveInv'
  BY <1>9 DEF PlacementFails, Advance, Continue, RecoveredOrders
<1>10. ASSUME NEW task \in cancelTasks, BackgroundCancel(task) PROVE LiveInv'
  BY <1>10 DEF BackgroundCancel, RecoveredOrders
<1>11. ASSUME NEW p \in posts, ExchangeAccepts(p) PROVE LiveInv'
  <2>1. /\ OrderOf(p).id = p.id /\ OrderOf(p).token = p.intent.token
        /\ OrderOf(p).side = p.intent.side /\ OrderOf(p).price = p.intent.price
    BY DEF OrderOf
  <2>2. OrderOf(p) \notin batch.cancels
    BY <2>1, RecoveredIds DEF BatchInv
  <2>3. \A q \in posts' : \E r \in posts : q.id = r.id /\ q.intent = r.intent
    BY <1>11 DEF ExchangeAccepts, Answered
  <2>4. /\ live' = live \cup {OrderOf(p)}
        /\ UNCHANGED <<pc, batch>>
    BY <1>11 DEF ExchangeAccepts
  <2> QED
    BY <2>1, <2>2, <2>3, <2>4 DEF RecoveredOrders
<1>12. ASSUME NEW p \in posts, NEW why \in {"duplicate", "refused"}, ExchangeRejects(p, why)
       PROVE LiveInv'
  BY <1>12 DEF ExchangeRejects, Answered, RecoveredOrders
<1>13. ASSUME NEW t \in Tokens, WindowAges(t) PROVE LiveInv'
  BY <1>13 DEF WindowAges, RecoveredOrders
<1>14. ASSUME NEW gone \in SUBSET live, OrdersLeave(gone) PROVE LiveInv'
  BY <1>14 DEF OrdersLeave, RecoveredOrders
<1>15. CASE UNCHANGED actorVars
  BY <1>15 DEF actorVars, RecoveredOrders
<1> QED
  BY <1>1, <1>2, <1>3, <1>4, <1>5, <1>6, <1>7, <1>8, <1>9, <1>10, <1>11, <1>12,
     <1>13, <1>14, <1>15 DEF Next, Resume, Exchange

LEMMA LiveInit == ActorInit => LiveInv
<1> SUFFICES ASSUME ActorInit PROVE LiveInv
  OBVIOUS
<1>1. \A o \in live : o.id[1] = 0 /\ o \in RecoveredOrders
  BY RecoveredIds DEF ActorInit
<1> QED
  BY <1>1 DEF ActorInit, LiveInv, NoBatch

LEMMA LiveInvSuffices == BatchInv /\ LiveInv => NoCrossWhenAwaited
<1> SUFFICES ASSUME BatchInv, LiveInv, batch.awaited,
                    NEW r \in live, NEW o \in live, r.id[1] = 0, o.id[1] = batch.n
             PROVE  ~Crosses(r, o)
  BY DEF NoCrossWhenAwaited
<1>1. batch.n # 0 /\ r \in RecoveredOrders
  BY DEF BatchInv, LiveInv
<1>2. PICK i \in DOMAIN batch.places : /\ o.token = batch.places[i].token
                                       /\ o.side = batch.places[i].side
                                       /\ o.price = batch.places[i].price
  BY <1>1 DEF LiveInv
<1>3. pc \notin {"cancelling", "raised"}
  BY DEF LiveInv
<1>4. r \in RecoveredOrders \ batch.cancels
  BY <1>1, <1>3 DEF LiveInv
<1>5. ~Crosses(r, batch.places[i])
  BY <1>4 DEF BatchInv
<1> QED
  BY <1>2, <1>5 DEF Crosses

\* While a batch whose cancel apply() waited for is running, none of its orders
\* rests within a tick of a recovered order on the other side (FR-210a with the
\* adaptive confirm-cancel mode on).
THEOREM NoCrossWhenAwaitedHolds == Spec => []NoCrossWhenAwaited
  BY TypeInit, TypeStep, BatchStep, LiveInit, LiveStep, LiveInvSuffices, PTL DEF Spec

-----------------------------------------------------------------------------
(***************************************************************************)
(* RejectionsBounded is not inductive either: how much a window may still  *)
(* grow depends on the attempts the placement in progress has used, and    *)
(* the window may have been rolled since that placement was counted.       *)
(***************************************************************************)

\* The rejections the placement in progress may have had so far.
Used == IF pc = "posting" THEN attempt - 1 ELSE attempt

InProgress(t) == pc \in {"posting", "backoff"} /\ batch.places[at].token = t

WindowInv ==
  \A t \in Tokens :
    trackers[t].rejections <=
      Attempts * trackers[t].placements + (IF InProgress(t) THEN Used ELSE Attempts)

\* A placement opens room for Attempts more rejections, also in a new window.
LEMMA PlacementWidens ==
  ASSUME NEW x \in Tracker, x.rejections <= Attempts * x.placements + Attempts
  PROVE  LET y == RecordPlacement(x) IN y.rejections <= Attempts * y.placements
<1>1. CASE x.old
  BY <1>1, ActorAssumption DEF RecordPlacement, MaybeRoll, FreshTracker
<1>2. CASE ~x.old
  <2>1. Attempts * (x.placements + 1) = Attempts * x.placements + Attempts
    BY ActorAssumption DEF Tracker
  <2> QED
    BY <1>2, <2>1 DEF RecordPlacement, MaybeRoll, Tracker
<1> QED
  BY <1>1, <1>2

\* A rejection uses one of the attempts, also in a new window.
LEMMA RejectionUses ==
  ASSUME NEW x \in Tracker, NEW k \in Nat \ {0},
         x.rejections <= Attempts * x.placements + (k - 1)
  PROVE  LET y == UpdateConfirmCancelMode(RecordRejection(x))
         IN  y.rejections <= Attempts * y.placements + k
<1> DEFINE z == RecordRejection(x)
           y == UpdateConfirmCancelMode(z)
<1>1. z \in Tracker
  BY TrackerTypes
<1>2. y.rejections = z.rejections /\ y.placements = z.placements
  BY <1>1 DEF UpdateConfirmCancelMode, Tracker
<1>3. z.rejections <= Attempts * z.placements + k
  <2>1. CASE x.old
    BY <2>1, ActorAssumption DEF RecordRejection, MaybeRoll, FreshTracker
  <2>2. CASE ~x.old
    <3>1. z.rejections = x.rejections + 1 /\ z.placements = x.placements
      BY <2>2 DEF RecordRejection, MaybeRoll, Tracker
    <3>2. Attempts * x.placements \in Int
      BY ActorAssumption DEF Tracker
    <3> HIDE DEF z
    <3> QED
      BY <3>1, <3>2 DEF Tracker
  <2> QED
    BY <2>1, <2>2
<1> QED
  BY <1>2, <1>3

LEMMA WindowStep ==
  TypeOK /\ BatchInv /\ LiveInv /\ WindowInv /\ [Next]_actorVars => WindowInv'
<1> SUFFICES ASSUME TypeOK, BatchInv, LiveInv, WindowInv, [Next]_actorVars
             PROVE  WindowInv'
  OBVIOUS
<1>0. \A t \in Tokens : /\ trackers[t] \in Tracker
                        /\ Attempts * trackers[t].placements \in Int
  BY ActorAssumption DEF TypeOK, Tracker
<1> Attempts \in Nat /\ attempt \in 0..Attempts
  BY ActorAssumption DEF TypeOK
\* A step that starts no placement and records nothing keeps the bound, and so
\* does one that ends a placement: its attempts were at most Attempts.
<1>a. ASSUME UNCHANGED trackers, ~(pc' \in {"posting", "backoff"}) PROVE WindowInv'
  <2>1. \A t \in Tokens : trackers[t].rejections <=
                             Attempts * trackers[t].placements + Attempts
    BY <1>0 DEF WindowInv, Used, InProgress, Tracker
  <2> QED
    BY <1>a, <2>1 DEF WindowInv, InProgress
<1>b. ASSUME UNCHANGED <<trackers, pc, batch, at, attempt>> PROVE WindowInv'
  BY <1>b DEF WindowInv, Used, InProgress
<1>1. ASSUME NEW t \in Tokens, NEW m \in Batches(t), Apply(t, m) PROVE WindowInv'
  BY <1>1, <1>a DEF Apply, Continue
<1>2. CASE CancelReturns
  BY <1>2, <1>a DEF CancelReturns, Continue
<1>3. CASE CancelRaises
  BY <1>3, <1>a DEF CancelRaises
<1>4. CASE BeginPlacement
  <2>1. PICK k \in todo : /\ trackers' = [trackers EXCEPT ![batch.places[k].token] =
                                             RecordPlacement(@)]
                          /\ Post(k, 1)
    BY <1>4 DEF BeginPlacement
  <2> DEFINE u == batch.places[k].token
  <2>2. u \in Tokens
    BY <1>4, <2>1 DEF BatchInv, TypeOK
  <2>3. pc = "placing" /\ pc' = "posting" /\ at' = k /\ attempt' = 1 /\ batch' = batch
    BY <1>4, <2>1 DEF BeginPlacement, Post
  <2>4. \A t \in Tokens : trackers[t].rejections <=
                             Attempts * trackers[t].placements + Attempts
    BY <2>3 DEF WindowInv, InProgress
  <2>5. ASSUME NEW t \in Tokens, t # u
        PROVE  ~InProgress(t)' /\ trackers'[t] = trackers[t]
    BY <1>0, <2>1, <2>2, <2>3, <2>5 DEF InProgress, TypeOK
  <2>6. trackers'[u] = RecordPlacement(trackers[u])
    BY <2>1, <2>2 DEF TypeOK
  <2>7. trackers'[u].rejections <= Attempts * trackers'[u].placements
    BY <1>0, <2>2, <2>4, <2>6, PlacementWidens
  <2>8. InProgress(u)' /\ Used' = 0
    BY <2>3 DEF InProgress, Used
  <2>9. Attempts * trackers'[u].placements \in Int
    BY <1>0, <2>2, <2>6, TrackerTypes DEF Tracker
  <2>10. trackers'[u].rejections <= Attempts * trackers'[u].placements + 0
    BY <2>7, <2>9
  <2>11. ASSUME NEW t \in Tokens
         PROVE  trackers'[t].rejections <=
                  Attempts * trackers'[t].placements +
                    (IF InProgress(t)' THEN Used' ELSE Attempts)
    <3>1. CASE t = u
      <4>1. InProgress(t)'
        BY <3>1, <2>3 DEF InProgress
      <4> QED
        BY <3>1, <4>1, <2>8, <2>10
    <3>2. CASE t # u
      BY <3>2, <2>4, <2>5
    <3> QED
      BY <3>1, <3>2
  <2> QED
    BY <2>11 DEF WindowInv
<1>5. CASE Retry
  <2>1. /\ pc = "backoff" /\ pc' = "posting" /\ at' = at /\ attempt' = attempt + 1
        /\ UNCHANGED <<trackers, batch>>
    BY <1>5 DEF Retry, Post
  <2>2. Used' = Used
    BY <2>1 DEF Used
  <2>3. \A t \in Tokens : InProgress(t)' = InProgress(t)
    BY <2>1 DEF InProgress
  <2> QED
    BY <2>1, <2>2, <2>3 DEF WindowInv
<1>6. CASE GiveUp
  BY <1>6, <1>a DEF GiveUp, Advance, Continue
<1>7. ASSUME NEW p \in posts, PlacementSucceeds(p) PROVE WindowInv'
  <2> DEFINE u == p.intent.token
  <2>1. \A t \in Tokens : trackers[t].rejections <=
                             Attempts * trackers[t].placements + Attempts
    BY <1>0 DEF WindowInv, Used, InProgress, Tracker
  <2>2. \A t \in Tokens : /\ trackers'[t].rejections = trackers[t].rejections
                          /\ trackers'[t].placements = trackers[t].placements
    BY <1>0, <1>7 DEF PlacementSucceeds, UpdateConfirmCancelMode, TypeOK, Tracker
  <2>3. pc' \in {"placing", "idle"}
    BY <1>7 DEF PlacementSucceeds, Advance, Continue
  <2> QED
    BY <2>1, <2>2, <2>3 DEF WindowInv, InProgress
<1>8. ASSUME NEW p \in posts, PlacementDuplicate(p) PROVE WindowInv'
  <2> DEFINE u == p.intent.token
  <2>1. /\ pc = "posting" /\ pc' = "backoff" /\ p.id = <<batch.n, at, attempt>>
        /\ UNCHANGED <<batch, at, attempt>>
        /\ trackers' = [trackers EXCEPT ![u] = UpdateConfirmCancelMode(RecordRejection(@))]
    BY <1>8 DEF PlacementDuplicate, PostId
  <2>2. at \in DOMAIN batch.places /\ p.intent = batch.places[at]
    BY <2>1 DEF LiveInv
  <2>3. u \in Tokens /\ InProgress(u) /\ InProgress(u)'
    BY <2>1, <2>2 DEF BatchInv, InProgress
  <2>4. attempt \in Nat \ {0} /\ Used = attempt - 1 /\ Used' = attempt
    BY <2>1 DEF TypeOK, Used
  <2>5. trackers[u].rejections <= Attempts * trackers[u].placements + (attempt - 1)
    BY <2>3, <2>4 DEF WindowInv
  <2>6. trackers'[u] = UpdateConfirmCancelMode(RecordRejection(trackers[u]))
    BY <2>1, <2>3 DEF TypeOK
  <2>7. trackers'[u].rejections <= Attempts * trackers'[u].placements + attempt
    BY <1>0, <2>3, <2>4, <2>5, <2>6, RejectionUses
  <2>8. ASSUME NEW t \in Tokens, t # u
        PROVE  /\ ~InProgress(t) /\ ~InProgress(t)' /\ trackers'[t] = trackers[t]
    BY <2>1, <2>2, <2>8 DEF InProgress, TypeOK
  <2> QED
    BY <2>3, <2>4, <2>7, <2>8 DEF WindowInv
<1>9. ASSUME NEW p \in posts, PlacementFails(p) PROVE WindowInv'
  BY <1>9, <1>a DEF PlacementFails, Advance, Continue
<1>10. ASSUME NEW task \in cancelTasks, BackgroundCancel(task) PROVE WindowInv'
  BY <1>10, <1>b DEF BackgroundCancel
<1>11. ASSUME NEW p \in posts, ExchangeAccepts(p) PROVE WindowInv'
  BY <1>11, <1>b DEF ExchangeAccepts
<1>12. ASSUME NEW p \in posts, NEW why \in {"duplicate", "refused"}, ExchangeRejects(p, why)
       PROVE WindowInv'
  BY <1>12, <1>b DEF ExchangeRejects
<1>13. ASSUME NEW t \in Tokens, WindowAges(t) PROVE WindowInv'
  <2>1. \A v \in Tokens : /\ trackers'[v].rejections = trackers[v].rejections
                          /\ trackers'[v].placements = trackers[v].placements
    BY <1>0, <1>13 DEF WindowAges, TypeOK, Tracker
  <2>2. UNCHANGED <<pc, batch, at, attempt>>
    BY <1>13 DEF WindowAges
  <2> QED
    BY <2>1, <2>2 DEF WindowInv, InProgress, Used
<1>14. ASSUME NEW gone \in SUBSET live, OrdersLeave(gone) PROVE WindowInv'
  BY <1>14, <1>b DEF OrdersLeave
<1>15. CASE UNCHANGED actorVars
  BY <1>15, <1>b DEF actorVars
<1> QED
  BY <1>1, <1>2, <1>3, <1>4, <1>5, <1>6, <1>7, <1>8, <1>9, <1>10, <1>11, <1>12,
     <1>13, <1>14, <1>15 DEF Next, Resume, Exchange

LEMMA WindowInit == ActorInit => WindowInv
  BY ActorAssumption DEF ActorInit, WindowInv, InProgress, FreshTracker

LEMMA WindowInvSuffices == TypeOK /\ WindowInv => RejectionsBounded
<1> SUFFICES ASSUME TypeOK, WindowInv, NEW t \in Tokens
             PROVE  trackers[t].rejections <= Attempts * (trackers[t].placements + 1)
  BY DEF RejectionsBounded
<1>1. trackers[t] \in Tracker /\ Attempts \in Nat /\ attempt \in 0..Attempts
  BY ActorAssumption DEF TypeOK
<1>2. Attempts * (trackers[t].placements + 1) = Attempts * trackers[t].placements + Attempts
  BY <1>1 DEF Tracker
<1>3. Attempts * trackers[t].placements \in Int
  BY <1>1 DEF Tracker
<1> QED
  BY <1>1, <1>2, <1>3 DEF WindowInv, Used, InProgress, Tracker

\* The rejection rate of _MarketRejectionTracker stays below a bound that only
\* depends on the number of attempts, although the window rolls at any moment.
THEOREM RejectionsBoundedHolds == Spec => []RejectionsBounded
  BY TypeInit, TypeStep, BatchStep, LiveInit, LiveStep, WindowInit, WindowStep,
     WindowInvSuffices, PTL DEF Spec

-----------------------------------------------------------------------------
(***************************************************************************)
(* The loop around apply(): QuoteLoop.                                     *)
(***************************************************************************)
LEMMA LoopInitRefines == LoopInit => ActorInit
  BY DEF LoopInit

\* What diff() and the gate make for a token is one of the batches apply() is
\* modelled for.
LEMMA SafeMutationsAreBatches ==
  ASSUME NEW token, NEW desired \in Quotes[token]
  PROVE  SafeMutations(desired, token) \in Batches(token)
<1> DEFINE m == Diff(desired, Recovered[token])
<1>1. SafeMutations(desired, token) = Gated(m, PassingPlaces(m.places))
  BY DEF SafeMutations, Confirmed
<1>2. PassingPlaces(m.places) \in SUBSET DOMAIN m.places
  BY DEF PassingPlaces
<1> QED
  BY <1>1, <1>2 DEF Batches

LEMMA LoopStepRefines ==
  registry \subseteq Tokens /\ [LoopNext]_loopVars => [Next]_actorVars
<1> SUFFICES ASSUME registry \subseteq Tokens, [LoopNext]_loopVars PROVE [Next]_actorVars
  OBVIOUS
<1>1. CASE UNCHANGED actorVars
  BY <1>1
<1>2. CASE BootFails \/ KillTakesEffect
  <2>1. /\ live' \in {live, {}}
        /\ UNCHANGED <<trackers, pc, batch, todo, at, attempt, cancelTasks, posts, accepted>>
    BY <1>2 DEF BootFails, KillTakesEffect
  <2>2. CASE live' = live
    BY <2>1, <2>2 DEF actorVars
  <2>3. CASE live' # live
    <3>1. live # {} /\ live' = live \ live
      BY <2>1, <2>3
    <3>2. OrdersLeave(live)
      BY <2>1, <3>1 DEF OrdersLeave
    <3> QED
      BY <3>2 DEF Next, Exchange
  <2> QED
    BY <2>2, <2>3
<1>3. CASE TakeBook
  <2> DEFINE t == Head(books)
  <2>1. \/ UNCHANGED actorVars
        \/ t \in registry /\ \E desired \in Quotes[t] : Apply(t, SafeMutations(desired, t))
    BY <1>3 DEF TakeBook, HandleBook
  <2> QED
    BY <2>1, SafeMutationsAreBatches DEF Next
<1>4. CASE ResumeApply
  BY <1>4 DEF ResumeApply, Next
<1>5. CASE Environment
  BY <1>5 DEF Environment, Next
<1>6. CASE UNCHANGED loopVars
  BY <1>6 DEF loopVars
<1>7. CASE \/ Boot \/ FillArrives \/ TakeFill \/ FillHandled \/ Exit \/ StopCalled \/ Stop
           \/ \E t \in Tokens : BookArrives(t)
           \/ \E selected \in SUBSET Tokens : ScannerUpdate(selected)
  BY <1>7 DEF Boot, FillArrives, TakeFill, FillHandled, Exit, StopCalled, Stop, BookArrives,
     ScannerUpdate, CancelAllReturns, CancelBackgroundTasks, StopReturns
<1> QED
  BY <1>2, <1>3, <1>4, <1>5, <1>6, <1>7 DEF LoopNext

\* The registry only ever holds tokens of the system.
LEMMA RegistryStep == registry \subseteq Tokens /\ [LoopNext]_loopVars => (registry \subseteq Tokens)'
<1> SUFFICES ASSUME registry \subseteq Tokens, [LoopNext]_loopVars
             PROVE  registry' \subseteq Tokens
  OBVIOUS
<1>1. ASSUME NEW selected \in SUBSET Tokens, ScannerUpdate(selected)
      PROVE  registry' \subseteq Tokens
  BY <1>1 DEF ScannerUpdate
<1>2. CASE UNCHANGED registry
  BY <1>2
<1> QED
  BY <1>1, <1>2 DEF LoopNext, Boot, BootFails, FillArrives, TakeBook, ResumeApply, TakeFill,
     FillHandled, Exit, StopCalled, KillTakesEffect, Stop, Environment, BookArrives,
     CancelAllReturns, CancelBackgroundTasks, StopReturns, loopVars, loopOnly

LEMMA RegistryInit == LoopInit => registry \subseteq Tokens
  BY DEF LoopInit

\* Whatever the startup, the consumers, the scanner and the shutdown do, the
\* exchange sees a behaviour of one ExecutionActor (core/orchestrator.py).
THEOREM LoopImplementsActor == LoopSpec => ImplementsActor
  BY LoopInitRefines, LoopStepRefines, RegistryInit, RegistryStep, PTL
     DEF LoopSpec, ImplementsActor

\* At most one order per intent of each book event, in the whole loop.
THEOREM LoopOneOrderPerIntent == LoopSpec => []OneOrderPerIntent
<1>1. PlacementInv => OneOrderPerIntent
  BY DEF PlacementInv
<1> QED
  BY <1>1, LoopImplementsActor, PlacementInit, PlacementStep, PTL DEF ImplementsActor

\* Neither startup nor shutdown, neither a scanner update nor a fill in between, lets a
\* placement cross what an awaited cancel was to remove, or lets rejections outrun
\* placements: what holds of one ExecutionActor holds of the whole loop.
THEOREM LoopInheritsActor == LoopSpec => [](NoCrossWhenAwaited /\ RejectionsBounded)
  BY LoopImplementsActor, TypeInit, TypeStep, BatchStep, LiveInit, LiveStep, LiveInvSuffices,
     WindowInit, WindowStep, WindowInvSuffices, PTL DEF ImplementsActor

-----------------------------------------------------------------------------
(***************************************************************************)
(* OneMoreEvent needs to know where the consumer can be once _running is   *)
(* False: an event taken late, or the one in progress when stop() was      *)
(* called, leaves the consumer outside book_queue.get() for good.          *)
(***************************************************************************)
LateInv ==
  /\ late \in Nat /\ busyAtStop \in BOOLEAN
  /\ consumer \in [book : TaskStates, fill : TaskStates]
  /\ consumer.book = "off" <=> ~booted
  /\ booted /\ ~running => stopAt # "none"
  /\ pc \notin {"idle", "raised"} => consumer.book = "handling"
  /\ stopAt = "none" => late = 0 /\ ~busyAtStop
  /\ \/ late = 0 /\ ~busyAtStop
     \/ /\ late + (IF busyAtStop THEN 1 ELSE 0) = 1
        /\ ~running /\ booted /\ consumer.book # "get"

LEMMA LateInit == LoopInit => LateInv
<1> SUFFICES ASSUME LoopInit PROVE LateInv
  OBVIOUS
<1>1. /\ consumer \in [book : TaskStates, fill : TaskStates]
      /\ consumer.book = "off" /\ ~booted /\ pc = "idle"
  BY DEF LoopInit, ActorInit, TaskStates
<1>2. late = 0 /\ busyAtStop = FALSE
  BY DEF LoopInit
<1> QED
  BY <1>1, <1>2 DEF LateInv

LEMMA LateStep == LateInv /\ [LoopNext]_loopVars => LateInv'
<1> SUFFICES ASSUME LateInv, [LoopNext]_loopVars PROVE LateInv'
  OBVIOUS
<1> USE DEF LateInv, TaskStates
<1>1. CASE Boot
  BY <1>1 DEF Boot, actorVars
<1>2. CASE BootFails \/ KillTakesEffect
  BY <1>2 DEF BootFails, KillTakesEffect
<1>3. CASE TakeBook
  <2>1. /\ consumer.book = "get" /\ late = 0 /\ ~busyAtStop /\ booted
        /\ late' = IF running THEN late ELSE late + 1
        /\ UNCHANGED <<running, booted, stopAt, busyAtStop>>
    BY <1>3 DEF TakeBook
  <2>2. /\ consumer' \in [book : TaskStates, fill : TaskStates]
        /\ consumer'.book \in {"handling", LoopTop}
        /\ pc' \notin {"idle", "raised"} => consumer'.book = "handling"
    <3>1. pc \in {"idle", "raised"}
      BY <2>1
    <3>2. \/ pc' = pc /\ consumer' = [consumer EXCEPT !.book = LoopTop]
          \/ consumer' = [consumer EXCEPT !.book = IF pc' = "idle" THEN LoopTop ELSE "handling"]
      BY <1>3 DEF TakeBook, HandleBook, actorVars
    <3> QED
      BY <3>1, <3>2 DEF LoopTop
  <2>3. consumer'.book # "get" \/ running
    BY <2>2 DEF LoopTop
  <2> QED
    BY <2>1, <2>2, <2>3, <1>3 DEF TakeBook, LoopTop
<1>4. CASE ResumeApply
  <2>1. /\ consumer.book = "handling"
        /\ UNCHANGED <<running, booted, stopAt, busyAtStop, late>>
        /\ consumer' = [consumer EXCEPT !.book = CASE pc' = "idle" -> LoopTop
                                                   [] pc' = "raised" -> "ended"
                                                   [] OTHER -> "handling"]
    BY <1>4 DEF ResumeApply
  <2>2. \/ consumer' = [consumer EXCEPT !.book = LoopTop] /\ pc' = "idle"
        \/ consumer' = [consumer EXCEPT !.book = "ended"] /\ pc' = "raised"
        \/ consumer' = [consumer EXCEPT !.book = "handling"] /\ pc' \notin {"idle", "raised"}
    BY <2>1
  <2> QED
    BY <2>1, <2>2 DEF LoopTop
<1>5. CASE TakeFill \/ FillHandled
  BY <1>5 DEF TakeFill, FillHandled, LoopTop, actorVars
<1>6. CASE Exit
  BY <1>6 DEF Exit, actorVars
<1>7. CASE StopCalled
  BY <1>7 DEF StopCalled, actorVars
<1>8. CASE Stop
  BY <1>8 DEF Stop, CancelAllReturns, CancelBackgroundTasks, StopReturns, actorVars
<1>9. CASE Environment
  <2>1. UNCHANGED loopOnly /\ pc' = pc
    BY <1>9 DEF Environment, Exchange, BackgroundCancel, ExchangeAccepts, ExchangeRejects,
       OrdersLeave, WindowAges
  <2> QED
    BY <2>1 DEF loopOnly
<1>10. CASE \/ FillArrives \/ \E t \in Tokens : BookArrives(t)
            \/ \E selected \in SUBSET Tokens : ScannerUpdate(selected)
  BY <1>10 DEF FillArrives, BookArrives, ScannerUpdate, actorVars
<1>11. CASE UNCHANGED loopVars
  BY <1>11 DEF loopVars, loopOnly, actorVars
<1> QED
  BY <1>1, <1>2, <1>3, <1>4, <1>5, <1>6, <1>7, <1>8, <1>9, <1>10, <1>11 DEF LoopNext

\* After stop() at most one more book event is acted on (core/orchestrator.py,
\* _consume_book), however many events are queued and however they interleave.
THEOREM OneMoreEventHolds == LoopSpec => []OneMoreEvent
<1>1. LateInv => OneMoreEvent
  BY DEF LateInv, OneMoreEvent
<1> QED
  BY <1>1, LateInit, LateStep, PTL DEF LoopSpec

-----------------------------------------------------------------------------
\* Every order a batch or a cancel task names is of a token an event came for.
CancelInv ==
  /\ CancelsOwnToken
  /\ registry \subseteq Tokens

LEMMA CancelStep == CancelInv /\ [LoopNext]_loopVars => CancelInv'
<1> SUFFICES ASSUME CancelInv, [LoopNext]_loopVars PROVE CancelsOwnToken'
  BY RegistryStep DEF CancelInv
<1> USE DEF CancelInv, CancelsOwnToken
<1>1. CASE TakeBook
  <2> DEFINE t == Head(books)
  <2>1. CASE UNCHANGED actorVars
    BY <1>1, <2>1 DEF TakeBook, HandleBook, actorVars
  <2>2. ASSUME t \in registry, evented' = evented \cup {t}, NEW desired \in Quotes[t],
               Apply(t, SafeMutations(desired, t))
        PROVE  CancelsOwnToken'
    <3> DEFINE m == SafeMutations(desired, t)
    <3>1. m.cancels \subseteq ToSet(Recovered[t])
      BY DiffMutations DEF SafeMutations, Gated, Confirmed
    <3>2. \A o \in m.cancels : o.token = t
      BY <2>2, <3>1, ActorAssumption
    <3> HIDE DEF m
    <3>3. /\ batch'.cancels = m.cancels
          /\ \A task \in cancelTasks' : task \in cancelTasks \/ task.orders = m.cancels
      BY <2>2 DEF Apply, m
    <3> QED
      BY <2>2, <3>2, <3>3
  <2> QED
    BY <1>1, <2>1, <2>2 DEF TakeBook, HandleBook
<1>2. CASE ResumeApply
  BY <1>2 DEF ResumeApply, Resume, CancelReturns, CancelRaises, BeginPlacement, Retry, GiveUp,
     PlacementSucceeds, PlacementDuplicate, PlacementFails
<1>3. CASE Environment
  <2>1. evented' = evented /\ batch' = batch /\ cancelTasks' \subseteq cancelTasks
    BY <1>3 DEF Environment, loopOnly, Exchange, BackgroundCancel, ExchangeAccepts,
       ExchangeRejects, OrdersLeave, WindowAges
  <2> QED
    BY <2>1
<1>4. CASE UNCHANGED <<batch, cancelTasks, evented>>
  BY <1>4
<1> QED
  BY <1>1, <1>2, <1>3, <1>4 DEF LoopNext, Boot, BootFails, FillArrives, TakeFill, FillHandled,
     Exit, StopCalled, KillTakesEffect, Stop, BookArrives, ScannerUpdate, CancelAllReturns,
     CancelBackgroundTasks, StopReturns, loopVars, loopOnly, actorVars

\* A book event never cancels another token's orders (core/orchestrator.py,
\* the filter before order_diff), for any number of tokens and orders.
THEOREM CancelsOwnTokenHolds == LoopSpec => []CancelsOwnToken
<1>1. LoopInit => CancelInv
  BY DEF LoopInit, ActorInit, NoBatch, CancelInv, CancelsOwnToken
<1>2. CancelInv => CancelsOwnToken
  BY DEF CancelInv
<1> QED
  BY <1>1, <1>2, CancelStep, PTL DEF LoopSpec
-----------------------------------------------------------------------------
\* The fill queue holds events that arrived, and the bound is on those.
LoopInv ==
  /\ LoopTypeOK
  /\ arrived \in [book : Nat, fill : Nat]
  /\ fills <= arrived.fill /\ arrived.fill <= MaxFills

LEMMA LoopTypeInit == LoopInit => LoopInv
<1> SUFFICES ASSUME LoopInit PROVE LoopInv
  OBVIOUS
<1>1. /\ consumer = [book |-> "off", fill |-> "off"] /\ pc = "idle" /\ ~booted
      /\ arrived = [book |-> 0, fill |-> 0] /\ fills = 0
      /\ books = <<>> /\ registry = {} /\ ~running /\ ~exited /\ ~gatewayUp
      /\ stopAt = "none" /\ killSwitch = "none"
  BY DEF LoopInit, ActorInit
<1>2. running \in BOOLEAN /\ exited \in BOOLEAN /\ gatewayUp \in BOOLEAN
  BY DEF LoopInit
<1> QED
  BY <1>1, <1>2, LoopAssumption DEF LoopInv, LoopTypeOK, TaskStates

\* Where apply() may be after its first step.
LEMMA ApplyIsWhere ==
  ASSUME NEW t, NEW m, Apply(t, m) PROVE pc' \in {"cancelling", "placing", "idle"}
  BY DEF Apply, Continue

LEMMA LoopTypeStep == LoopInv /\ [LoopNext]_loopVars => LoopInv'
<1> SUFFICES ASSUME LoopInv, [LoopNext]_loopVars PROVE LoopInv'
  OBVIOUS
<1> USE LoopAssumption DEF LoopInv, LoopTypeOK, TaskStates
<1>1. CASE Boot
  BY <1>1 DEF Boot, actorVars
<1>2. CASE BootFails \/ KillTakesEffect
  <2>1. CASE BootFails
    BY <2>1 DEF BootFails
  <2>2. CASE KillTakesEffect
    BY <2>2 DEF KillTakesEffect
  <2> QED
    BY <1>2, <2>1, <2>2
<1>3. CASE TakeBook
  <2>1. /\ consumer.book = "get" /\ pc = "idle" /\ booted
        /\ books # <<>> /\ books' = Tail(books)
        /\ UNCHANGED <<running, booted, exited, fills, registry, gatewayUp, stopAt,
                       killSwitch, arrived>>
    BY <1>3 DEF TakeBook
  <2>2. books' \in Seq(Tokens) /\ Len(books') <= Capacity
    BY <2>1
  <2>3. \/ consumer' = [consumer EXCEPT !.book = LoopTop] /\ pc' = "idle"
        \/ /\ consumer' = [consumer EXCEPT !.book = IF pc' = "idle" THEN LoopTop ELSE "handling"]
           /\ pc' \in {"cancelling", "placing", "idle"}
    BY <1>3, <2>1, ApplyIsWhere DEF TakeBook, HandleBook, actorVars
  <2>4. /\ consumer' \in [book : TaskStates, fill : TaskStates]
        /\ consumer'.book # "off"
        /\ consumer'.book = "handling" <=> pc' \notin {"idle", "raised"}
        /\ pc' # "raised"
    BY <2>1, <2>3 DEF LoopTop
  <2> QED
    BY <2>1, <2>2, <2>4
<1>4. CASE ResumeApply
  <2>1. /\ consumer.book = "handling"
        /\ UNCHANGED <<running, booted, exited, books, fills, registry, gatewayUp, stopAt,
                       killSwitch, arrived>>
        /\ consumer' = [consumer EXCEPT !.book = CASE pc' = "idle" -> LoopTop
                                                   [] pc' = "raised" -> "ended"
                                                   [] OTHER -> "handling"]
    BY <1>4 DEF ResumeApply
  <2>2. \/ consumer' = [consumer EXCEPT !.book = LoopTop] /\ pc' = "idle"
        \/ consumer' = [consumer EXCEPT !.book = "ended"] /\ pc' = "raised"
        \/ consumer' = [consumer EXCEPT !.book = "handling"] /\ pc' \notin {"idle", "raised"}
    BY <2>1
  <2> QED
    BY <2>1, <2>2 DEF LoopTop
<1>5. CASE TakeFill \/ FillHandled
  BY <1>5 DEF TakeFill, FillHandled, LoopTop, actorVars
<1>6. CASE Exit \/ StopCalled \/ Stop
  <2>1. CASE Exit
    BY <2>1 DEF Exit, actorVars
  <2>2. CASE StopCalled
    BY <2>2 DEF StopCalled, actorVars
  <2>3. CASE CancelAllReturns
    <3>1. killSwitch' \in {"none", "sent", "effective", "failed"} /\ stopAt' = "grace"
      <4>1. CASE killSwitch = "sent"
        BY <2>3, <4>1 DEF CancelAllReturns
      <4>2. CASE killSwitch # "sent"
        BY <2>3, <4>2 DEF CancelAllReturns
      <4> QED
        BY <4>1, <4>2
    <3>2. UNCHANGED <<pc, running, booted, exited, books, fills, consumer, registry,
                      gatewayUp, arrived>>
      BY <2>3 DEF CancelAllReturns, actorVars
    <3> QED
      BY <3>1, <3>2
  <2>4. CASE CancelBackgroundTasks
    BY <2>4 DEF CancelBackgroundTasks, actorVars
  <2>5. CASE StopReturns
    BY <2>5 DEF StopReturns, actorVars
  <2> QED
    BY <1>6, <2>1, <2>2, <2>3, <2>4, <2>5 DEF Stop
<1>7. CASE Environment
  <2>1. UNCHANGED loopOnly /\ pc' = pc
    BY <1>7 DEF Environment, Exchange, BackgroundCancel, ExchangeAccepts, ExchangeRejects,
       OrdersLeave, WindowAges
  <2> QED
    BY <2>1 DEF loopOnly
<1>8. CASE FillArrives
  BY <1>8 DEF FillArrives, actorVars
<1>9. ASSUME NEW t \in Tokens, BookArrives(t) PROVE LoopInv'
  BY <1>9 DEF BookArrives, actorVars
<1>10. ASSUME NEW selected \in SUBSET Tokens, ScannerUpdate(selected) PROVE LoopInv'
  BY <1>10 DEF ScannerUpdate, actorVars
<1>11. CASE UNCHANGED loopVars
  BY <1>11 DEF loopVars, loopOnly, actorVars
<1> QED
  BY <1>1, <1>2, <1>3, <1>4, <1>5, <1>6, <1>7, <1>8, <1>9, <1>10, <1>11 DEF LoopNext

\* The queues stay within their bounds, and _consume_book is suspended in
\* apply() exactly while apply() is under way, for good if apply() raised
\* (core/orchestrator.py, _consume_book and _handle_book_event).
THEOREM LoopTypeCorrect == LoopSpec => []LoopTypeOK
<1>1. LoopInv => LoopTypeOK
  BY DEF LoopInv
<1> QED
  BY <1>1, LoopTypeInit, LoopTypeStep, PTL DEF LoopSpec

-----------------------------------------------------------------------------
(***************************************************************************)
(* The rounds of diff(): DiffRounds.  TakenIs shows that the recursive     *)
(* definition of the matching loop has a solution, by a least              *)
(* counterexample; StepTakes and TakenAre say what the loop does.  From    *)
(* these follow QuietMeansQuoted, and Settles: a round without a           *)
(* self-cross finds each order again at its place, and a round with one    *)
(* leaves fewer orders in the way of a quote.                              *)
(***************************************************************************)
\* The order of the natural numbers as a relation: its least elements stand in for
\* induction over the positions of a list.
Below == {pair \in Nat \X Nat : pair[1] < pair[2]}

LEMMA BelowIs == ASSUME NEW a \in Nat, NEW b \in Nat PROVE <<a, b>> \in Below <=> a < b
  BY DEF Below

LEMMA BelowIsWellFounded == IsWellFoundedOn(Below, Nat)
  BY NatLessThanWellFounded DEF OpToRel, Below

\* A set of natural numbers that is not empty has a least member.
LEMMA LeastNatural ==
  ASSUME NEW S \in SUBSET Nat, S # {} PROVE \E x \in S : \A y \in S : x <= y
<1>1. PICK x \in S : \A y \in S : <<y, x>> \notin Below
  BY WFMin, BelowIsWellFounded
<1>2. ASSUME NEW y \in S PROVE x <= y
  <2>1. x \in Nat /\ y \in Nat
    OBVIOUS
  <2>2. ~(y < x)
    BY <1>1, <2>1, BelowIs
  <2> QED
    BY <2>1, <2>2
<1> QED
  BY <1>2

LEMMA MinIsLeast ==
  ASSUME NEW S \in SUBSET Nat, S # {} PROVE Min(S) \in S /\ \A y \in S : Min(S) <= y
  BY LeastNatural DEF Min

\* Counting a list of n from 0 on: what holds at 0, and at each step that it held
\* before, holds to the end.
LEMMA CountUp ==
  ASSUME NEW n \in Nat, NEW S \in SUBSET (0..n), 0 \in S,
         \A k \in 1..n : k - 1 \in S => k \in S
  PROVE  S = 0..n
<1> DEFINE missing == 0..n \ S
<1> SUFFICES ASSUME missing # {} PROVE FALSE
  OBVIOUS
<1>1. missing \in SUBSET Nat
  OBVIOUS
<1>2. PICK x \in missing : \A y \in missing : x <= y
  BY <1>1, LeastNatural
<1>3. x \in 1..n /\ x - 1 \in 0..n /\ ~(x <= x - 1)
  BY <1>2
<1>4. x - 1 \in S
  BY <1>2, <1>3
<1> QED
  BY <1>2, <1>3, <1>4

-----------------------------------------------------------------------------
\* One step of the loop that matches intents to orders.
TakeNext(D, B, i, taken) == taken \cup PickFor(D[i], B, taken)

IsTakenUpTo(D, B, k, g) ==
  g = [i \in 0..k |-> IF i = 0 THEN {} ELSE TakeNext(D, B, i, g[i - 1])]

LEMMA TakenExists ==
  ASSUME NEW D, NEW B, Len(D) \in Nat
  PROVE  \E g : IsTakenUpTo(D, B, Len(D), g)
<1> DEFINE n == Len(D)
           S == {k \in 0..n : \E g : IsTakenUpTo(D, B, k, g)}
<1>1. 0 \in S
  <2> DEFINE g == [i \in 0..0 |-> {}]
  <2>1. \A i \in 0..0 : {} = IF i = 0 THEN {} ELSE TakeNext(D, B, i, g[i - 1])
    OBVIOUS
  <2> HIDE DEF g
  <2>2. g = [i \in 0..0 |-> IF i = 0 THEN {} ELSE TakeNext(D, B, i, g[i - 1])]
    BY <2>1, Zenon DEF g
  <2>3. IsTakenUpTo(D, B, 0, g)
    BY <2>2 DEF IsTakenUpTo
  <2> QED
    BY <2>3
<1>2. ASSUME NEW k \in 1..n, k - 1 \in S PROVE k \in S
  <2>1. PICK g : IsTakenUpTo(D, B, k - 1, g)
    BY <1>2
  <2> DEFINE h == [i \in 0..k |-> IF i = k THEN TakeNext(D, B, k, g[k - 1]) ELSE g[i]]
  <2>2. /\ k \in Nat \ {0}
        /\ \A i \in 0..(k - 1) : g[i] = IF i = 0 THEN {} ELSE TakeNext(D, B, i, g[i - 1])
    <3>1. k \in Nat \ {0}
      OBVIOUS
    <3>2. g = [i \in 0..(k - 1) |-> IF i = 0 THEN {} ELSE TakeNext(D, B, i, g[i - 1])]
      BY <2>1 DEF IsTakenUpTo
    <3> QED
      BY <3>1, <3>2
  <2>3. \A i \in 0..k : h[i] = IF i = 0 THEN {} ELSE TakeNext(D, B, i, h[i - 1])
    <3> SUFFICES ASSUME NEW i \in 0..k
                 PROVE  h[i] = IF i = 0 THEN {} ELSE TakeNext(D, B, i, h[i - 1])
      OBVIOUS
    <3>1. CASE i = k
      <4>1. h[i] = TakeNext(D, B, k, g[k - 1]) /\ i # 0
        BY <2>2, <3>1
      <4>2. h[k - 1] = g[k - 1]
        BY <2>2
      <4> QED
        BY <3>1, <4>1, <4>2
    <3>2. CASE i # k
      <4>1. i \in 0..(k - 1) /\ h[i] = g[i]
        BY <2>2, <3>2
      <4>2. i # 0 => h[i - 1] = g[i - 1]
        BY <2>2, <4>1
      <4> QED
        BY <2>2, <4>1, <4>2
    <3> QED
      BY <3>1, <3>2
  <2>4. h = [i \in 0..k |-> h[i]]
    OBVIOUS
  <2> HIDE DEF h
  <2>5. h = [i \in 0..k |-> IF i = 0 THEN {} ELSE TakeNext(D, B, i, h[i - 1])]
    BY <2>3, <2>4
  <2>6. IsTakenUpTo(D, B, k, h)
    BY <2>5 DEF IsTakenUpTo
  <2> QED
    BY <2>6
<1>3. n \in Nat /\ S \in SUBSET (0..n)
  OBVIOUS
<1> HIDE DEF S
<1>4. S = 0..n
  BY <1>1, <1>2, <1>3, CountUp
<1>5. n \in S
  BY <1>3, <1>4
<1> QED
  BY <1>5 DEF S

\* The recursive definition of Taken means what it says.
LEMMA TakenIs ==
  ASSUME NEW D, NEW B, Len(D) \in Nat
  PROVE  /\ Taken(D, B)[0] = {}
         /\ \A i \in 1..Len(D) :
              Taken(D, B)[i] = Taken(D, B)[i - 1] \cup PickFor(D[i], B, Taken(D, B)[i - 1])
<1> DEFINE T == Taken(D, B)
<1>1. T = CHOOSE g : IsTakenUpTo(D, B, Len(D), g)
  BY DEF Taken, IsTakenUpTo, TakeNext
<1>2. IsTakenUpTo(D, B, Len(D), T)
  BY <1>1, TakenExists
<1> HIDE DEF T
<1>3. T = [i \in 0..Len(D) |-> IF i = 0 THEN {} ELSE TakeNext(D, B, i, T[i - 1])]
  BY <1>2 DEF IsTakenUpTo
<1>4. \A i \in 0..Len(D) : T[i] = IF i = 0 THEN {} ELSE TakeNext(D, B, i, T[i - 1])
  BY <1>3
<1>5. T[0] = {}
  BY <1>4
<1>6. \A i \in 1..Len(D) : T[i] = TakeNext(D, B, i, T[i - 1])
  BY <1>4
<1> QED
  BY <1>5, <1>6 DEF TakeNext, T

-----------------------------------------------------------------------------
IsList(L) == Len(L) \in Nat /\ DOMAIN L = 1..Len(L)

Fits(B, j, intent) == B[j].token = intent.token /\ OrderMatchesIntent(B[j], intent)

\* The order an intent takes is the first free one that fits it.
LEMMA PickIs ==
  ASSUME NEW intent, NEW B, IsList(B), NEW taken, NEW j \in PickFor(intent, B, taken)
  PROVE  /\ j \in DOMAIN B \ taken /\ Fits(B, j, intent)
         /\ PickFor(intent, B, taken) = {j}
         /\ \A m \in DOMAIN B \ taken : Fits(B, m, intent) => j <= m
<1> DEFINE fits == {m \in DOMAIN B \ taken :
                      B[m].token = intent.token /\ OrderMatchesIntent(B[m], intent)}
<1>1. PickFor(intent, B, taken) = IF fits = {} THEN {} ELSE {Min(fits)}
  BY DEF PickFor
<1>2. fits # {} /\ j = Min(fits) /\ PickFor(intent, B, taken) = {j}
  BY <1>1
<1>3. fits \in SUBSET Nat
  BY DEF IsList
<1>4. j \in fits /\ \A m \in fits : j <= m
  BY <1>2, <1>3, MinIsLeast
<1> QED
  BY <1>2, <1>4 DEF Fits

LEMMA PickIsFirst ==
  ASSUME NEW intent, NEW B, IsList(B), NEW taken, NEW j \in DOMAIN B \ taken,
         Fits(B, j, intent), \A m \in DOMAIN B \ taken : Fits(B, m, intent) => j <= m
  PROVE  PickFor(intent, B, taken) = {j}
<1> DEFINE fits == {m \in DOMAIN B \ taken :
                      B[m].token = intent.token /\ OrderMatchesIntent(B[m], intent)}
<1>1. PickFor(intent, B, taken) = IF fits = {} THEN {} ELSE {Min(fits)}
  BY DEF PickFor
<1>2. j \in fits /\ \A m \in fits : j <= m
  BY DEF Fits
<1>3. fits \in SUBSET Nat
  BY DEF IsList
<1> HIDE DEF fits
<1>4. Min(fits) \in fits /\ Min(fits) <= j
  BY <1>2, <1>3, MinIsLeast
<1>5. Min(fits) \in Nat /\ j \in Nat /\ j <= Min(fits)
  BY <1>2, <1>3, <1>4
<1>6. Min(fits) = j
  BY <1>4, <1>5
<1> QED
  BY <1>1, <1>2, <1>6

\* The order the i-th intent takes, and the intents that find none.
Chosen(D, B, i) == CHOOSE j : j \in PickFor(D[i], B, Taken(D, B)[i - 1])
Unmet(D, B) == {i \in DOMAIN D : Taken(D, B)[i] = Taken(D, B)[i - 1]}

LEMMA UnmetArePlaced ==
  ASSUME NEW D, NEW B
  PROVE  /\ DOMAIN DesiredToPlace(D, B) = Unmet(D, B)
         /\ \A i \in Unmet(D, B) : DesiredToPlace(D, B)[i] = D[i]
  BY DEF DesiredToPlace, Unmet

\* What the i-th step of the loop does.
LEMMA StepTakes ==
  ASSUME NEW D, NEW B, IsList(D), IsList(B), NEW i \in DOMAIN D
  PROVE  /\ i \notin Unmet(D, B) =>
              /\ Chosen(D, B, i) \in DOMAIN B \ Taken(D, B)[i - 1]
              /\ Fits(B, Chosen(D, B, i), D[i])
              /\ Taken(D, B)[i] = Taken(D, B)[i - 1] \cup {Chosen(D, B, i)}
              /\ \A m \in DOMAIN B \ Taken(D, B)[i - 1] :
                   Fits(B, m, D[i]) => Chosen(D, B, i) <= m
         /\ i \in Unmet(D, B) =>
              \A m \in DOMAIN B \ Taken(D, B)[i - 1] : ~Fits(B, m, D[i])
<1> DEFINE before == Taken(D, B)[i - 1]
           pick == PickFor(D[i], B, before)
<1>1. Taken(D, B)[i] = before \cup pick
  BY TakenIs DEF IsList
<1>2. ASSUME NEW j \in pick
      PROVE  /\ j \in DOMAIN B \ before /\ Fits(B, j, D[i]) /\ pick = {j}
             /\ \A m \in DOMAIN B \ before : Fits(B, m, D[i]) => j <= m
  BY PickIs
<1>3. CASE pick = {}
  <2>1. i \in Unmet(D, B)
    BY <1>1, <1>3 DEF Unmet
  <2>2. ASSUME NEW m \in DOMAIN B \ before, Fits(B, m, D[i]) PROVE FALSE
    <3> DEFINE fits == {k \in DOMAIN B \ before :
                          B[k].token = D[i].token /\ OrderMatchesIntent(B[k], D[i])}
    <3>1. m \in fits
      BY <2>2 DEF Fits
    <3> QED
      BY <1>3, <3>1 DEF PickFor
  <2> QED
    BY <2>1, <2>2
<1>4. CASE pick # {}
  <2>1. PICK j : j \in pick
    BY <1>4
  <2>2. Chosen(D, B, i) \in pick
    BY <2>1 DEF Chosen
  <2>3. PICK c : c = Chosen(D, B, i)
    OBVIOUS
  <2>4. /\ c \in DOMAIN B \ before /\ Fits(B, c, D[i]) /\ pick = {c}
        /\ \A m \in DOMAIN B \ before : Fits(B, m, D[i]) => c <= m
    BY <1>2, <2>2, <2>3
  <2>5. Taken(D, B)[i] = before \cup {c} /\ i \notin Unmet(D, B)
    BY <1>1, <2>4 DEF Unmet
  <2> QED
    BY <2>3, <2>4, <2>5
<1> QED
  BY <1>3, <1>4

\* The orders the first k intents take.
LEMMA TakenAre ==
  ASSUME NEW D, NEW B, IsList(D), IsList(B)
  PROVE  \A k \in 0..Len(D) :
           Taken(D, B)[k] = {Chosen(D, B, i) : i \in 1..k \ Unmet(D, B)}
<1> DEFINE n == Len(D)
           f(i) == Chosen(D, B, i)
           S == {k \in 0..n : Taken(D, B)[k] = {f(i) : i \in 1..k \ Unmet(D, B)}}
<1>1. 0 \in S
  BY TakenIs DEF IsList
<1>2. ASSUME NEW k \in 1..n, k - 1 \in S PROVE k \in S
  <2>1. k \in Nat /\ k \in DOMAIN D /\ 1..k = 1..(k - 1) \cup {k}
    BY DEF IsList
  <2>2. Taken(D, B)[k - 1] = {f(i) : i \in 1..(k - 1) \ Unmet(D, B)}
    BY <1>2
  <2>3. CASE k \in Unmet(D, B)
    <3>1. Taken(D, B)[k] = Taken(D, B)[k - 1]
      BY <2>3 DEF Unmet
    <3>2. 1..k \ Unmet(D, B) = 1..(k - 1) \ Unmet(D, B)
      BY <2>1, <2>3
    <3> QED
      BY <2>2, <3>1, <3>2
  <2>4. CASE k \notin Unmet(D, B)
    <3>1. Taken(D, B)[k] = Taken(D, B)[k - 1] \cup {f(k)}
      BY <2>1, <2>4, StepTakes
    <3>2. 1..k \ Unmet(D, B) = (1..(k - 1) \ Unmet(D, B)) \cup {k}
      BY <2>1, <2>4
    <3> HIDE DEF f
    <3>3. {f(i) : i \in 1..k \ Unmet(D, B)} = {f(i) : i \in 1..(k - 1) \ Unmet(D, B)} \cup {f(k)}
      BY <3>2
    <3>4. Taken(D, B)[k] = {f(i) : i \in 1..k \ Unmet(D, B)}
      BY <2>2, <3>1, <3>3
    <3> QED
      BY <3>4
  <2> QED
    BY <2>3, <2>4
<1>3. n \in Nat /\ S \in SUBSET (0..n)
  BY DEF IsList
<1> HIDE DEF S
<1>4. S = 0..n
  BY <1>1, <1>2, <1>3, CountUp
<1> QED
  BY <1>4 DEF S

\* No order is taken twice.
LEMMA TakenOnce ==
  ASSUME NEW D, NEW B, IsList(D), IsList(B),
         NEW i \in DOMAIN D \ Unmet(D, B), NEW k \in DOMAIN D \ Unmet(D, B),
         Chosen(D, B, i) = Chosen(D, B, k)
  PROVE  i = k
<1>1. ASSUME NEW a \in DOMAIN D \ Unmet(D, B), NEW b \in DOMAIN D \ Unmet(D, B), a < b
      PROVE  Chosen(D, B, a) # Chosen(D, B, b)
  <2>1. a \in 1..(b - 1) \ Unmet(D, B) /\ b - 1 \in 0..Len(D)
    BY <1>1 DEF IsList
  <2>2. Chosen(D, B, a) \in Taken(D, B)[b - 1]
    BY <2>1, TakenAre
  <2>3. Chosen(D, B, b) \notin Taken(D, B)[b - 1]
    BY StepTakes
  <2> QED
    BY <2>2, <2>3
<1>2. i < k \/ k < i \/ i = k
  BY DEF IsList
<1> QED
  BY <1>1, <1>2

\* When nothing is placed and nothing dropped the loop has matched one to one.
LEMMA NothingToDo ==
  ASSUME NEW D, NEW B, IsList(D), IsList(B),
         \A j, k \in DOMAIN B : B[j] = B[k] => j = k,
         DOMAIN DesiredToPlace(D, B) = {}, NoLongerDesired(D, B) = {}
  PROVE  /\ Len(B) = Len(D)
         /\ \E f \in [DOMAIN D -> DOMAIN B] :
              /\ \A i, k \in DOMAIN D : f[i] = f[k] => i = k
              /\ \A i \in DOMAIN D : OrderMatchesIntent(B[f[i]], D[i])
<1>1. Unmet(D, B) = {}
  BY UnmetArePlaced
<1>2. \A j \in DOMAIN B : j \in Taken(D, B)[Len(D)]
  <2>1. \A j \in DOMAIN B : B[j] \in Matched(D, B)
    BY DEF NoLongerDesired, ToSet
  <2> QED
    BY <2>1 DEF Matched
<1>3. PICK f : f = [i \in DOMAIN D |-> Chosen(D, B, i)]
  OBVIOUS
<1>4. \A i \in DOMAIN D : f[i] = Chosen(D, B, i)
  BY <1>3
<1>5. \A i \in DOMAIN D : f[i] \in DOMAIN B /\ Fits(B, f[i], D[i])
  BY <1>1, <1>4, StepTakes
<1>6. f \in [DOMAIN D -> DOMAIN B]
  BY <1>3, <1>5
<1>7. \A i, k \in DOMAIN D : f[i] = f[k] => i = k
  BY <1>1, <1>4, TakenOnce
<1>8. \A j \in DOMAIN B : \E i \in DOMAIN D : f[i] = j
  <2>1. Len(D) \in 0..Len(D) /\ DOMAIN D = 1..Len(D)
    BY DEF IsList
  <2> QED
    BY <1>1, <1>2, <1>4, <2>1, TakenAre
<1>9. f \in Bijection(DOMAIN D, DOMAIN B)
  BY <1>6, <1>7, <1>8 DEF Bijection, Injection, Surjection, IsInjective
<1>10. Cardinality(DOMAIN B) = Cardinality(DOMAIN D)
  <2>1. ExistsBijection(DOMAIN D, DOMAIN B)
    BY <1>9 DEF ExistsBijection
  <2>2. IsFiniteSet(DOMAIN D)
    BY FS_Interval DEF IsList
  <2> QED
    BY <2>1, <2>2, FS_Bijection
<1>11. Cardinality(DOMAIN B) = Len(B) /\ Cardinality(DOMAIN D) = Len(D)
  <2>1. /\ 1 \in Int /\ Len(B) \in Int /\ Len(D) \in Int
        /\ (IF 1 > Len(B) THEN 0 ELSE Len(B) - 1 + 1) = Len(B)
        /\ (IF 1 > Len(D) THEN 0 ELSE Len(D) - 1 + 1) = Len(D)
    BY DEF IsList
  <2> QED
    BY <2>1, FS_Interval DEF IsList
<1> QED
  BY <1>5, <1>6, <1>7, <1>10, <1>11 DEF Fits

-----------------------------------------------------------------------------
\* Lists are lists, and the orders of the book differ by their ids.
ListsInv ==
  /\ IsList(quotes) /\ IsList(book)
  /\ \A j, k \in DOMAIN book : book[j].id = book[k].id => j = k

LEMMA LenIs ==
  ASSUME NEW n \in Nat, NEW s, DOMAIN s = 1..n, s = [i \in 1..n |-> s[i]] PROVE Len(s) = n
<1>1. s \in Seq({s[i] : i \in 1..n})
  OBVIOUS
<1> QED
  BY <1>1

\* The orders that stay and the intents placed are finitely many.
LEMMA RoundSizes ==
  ASSUME ListsInv, NEW m, DOMAIN m.places \subseteq DOMAIN quotes
  PROVE  /\ IsFiniteSet({j \in DOMAIN book : book[j] \notin m.cancels})
         /\ IsFiniteSet(DOMAIN m.places)
         /\ Cardinality({j \in DOMAIN book : book[j] \notin m.cancels}) \in Nat
         /\ Cardinality(DOMAIN m.places) \in Nat
<1>1. IsFiniteSet(DOMAIN book) /\ IsFiniteSet(DOMAIN quotes)
  BY FS_Interval DEF ListsInv, IsList
<1>2. {j \in DOMAIN book : book[j] \notin m.cancels} \subseteq DOMAIN book
  OBVIOUS
<1> QED
  BY <1>1, <1>2, FS_Subset, FS_CardinalityType

LEMMA InOrderLen ==
  ASSUME NEW P, Cardinality(P) \in Nat
  PROVE  /\ Len(InOrder(P)) = Cardinality(P)
         /\ DOMAIN InOrder(P) = 1..Cardinality(P)
<1>1. InOrder(P) = [n \in 1..Cardinality(P) |-> InOrder(P)[n]]
      /\ DOMAIN InOrder(P) = 1..Cardinality(P)
  BY DEF InOrder
<1> QED
  BY <1>1, LenIs

LEMMA ListsStep == ListsInv /\ [RoundsNext]_roundsVars => ListsInv'
<1> SUFFICES ASSUME ListsInv, [RoundsNext]_roundsVars PROVE ListsInv'
  OBVIOUS
<1>1. CASE Round
  <2> DEFINE m == Diff(quotes, book)
  <2>1. DOMAIN m.places \subseteq DOMAIN quotes
    BY DEF Diff, DesiredToPlace
  <2>2. Len(Staying(m)) \in Nat /\ Len(Sent(m)) \in Nat
    BY <2>1, RoundSizes, InOrderLen DEF Staying, Sent
  <2>3. PICK n \in Nat : n = Len(Staying(m)) + Len(Sent(m))
    BY <2>2
  <2>4. book' = [j \in 1..n |-> OrderAt(m, j)]
    BY <1>1, <2>3 DEF Round, AfterDiff
  <2> HIDE DEF m
  <2>5. DOMAIN book' = 1..n /\ book' = [j \in 1..n |-> book'[j]]
    BY <2>4
  <2>6. Len(book') = n
    BY <2>5, LenIs
  <2>7. \A j \in 1..n : book'[j].id = j
    BY <2>4 DEF OrderAt, Resting
  <2>8. quotes' = quotes
    BY <1>1 DEF Round
  <2> QED
    BY <2>3, <2>5, <2>6, <2>7, <2>8 DEF ListsInv, IsList
<1>2. CASE Requote
  BY <1>2, RoundsAssumption DEF Requote, ListsInv, IsList
<1>3. CASE UNCHANGED roundsVars
  BY <1>3 DEF roundsVars, ListsInv, IsList
<1> QED
  BY <1>1, <1>2, <1>3 DEF RoundsNext

LEMMA ListsInit == RoundsInit => ListsInv
  BY RoundsAssumption DEF RoundsInit, ListsInv, IsList

\* diff() asks for nothing only when the confirmed orders are the desired ones,
\* one for one (core/execution/execution_actor.py), whatever the lists, the
\* prices and the book recovery left.
THEOREM QuietMeansQuotedHolds == RoundsSpec => []QuietMeansQuoted
<1>1. ListsInv => QuietMeansQuoted
  <2> SUFFICES ASSUME ListsInv, Quiet PROVE QuietMeansQuoted
    BY DEF QuietMeansQuoted
  <2>1. \A j, k \in DOMAIN book : book[j] = book[k] => j = k
    BY DEF ListsInv, IsList
  <2>2. DOMAIN DesiredToPlace(quotes, book) = {} /\ NoLongerDesired(quotes, book) = {}
    BY DEF Quiet, Diff
  <2> QED
    BY <2>1, <2>2, NothingToDo DEF ListsInv, IsList, QuietMeansQuoted
<1> QED
  BY <1>1, ListsInit, ListsStep, PTL DEF RoundsSpec

-----------------------------------------------------------------------------
(***************************************************************************)
(* InOrder lists a finite set of numbers by their rank in it.              *)
(***************************************************************************)
Rank(P, j) == Cardinality({k \in P : k <= j})

LEMMA RankInRange ==
  ASSUME NEW P \in SUBSET Nat, IsFiniteSet(P), NEW j \in P
  PROVE  Rank(P, j) \in 1..Cardinality(P)
<1> DEFINE below == {k \in P : k <= j}
<1>1. below \subseteq P /\ j \in below
  OBVIOUS
<1> HIDE DEF below
<1>2. /\ IsFiniteSet(below) /\ Cardinality(below) \in Nat /\ Cardinality(P) \in Nat
      /\ Cardinality(below) <= Cardinality(P)
  BY <1>1, FS_Subset, FS_CardinalityType
<1>3. Cardinality(below) # 0
  BY <1>1, <1>2, FS_EmptySet
<1> QED
  BY <1>2, <1>3 DEF Rank, below

LEMMA RankGrows ==
  ASSUME NEW P \in SUBSET Nat, IsFiniteSet(P), NEW j \in P, NEW k \in P, j < k
  PROVE  Rank(P, j) < Rank(P, k)
<1> DEFINE low == {l \in P : l <= j}
           high == {l \in P : l <= k}
<1>1. low \subseteq high /\ high \subseteq P /\ k \in high /\ k \notin low
  <2>1. \A l \in P : l \in Nat
    OBVIOUS
  <2>2. \A l \in P : l <= j => l <= k
    BY <2>1
  <2>3. k <= k /\ ~(k <= j)
    BY <2>1
  <2> QED
    BY <2>2, <2>3
<1> HIDE DEF low, high
<1>2. IsFiniteSet(high) /\ IsFiniteSet(low)
  BY <1>1, FS_Subset
<1>3. Cardinality(low) \in Nat /\ Cardinality(high) \in Nat
  BY <1>2, FS_CardinalityType
<1>4. Cardinality(low) <= Cardinality(high) /\ Cardinality(low) # Cardinality(high)
  BY <1>1, <1>2, FS_Subset
<1> QED
  BY <1>3, <1>4 DEF Rank, low, high

LEMMA InOrderIs ==
  ASSUME NEW P \in SUBSET Nat, IsFiniteSet(P)
  PROVE  /\ \A j \in P : InOrder(P)[Rank(P, j)] = j
         /\ \A r \in 1..Cardinality(P) : InOrder(P)[r] \in P /\ Rank(P, InOrder(P)[r]) = r
<1> DEFINE N == Cardinality(P)
           rank == [j \in P |-> Rank(P, j)]
<1>1. N \in Nat /\ IsFiniteSet(1..N) /\ Cardinality(1..N) = N
  <2>1. N \in Nat
    BY FS_CardinalityType
  <2>2. 1 \in Int /\ N \in Int /\ (IF 1 > N THEN 0 ELSE N - 1 + 1) = N
    BY <2>1
  <2> QED
    BY <2>1, <2>2, FS_Interval
<1>2. \A j, k \in P : Rank(P, j) = Rank(P, k) => j = k
  <2> SUFFICES ASSUME NEW j \in P, NEW k \in P, j # k PROVE Rank(P, j) # Rank(P, k)
    OBVIOUS
  <2>1. j < k \/ k < j
    OBVIOUS
  <2>2. Rank(P, j) \in 1..N /\ Rank(P, k) \in 1..N
    BY RankInRange
  <2> QED
    BY <2>1, <2>2, RankGrows
<1>3. rank \in Injection(P, 1..N)
  <2>1. rank \in [P -> 1..N]
    BY RankInRange
  <2> QED
    BY <2>1, <1>2 DEF Injection, IsInjective
<1>4. rank \in Surjection(P, 1..N)
  BY <1>1, <1>3, FS_Injection
<1>5. \A r \in 1..N : \E j \in P : Rank(P, j) = r
  BY <1>4 DEF Surjection
<1>6. \A r \in 1..N : InOrder(P)[r] = CHOOSE j \in P : Rank(P, j) = r
  BY DEF InOrder, Rank
<1>7. ASSUME NEW r \in 1..N PROVE InOrder(P)[r] \in P /\ Rank(P, InOrder(P)[r]) = r
  BY <1>5, <1>6
<1>8. ASSUME NEW j \in P PROVE InOrder(P)[Rank(P, j)] = j
  BY <1>2, <1>7, RankInRange
<1> QED
  BY <1>7, <1>8

-----------------------------------------------------------------------------
(***************************************************************************)
(* One round settles: what stays and what is placed is found again, each   *)
(* order by the intent it stayed or was placed for.                        *)
(***************************************************************************)
LEMMA RestingIs ==
  ASSUME NEW y, NEW x
  PROVE  /\ Resting(y, x).token = x.token /\ Resting(y, x).side = x.side
         /\ Resting(y, x).price = x.price /\ Resting(y, x).terms = x.terms
  BY DEF Resting

LEMMA RestingFits ==
  ASSUME NEW A, NEW B, NEW j, NEW y, NEW intent, A[y] = Resting(y, B[j])
  PROVE  Fits(A, y, intent) <=> Fits(B, j, intent)
<1>1. /\ A[y].token = B[j].token /\ A[y].side = B[j].side
      /\ A[y].price = B[j].price /\ A[y].terms = B[j].terms
  BY DEF Resting
<1> QED
  BY <1>1 DEF Fits, OrderMatchesIntent

LEMMA PlacedFits ==
  ASSUME NEW A, NEW y, NEW intent, intent.price \in Int, intent.tick \in Nat,
         A[y] = Resting(y, intent)
  PROVE  Fits(A, y, intent)
<1>1. /\ A[y].token = intent.token /\ A[y].side = intent.side
      /\ A[y].price = intent.price /\ A[y].terms = intent.terms
  BY DEF Resting
<1>2. WithinTick(intent.price, intent.price, intent.tick)
  BY DEF WithinTick
<1> QED
  BY <1>1, <1>2 DEF Fits, OrderMatchesIntent

\* A is the list D asks for after a round that started from B: first the orders kept,
\* at their ranks among the positions K taken, then those placed, at theirs in Q.
Follows(D, B, A) ==
  LET K == Taken(D, B)[Len(D)]
      Q == Unmet(D, B)
      N == Cardinality(K)
  IN  /\ IsList(A)
      /\ \A j \in K : Rank(K, j) \in DOMAIN A /\ A[Rank(K, j)] = Resting(Rank(K, j), B[j])
      /\ \A i \in Q : /\ N + Rank(Q, i) \in DOMAIN A
                      /\ A[N + Rank(Q, i)] = Resting(N + Rank(Q, i), D[i])
      /\ \A y \in DOMAIN A : \/ \E j \in K : y = Rank(K, j)
                             \/ \E i \in Q : y = N + Rank(Q, i)

LEMMA TakenInRange ==
  ASSUME NEW D, NEW B, IsList(D), IsList(B), NEW k \in 0..Len(D)
  PROVE  Taken(D, B)[k] \in SUBSET (DOMAIN B)
<1>1. \A i \in 1..k \ Unmet(D, B) : Chosen(D, B, i) \in DOMAIN B
  <2> SUFFICES ASSUME NEW i \in 1..k \ Unmet(D, B) PROVE Chosen(D, B, i) \in DOMAIN B
    OBVIOUS
  <2>1. i \in DOMAIN D /\ i \notin Unmet(D, B)
    BY DEF IsList
  <2> QED
    BY <2>1, StepTakes
<1> QED
  BY <1>1, TakenAre

\* Where the order of the i-th intent is after the round.
Place(D, B, i) ==
  IF i \in Unmet(D, B) THEN Cardinality(Taken(D, B)[Len(D)]) + Rank(Unmet(D, B), i)
  ELSE Rank(Taken(D, B)[Len(D)], Chosen(D, B, i))

LEMMA NextRoundFinds ==
  ASSUME NEW D, NEW B, NEW A, IsList(D), IsList(B), Follows(D, B, A),
         \A i \in DOMAIN D : D[i].price \in Int /\ D[i].tick \in Nat
  PROVE  /\ Unmet(D, A) = {}
         /\ Taken(D, A)[Len(D)] = DOMAIN A
<1> DEFINE n == Len(D)
           K == Taken(D, B)[n]
           Q == Unmet(D, B)
           N == Cardinality(K)
           f(i) == Chosen(D, B, i)
           g(i) == Place(D, B, i)
<1>1. /\ n \in Nat /\ DOMAIN D = 1..n /\ n \in 0..n /\ IsList(A)
      /\ K \in SUBSET Nat /\ IsFiniteSet(K) /\ Q \in SUBSET Nat /\ IsFiniteSet(Q) /\ N \in Nat
  <2>1. n \in Nat /\ DOMAIN D = 1..n /\ n \in 0..n /\ IsList(A)
    BY DEF IsList, Follows
  <2>2. K \in SUBSET (1..Len(B)) /\ Q \in SUBSET (1..n) /\ Len(B) \in Nat
    <3>1. K \in SUBSET (DOMAIN B)
      BY <2>1, TakenInRange
    <3>2. DOMAIN B = 1..Len(B) /\ Len(B) \in Nat
      BY DEF IsList
    <3>3. Q \in SUBSET (DOMAIN D)
      BY DEF Unmet
    <3> HIDE DEF K, Q
    <3> QED
      BY <2>1, <3>1, <3>2, <3>3
  <2>3. IsFiniteSet(1..Len(B)) /\ IsFiniteSet(1..n)
    <3>1. 1 \in Int /\ Len(B) \in Int /\ n \in Int
      BY <2>1, <2>2
    <3> HIDE DEF n
    <3> QED
      BY <3>1, FS_Interval
  <2> HIDE DEF K, Q
  <2>4. IsFiniteSet(K) /\ IsFiniteSet(Q)
    BY <2>2, <2>3, FS_Subset
  <2>5. N \in Nat
    BY <2>4, FS_CardinalityType
  <2> QED
    BY <2>1, <2>2, <2>4, <2>5
<1>2. /\ \A j \in K : Rank(K, j) \in DOMAIN A /\ A[Rank(K, j)] = Resting(Rank(K, j), B[j])
      /\ \A i \in Q : /\ N + Rank(Q, i) \in DOMAIN A
                      /\ A[N + Rank(Q, i)] = Resting(N + Rank(Q, i), D[i])
      /\ \A y \in DOMAIN A : \/ \E j \in K : y = Rank(K, j)
                             \/ \E i \in Q : y = N + Rank(Q, i)
  BY DEF Follows
<1>3. \A k \in 0..n : Taken(D, B)[k] = {f(i) : i \in 1..k \ Q}
  BY TakenAre
<1>4. \A i \in DOMAIN D \ Q :
        /\ f(i) \in DOMAIN B \ Taken(D, B)[i - 1] /\ Fits(B, f(i), D[i])
        /\ \A m \in DOMAIN B \ Taken(D, B)[i - 1] : Fits(B, m, D[i]) => f(i) <= m
  BY StepTakes
<1>5. \A i \in Q : \A m \in DOMAIN B \ Taken(D, B)[i - 1] : ~Fits(B, m, D[i])
  <2>1. Q \subseteq DOMAIN D
    BY DEF Unmet
  <2> QED
    BY <2>1, StepTakes
<1>6. \A i, k \in DOMAIN D \ Q : f(i) = f(k) => i = k
  BY TakenOnce
<1>7. \A i \in DOMAIN D : g(i) = IF i \in Q THEN N + Rank(Q, i) ELSE Rank(K, f(i))
  BY DEF Place
<1>8. \A j \in K : Rank(K, j) \in 1..N
  BY <1>1, RankInRange
<1>9. \A i \in Q : Rank(Q, i) \in Nat \ {0}
  <2>1. Cardinality(Q) \in Nat
    BY <1>1, FS_CardinalityType
  <2>2. \A i \in Q : Rank(Q, i) \in 1..Cardinality(Q)
    BY <1>1, RankInRange
  <2> QED
    BY <2>1, <2>2
<1>10. \A j, l \in K : j < l => Rank(K, j) < Rank(K, l)
  BY <1>1, RankGrows
<1>11. \A j, l \in Q : j < l => Rank(Q, j) < Rank(Q, l)
  BY <1>1, RankGrows
<1>12. \A i \in DOMAIN D \ Q : f(i) \in K
  BY <1>1, <1>3
<1>13. \A j \in K : \E i \in DOMAIN D \ Q : j = f(i)
  BY <1>1, <1>3
<1>14. Q \subseteq DOMAIN D
  BY DEF Unmet
<1> HIDE DEF K, Q, N, f, g, n
\* Every position of A is the place of one intent.
<1>15. \A i \in DOMAIN D : g(i) \in DOMAIN A /\ Fits(A, g(i), D[i])
  <2> SUFFICES ASSUME NEW i \in DOMAIN D PROVE g(i) \in DOMAIN A /\ Fits(A, g(i), D[i])
    OBVIOUS
  <2>1. CASE i \in Q
    BY <1>2, <1>7, <2>1, PlacedFits
  <2>2. CASE i \notin Q
    BY <1>2, <1>4, <1>7, <1>12, <2>2, RestingFits
  <2> QED
    BY <2>1, <2>2
<1>16. \A y \in DOMAIN A : \E i \in DOMAIN D : y = g(i)
  <2> SUFFICES ASSUME NEW y \in DOMAIN A PROVE \E i \in DOMAIN D : y = g(i)
    OBVIOUS
  <2>1. CASE \E j \in K : y = Rank(K, j)
    BY <1>7, <1>13, <2>1
  <2>2. CASE \E i \in Q : y = N + Rank(Q, i)
    BY <1>7, <1>14, <2>2
  <2> QED
    BY <1>2, <2>1, <2>2
\* An intent finds nothing before its own place but what earlier intents took.
<1>17. ASSUME NEW i \in DOMAIN D, NEW l \in DOMAIN D, l >= i, Fits(A, g(l), D[i])
       PROVE  g(i) <= g(l)
  <2>1. i \in Nat /\ l \in Nat
    BY <1>1
  <2>2. CASE l \notin Q
    <3>1. PICK j \in K : j = f(l)
      BY <1>12, <2>2
    <3>2. g(l) = Rank(K, j) /\ Rank(K, j) \in 1..N
      BY <1>7, <1>8, <2>2, <3>1
    <3>3. Fits(B, j, D[i])
      BY <1>2, <1>17, <3>2, RestingFits
    <3>4. j \in DOMAIN B \ Taken(D, B)[i - 1]
      <4>1. j \in DOMAIN B
        BY <1>4, <2>2, <3>1
      <4>2. ASSUME j \in Taken(D, B)[i - 1] PROVE FALSE
        <5>1. i - 1 \in 0..n
          BY <1>1
        <5>2. PICK k \in 1..(i - 1) \ Q : j = f(k)
          BY <1>3, <4>2, <5>1
        <5>3. k \in DOMAIN D \ Q /\ k # l
          BY <1>1, <1>17, <2>1, <5>1, <5>2
        <5> QED
          BY <1>6, <2>2, <3>1, <5>2, <5>3
      <4> QED
        BY <4>1, <4>2
    <3>5. i \notin Q /\ f(i) <= j
      BY <1>4, <1>5, <3>3, <3>4
    <3>6. PICK c \in K : c = f(i)
      BY <1>12, <3>5
    <3>7. g(i) = Rank(K, c) /\ Rank(K, c) \in 1..N
      BY <1>7, <1>8, <3>5, <3>6
    <3>8. c \in Nat /\ j \in Nat /\ c <= j
      BY <1>1, <3>5, <3>6
    <3>9. CASE c = j
      BY <1>1, <3>2, <3>7, <3>9
    <3>10. CASE c < j
      BY <1>1, <1>10, <3>2, <3>7, <3>10
    <3> QED
      BY <3>8, <3>9, <3>10
  <2>3. CASE l \in Q
    <3>1. g(l) = N + Rank(Q, l) /\ Rank(Q, l) \in Nat \ {0}
      BY <1>7, <1>9, <2>3
    <3>2. CASE i \notin Q
      <4>1. g(i) \in 1..N
        BY <1>7, <1>8, <1>12, <3>2
      <4> QED
        BY <1>1, <3>1, <4>1
    <3>3. CASE i \in Q
      <4>1. g(i) = N + Rank(Q, i) /\ Rank(Q, i) \in Nat \ {0}
        BY <1>7, <1>9, <3>3
      <4>2. Rank(Q, i) <= Rank(Q, l)
        <5>1. CASE i = l
          BY <4>1, <5>1
        <5>2. CASE i < l
          BY <1>11, <2>3, <3>1, <3>3, <4>1, <5>2
        <5> QED
          BY <1>17, <2>1, <5>1, <5>2
      <4> QED
        BY <1>1, <3>1, <4>1, <4>2
    <3> QED
      BY <3>2, <3>3
  <2> QED
    BY <2>2, <2>3
<1>18. \A i, k \in DOMAIN D : g(i) = g(k) => i = k
  <2> SUFFICES ASSUME NEW i \in DOMAIN D, NEW k \in DOMAIN D, g(i) = g(k) PROVE i = k
    OBVIOUS
  <2>0. i \in Nat /\ k \in Nat
    BY <1>1
  <2>1. CASE i \in Q /\ k \in Q
    <3>1. N + Rank(Q, i) = N + Rank(Q, k) /\ Rank(Q, i) \in Nat /\ Rank(Q, k) \in Nat
      BY <1>7, <1>9, <2>1
    <3>2. Rank(Q, i) = Rank(Q, k)
      BY <1>1, <3>1
    <3> QED
      BY <1>11, <2>0, <2>1, <3>1, <3>2
  <2>2. CASE i \notin Q /\ k \notin Q
    <3>1. PICK a \in K, b \in K : a = f(i) /\ b = f(k)
      BY <1>12, <2>2
    <3>2. Rank(K, a) = Rank(K, b) /\ Rank(K, a) \in Nat /\ Rank(K, b) \in Nat
      BY <1>1, <1>7, <1>8, <2>2, <3>1
    <3>3. a \in Nat /\ b \in Nat
      BY <1>1
    <3>4. a = b
      BY <1>10, <3>2, <3>3
    <3> QED
      BY <1>6, <2>2, <3>1, <3>4
  <2>3. ASSUME NEW a \in Q, NEW b \in DOMAIN D \ Q PROVE g(a) # g(b)
    <3>1. g(a) = N + Rank(Q, a) /\ Rank(Q, a) \in Nat \ {0} /\ g(b) \in 1..N
      BY <1>7, <1>8, <1>9, <1>12, <1>14
    <3> QED
      BY <1>1, <3>1
  <2> QED
    BY <2>1, <2>2, <2>3
<1>19. \A k \in 0..n : Taken(D, A)[k] = {g(i) : i \in 1..k} /\ (k # 0 => k \notin Unmet(D, A))
  <2> DEFINE S == {k \in 0..n : /\ Taken(D, A)[k] = {g(i) : i \in 1..k}
                                /\ k # 0 => k \notin Unmet(D, A)}
  <2>0. /\ Taken(D, A)[0] = {}
        /\ \A i \in 1..n : Taken(D, A)[i] = Taken(D, A)[i - 1] \cup PickFor(D[i], A, Taken(D, A)[i - 1])
    BY TakenIs DEF IsList, n
  <2>1. 0 \in S
    BY <1>1, <2>0
  <2>2. ASSUME NEW k \in 1..n, k - 1 \in S PROVE k \in S
    <3>1. k \in DOMAIN D /\ k \in Nat /\ 1..k = 1..(k - 1) \cup {k}
      BY <1>1
    <3> DEFINE before == Taken(D, A)[k - 1]
    <3>2. before = {g(i) : i \in 1..(k - 1)}
      BY <2>2
    <3> HIDE DEF before
    <3>3. g(k) \in DOMAIN A \ before
      <4>1. \A i \in 1..(k - 1) : i \in DOMAIN D /\ i # k
        BY <1>1, <3>1
      <4> QED
        BY <1>15, <1>18, <3>1, <3>2, <4>1
    <3>4. ASSUME NEW y \in DOMAIN A \ before, Fits(A, y, D[k]) PROVE g(k) <= y
      <4>1. PICK l \in DOMAIN D : y = g(l)
        BY <1>16
      <4>2. l \notin 1..(k - 1)
        BY <3>2, <4>1
      <4>3. l >= k
        BY <1>1, <3>1, <4>2
      <4> QED
        BY <1>17, <3>1, <3>4, <4>1, <4>3
    <3>5. PickFor(D[k], A, before) = {g(k)}
      BY <1>1, <1>15, <3>1, <3>3, <3>4, PickIsFirst
    <3>6. Taken(D, A)[k] = before \cup {g(k)}
      BY <2>0, <3>5 DEF before
    <3>7. k \notin Unmet(D, A)
      BY <3>3, <3>6 DEF Unmet, before
    <3>8. Taken(D, A)[k] = {g(i) : i \in 1..k}
      BY <3>1, <3>2, <3>6
    <3> QED
      BY <3>7, <3>8
  <2>3. n \in Nat /\ S \in SUBSET (0..n)
    BY <1>1
  <2> HIDE DEF S
  <2>4. S = 0..n
    BY <2>1, <2>2, <2>3, CountUp
  <2> QED
    BY <2>4 DEF S
<1>20. Unmet(D, A) = {}
  <2>1. \A i \in DOMAIN D : i \in 0..n /\ i # 0
    BY <1>1
  <2> QED
    BY <2>1, <1>19 DEF Unmet
<1>21. Taken(D, A)[n] = DOMAIN A
  <2>1. Taken(D, A)[n] = {g(i) : i \in DOMAIN D}
    BY <1>1, <1>19
  <2> QED
    BY <2>1, <1>15, <1>16
<1> QED
  BY <1>20, <1>21 DEF n

-----------------------------------------------------------------------------
\* The positions that stay and the positions placed in a round.
Stay(m) == {j \in DOMAIN book : book[j] \notin m.cancels}

LEMMA RoundSets ==
  ASSUME ListsInv, NEW m, DOMAIN m.places \subseteq DOMAIN quotes
  PROVE  /\ Stay(m) \in SUBSET Nat /\ IsFiniteSet(Stay(m)) /\ Cardinality(Stay(m)) \in Nat
         /\ DOMAIN m.places \in SUBSET Nat /\ IsFiniteSet(DOMAIN m.places)
         /\ Cardinality(DOMAIN m.places) \in Nat
<1>1. DOMAIN book \in SUBSET Nat /\ DOMAIN quotes \in SUBSET Nat
  BY DEF ListsInv, IsList
<1>2. Stay(m) \subseteq DOMAIN book
  BY DEF Stay
<1> QED
  BY <1>1, <1>2, RoundSizes DEF Stay

\* The book after a round: what stays at its rank, then what is placed at its own.
LEMMA AfterDiffIs ==
  ASSUME ListsInv, NEW m, DOMAIN m.places \subseteq DOMAIN quotes
  PROVE  LET A == AfterDiff(m)
             N == Cardinality(Stay(m))
         IN  /\ IsList(A)
             /\ \A j \in Stay(m) :
                  /\ Rank(Stay(m), j) \in DOMAIN A
                  /\ A[Rank(Stay(m), j)] = Resting(Rank(Stay(m), j), book[j])
             /\ \A i \in DOMAIN m.places :
                  /\ N + Rank(DOMAIN m.places, i) \in DOMAIN A
                  /\ A[N + Rank(DOMAIN m.places, i)]
                       = Resting(N + Rank(DOMAIN m.places, i), m.places[i])
             /\ \A y \in DOMAIN A : \/ \E j \in Stay(m) : y = Rank(Stay(m), j)
                                    \/ \E i \in DOMAIN m.places : y = N + Rank(DOMAIN m.places, i)
<1> DEFINE A == AfterDiff(m)
           P == Stay(m)
           Q == DOMAIN m.places
           N == Cardinality(P)
           M == Cardinality(Q)
<1>1. P \in SUBSET Nat /\ IsFiniteSet(P) /\ N \in Nat /\ Q \in SUBSET Nat /\ IsFiniteSet(Q) /\ M \in Nat
  BY RoundSets
<1>2. /\ Staying(m) = InOrder(P) /\ Len(Staying(m)) = N
      /\ Sent(m) = InOrder(Q) /\ Len(Sent(m)) = M
  BY <1>1, InOrderLen DEF Staying, Sent, Stay
<1>3. A = [y \in 1..(N + M) |-> OrderAt(m, y)]
  BY <1>2 DEF AfterDiff
<1>4. \A y \in 1..N : OrderAt(m, y) = Resting(y, book[InOrder(P)[y]])
  BY <1>1, <1>2 DEF OrderAt
<1>5. \A r \in 1..M : OrderAt(m, N + r) = Resting(N + r, m.places[InOrder(Q)[r]])
  <2> SUFFICES ASSUME NEW r \in 1..M
               PROVE  OrderAt(m, N + r) = Resting(N + r, m.places[InOrder(Q)[r]])
    OBVIOUS
  <2>1. ~(N + r <= N) /\ (N + r) - N = r
    BY <1>1
  <2> QED
    BY <1>2, <2>1 DEF OrderAt
<1>6. /\ \A j \in P : Rank(P, j) \in 1..N /\ InOrder(P)[Rank(P, j)] = j
      /\ \A r \in 1..N : InOrder(P)[r] \in P /\ Rank(P, InOrder(P)[r]) = r
  BY <1>1, RankInRange, InOrderIs
<1>7. /\ \A i \in Q : Rank(Q, i) \in 1..M /\ InOrder(Q)[Rank(Q, i)] = i
      /\ \A r \in 1..M : InOrder(Q)[r] \in Q /\ Rank(Q, InOrder(Q)[r]) = r
  BY <1>1, RankInRange, InOrderIs
<1> HIDE DEF A, P, Q, N, M
<1>8. IsList(A)
  <2>1. DOMAIN A = 1..(N + M) /\ A = [y \in 1..(N + M) |-> A[y]]
    BY <1>3
  <2>2. N + M \in Nat
    BY <1>1
  <2> QED
    BY <2>1, <2>2, LenIs DEF IsList
<1>9. ASSUME NEW j \in P
      PROVE  Rank(P, j) \in DOMAIN A /\ A[Rank(P, j)] = Resting(Rank(P, j), book[j])
  <2>1. PICK r \in 1..N : r = Rank(P, j) /\ InOrder(P)[r] = j
    BY <1>6
  <2>2. r \in 1..(N + M)
    BY <1>1
  <2> QED
    BY <1>3, <1>4, <2>1, <2>2
<1>10. ASSUME NEW i \in Q
       PROVE  /\ N + Rank(Q, i) \in DOMAIN A
              /\ A[N + Rank(Q, i)] = Resting(N + Rank(Q, i), m.places[i])
  <2>1. PICK r \in 1..M : r = Rank(Q, i) /\ InOrder(Q)[r] = i
    BY <1>7
  <2>2. N + r \in 1..(N + M)
    BY <1>1
  <2> QED
    BY <1>3, <1>5, <2>1, <2>2
<1>11. ASSUME NEW y \in DOMAIN A
       PROVE  \/ \E j \in P : y = Rank(P, j)
              \/ \E i \in Q : y = N + Rank(Q, i)
  <2>1. y \in 1..(N + M) /\ y \in Nat
    BY <1>1, <1>3
  <2>2. CASE y <= N
    <3>1. y \in 1..N
      BY <1>1, <2>1, <2>2
    <3> QED
      BY <1>6, <3>1
  <2>3. CASE y > N
    <3>1. PICK r \in 1..M : y = N + r
      <4>1. y - N \in 1..M /\ y = N + (y - N)
        BY <1>1, <2>1, <2>3
      <4> QED
        BY <4>1
    <3> QED
      BY <1>7, <3>1
  <2>4. y <= N \/ y > N
    BY <1>1, <2>1
  <2> QED
    BY <2>2, <2>3, <2>4
<1> QED
  BY <1>8, <1>9, <1>10, <1>11 DEF A, P, Q, N

\* The orders of the book and the intents have the fields they should.
TypesInv ==
  /\ ListsInv
  /\ \A i \in DOMAIN quotes : quotes[i] \in Intents
  /\ \A i, k \in DOMAIN quotes : quotes[i].tick = quotes[k].tick
  /\ \A j \in DOMAIN book : book[j] \in Orders

LEMMA RestingType ==
  ASSUME NEW y \in Nat, NEW x \in Intents \cup Orders PROVE Resting(y, x) \in Orders
  BY DEF Resting, Intents, Orders

LEMMA TypesStep == TypesInv /\ [RoundsNext]_roundsVars => TypesInv'
<1> SUFFICES ASSUME TypesInv, [RoundsNext]_roundsVars PROVE TypesInv'
  OBVIOUS
<1>0. ListsInv'
  BY ListsStep DEF TypesInv
<1>1. CASE Round
  <2> DEFINE m == Diff(quotes, book)
  <2>1. DOMAIN m.places \subseteq DOMAIN quotes /\ \A i \in DOMAIN m.places : m.places[i] = quotes[i]
    BY DEF Diff, DesiredToPlace
  <2>2. book' = AfterDiff(m) /\ quotes' = quotes
    BY <1>1 DEF Round
  <2> HIDE DEF m
  <2>3. \A y \in DOMAIN book' :
          \/ \E j \in Stay(m) : book'[y] = Resting(y, book[j])
          \/ \E i \in DOMAIN m.places : book'[y] = Resting(y, m.places[i])
    BY <2>1, <2>2, AfterDiffIs DEF TypesInv
  <2>4. ASSUME NEW y \in DOMAIN book' PROVE book'[y] \in Orders
    <3>1. y \in Nat
      BY <1>0, <2>4 DEF ListsInv, IsList
    <3>2. PICK x \in Intents \cup Orders : book'[y] = Resting(y, x)
      BY <2>1, <2>3, <2>4 DEF Stay, TypesInv
    <3> QED
      BY <3>1, <3>2, RestingType
  <2> QED
    BY <1>0, <2>2, <2>4 DEF TypesInv
<1>2. CASE Requote
  <2>1. book' = book /\ quotes' \in Seq(Intents)
        /\ \A i, k \in DOMAIN quotes' : quotes'[i].tick = quotes'[k].tick
    BY <1>2, RoundsAssumption DEF Requote
  <2>2. \A i \in DOMAIN quotes' : quotes'[i] \in Intents
    BY <2>1
  <2> QED
    BY <1>0, <2>1, <2>2 DEF TypesInv
<1>3. CASE UNCHANGED roundsVars
  BY <1>0, <1>3 DEF roundsVars, TypesInv
<1> QED
  BY <1>1, <1>2, <1>3 DEF RoundsNext

LEMMA TypesInit == RoundsInit => TypesInv
<1> SUFFICES ASSUME RoundsInit PROVE TypesInv
  OBVIOUS
<1>1. quotes \in Seq(Intents) /\ book \in Seq(Orders)
      /\ \A i, k \in DOMAIN quotes : quotes[i].tick = quotes[k].tick
  BY RoundsAssumption DEF RoundsInit
<1>2. /\ \A i \in DOMAIN quotes : quotes[i] \in Intents
      /\ \A j \in DOMAIN book : book[j] \in Orders
  BY <1>1
<1> QED
  BY <1>1, <1>2, ListsInit DEF TypesInv

-----------------------------------------------------------------------------
\* With three ticks between opposite quotes nothing kept stands in the way.
LEMMA NothingCrosses ==
  ASSUME TypesInv, ApartBy(3) PROVE SelfCross(quotes, book) = {}
<1> SUFFICES ASSUME NEW o \in SelfCross(quotes, book) PROVE FALSE
  OBVIOUS
<1> DEFINE K == Taken(quotes, book)[Len(quotes)]
<1>1. PICK p \in Range(DesiredToPlace(quotes, book)) :
        Opposes(o, p) /\ WithinTick(o.price, p.price, quotes[1].tick)
  BY DEF SelfCross
<1>2. PICK k \in DOMAIN quotes : p = quotes[k]
  BY DEF DesiredToPlace, Range
<1>3. PICK j \in DOMAIN book : j \in K /\ o = book[j]
  BY DEF SelfCross, Matched
<1>4. /\ IsList(quotes) /\ IsList(book) /\ Len(quotes) \in 0..Len(quotes)
      /\ DOMAIN quotes = 1..Len(quotes)
  BY DEF TypesInv, ListsInv, IsList
<1>5. PICK i \in DOMAIN quotes : Fits(book, j, quotes[i])
  <2>1. PICK i \in DOMAIN quotes \ Unmet(quotes, book) : j = Chosen(quotes, book, i)
    BY <1>3, <1>4, TakenAre
  <2> QED
    BY <1>4, <2>1, StepTakes
<1>6. PICK a \in Intents : a = quotes[i]
  BY DEF TypesInv
<1>7. PICK b \in Intents : b = quotes[k]
  BY DEF TypesInv
<1>8. PICK c \in Orders : c = book[j]
  BY DEF TypesInv
<1>9. /\ a.side = c.side /\ WithinTick(c.price, a.price, a.tick)
      /\ c.side # b.side /\ WithinTick(c.price, b.price, a.tick)
  <2>1. 1 \in DOMAIN quotes
    BY <1>4
  <2>2. quotes[1].tick = a.tick
    BY <1>6, <2>1 DEF TypesInv
  <2>3. c.side = a.side /\ WithinTick(c.price, a.price, a.tick)
    BY <1>5, <1>6, <1>8 DEF Fits, OrderMatchesIntent
  <2>4. c.side # b.side /\ WithinTick(c.price, b.price, a.tick)
    BY <1>1, <1>2, <1>3, <1>7, <1>8, <2>2 DEF Opposes
  <2> QED
    BY <2>3, <2>4
<1>10. a.tick = b.tick
  BY <1>6, <1>7 DEF TypesInv
<1>11. a \in ToSet(quotes) /\ b \in ToSet(quotes)
  BY <1>6, <1>7 DEF ToSet
<1>12. PICK x \in Int, y \in Int, z \in Int, tick \in Nat \ {0} :
         x = a.price /\ y = b.price /\ z = c.price /\ tick = a.tick
  BY DEF Intents, Orders
<1>13. /\ z - x <= tick /\ x - z <= tick
       /\ z - y <= tick /\ y - z <= tick
  BY <1>9, <1>12 DEF WithinTick
<1>14. a.side \in {"BUY", "SELL"} /\ b.side \in {"BUY", "SELL"} /\ a.side # b.side
  BY <1>9 DEF Intents, Sides
<1>15. \/ y - x >= 3 * tick
       \/ x - y >= 3 * tick
  BY <1>10, <1>11, <1>12, <1>14 DEF ApartBy
<1> QED
  BY <1>13, <1>15

\* A round in which no kept order is in the way of a placement settles.
LEMMA RoundSettles ==
  ASSUME TypesInv, Round, SelfCross(quotes, book) = {} PROVE Quiet'
<1> DEFINE m == Diff(quotes, book)
           A == AfterDiff(m)
           K == Taken(quotes, book)[Len(quotes)]
<1>1. /\ IsList(quotes) /\ IsList(book) /\ Len(quotes) \in 0..Len(quotes)
      /\ \A j, k \in DOMAIN book : book[j] = book[k] => j = k
      /\ \A i \in DOMAIN quotes : quotes[i].price \in Int /\ quotes[i].tick \in Nat
  BY DEF TypesInv, ListsInv, IsList, Intents
<1>2. K \in SUBSET (DOMAIN book)
  BY <1>1, TakenInRange
<1>3. m.cancels = ToSet(book) \ {book[j] : j \in K}
  <2>1. Matched(quotes, book) = {book[j] : j \in K}
    BY <1>2 DEF Matched
  <2> QED
    BY <2>1 DEF Diff, NoLongerDesired
<1>4. Stay(m) = K
  BY <1>1, <1>2, <1>3 DEF Stay, ToSet
<1>5. /\ DOMAIN m.places = Unmet(quotes, book)
      /\ \A i \in Unmet(quotes, book) : m.places[i] = quotes[i]
      /\ Unmet(quotes, book) \subseteq DOMAIN quotes
  <2>1. m.places = DesiredToPlace(quotes, book)
    BY DEF Diff
  <2>2. /\ DOMAIN DesiredToPlace(quotes, book) = Unmet(quotes, book)
        /\ \A i \in Unmet(quotes, book) : DesiredToPlace(quotes, book)[i] = quotes[i]
    BY UnmetArePlaced
  <2>3. Unmet(quotes, book) \subseteq DOMAIN quotes
    BY DEF Unmet
  <2> HIDE DEF m
  <2> QED
    BY <2>1, <2>2, <2>3
<1> HIDE DEF m
<1>6. Follows(quotes, book, A)
  BY <1>4, <1>5, AfterDiffIs DEF TypesInv, Follows
<1> HIDE DEF A
<1>7. Unmet(quotes, A) = {} /\ Taken(quotes, A)[Len(quotes)] = DOMAIN A
  BY <1>1, <1>6, NextRoundFinds
<1>8. DesiredToPlace(quotes, A) = [i \in {} |-> quotes[i]]
  BY <1>7 DEF DesiredToPlace, Unmet
<1>9. NoLongerDesired(quotes, A) = {}
  <2>1. Matched(quotes, A) = {A[j] : j \in DOMAIN A}
    BY <1>7 DEF Matched
  <2> QED
    BY <2>1 DEF NoLongerDesired, ToSet
<1>10. SelfCross(quotes, A) = {}
  BY <1>8 DEF SelfCross, Range
<1>11. Diff(quotes, A).cancels = {} /\ DOMAIN Diff(quotes, A).places = {}
  BY <1>8, <1>9, <1>10 DEF Diff
<1>12. quotes' = quotes /\ book' = A
  BY DEF Round, A, m
<1> QED
  BY <1>11, <1>12 DEF Quiet

\* The orders within a tick of an opposite quote: those a placement may cancel.
InTheWay(D, B) ==
  {j \in DOMAIN B : \E k \in DOMAIN D :
     Opposes(B[j], D[k]) /\ WithinTick(B[j].price, D[k].price, D[1].tick)}

\* A new order is not in the way of any quote, two ticks apart as they are.
LEMMA PlacedOutOfTheWay ==
  ASSUME TypesInv, ApartBy(2), NEW i \in DOMAIN quotes, NEW y,
         NEW k \in DOMAIN quotes, Opposes(Resting(y, quotes[i]), quotes[k]),
         WithinTick(quotes[i].price, quotes[k].price, quotes[1].tick)
  PROVE  FALSE
<1>1. PICK a \in Intents : a = quotes[i]
  BY DEF TypesInv
<1>2. PICK b \in Intents : b = quotes[k]
  BY DEF TypesInv
<1>3. quotes[1].tick = a.tick /\ b.tick = a.tick
  <2>1. 1 \in DOMAIN quotes
    BY DEF TypesInv, ListsInv, IsList
  <2> QED
    BY <1>1, <1>2, <2>1 DEF TypesInv
<1>4. a \in ToSet(quotes) /\ b \in ToSet(quotes)
  BY <1>1, <1>2 DEF ToSet
<1>5. PICK x \in Int, z \in Int, tick \in Nat \ {0} :
        x = a.price /\ z = b.price /\ tick = a.tick
  BY DEF Intents
<1>6. x - z <= tick /\ z - x <= tick
  BY <1>1, <1>2, <1>3, <1>5 DEF WithinTick
<1>7. a.side \in {"BUY", "SELL"} /\ b.side \in {"BUY", "SELL"} /\ a.side # b.side
  BY <1>1, <1>2 DEF Opposes, Resting, Intents, Sides
<1>8. x - z >= 2 * tick \/ z - x >= 2 * tick
  BY <1>3, <1>4, <1>5, <1>7 DEF ApartBy
<1> QED
  BY <1>6, <1>8

\* A round that does not settle takes an order out of the way, and leaves fewer in the
\* way than there are quotes: at least one quote was placed and one order cancelled.
LEMMA RoundClears ==
  ASSUME TypesInv, Round, ApartBy(2), SelfCross(quotes, book) # {}
  PROVE  /\ IsFiniteSet(InTheWay(quotes, book)) /\ IsFiniteSet(InTheWay(quotes, book'))
         /\ Cardinality(InTheWay(quotes, book')) + 2 <= Len(quotes)
         /\ Cardinality(InTheWay(quotes, book')) + 1 <= Cardinality(InTheWay(quotes, book))
<1> DEFINE m == Diff(quotes, book)
           A == AfterDiff(m)
           n == Len(quotes)
           K == Taken(quotes, book)[n]
           Q == Unmet(quotes, book)
           P == Stay(m)
           E == InTheWay(quotes, book)
           F == InTheWay(quotes, A)
<1>1. /\ n \in Nat /\ DOMAIN quotes = 1..n /\ IsList(quotes) /\ n \in 0..n
      /\ Len(book) \in Nat /\ DOMAIN book = 1..Len(book) /\ IsList(book)
      /\ \A j, k \in DOMAIN book : book[j] = book[k] => j = k
  BY DEF TypesInv, ListsInv, IsList
<1>2. K \in SUBSET (DOMAIN book) /\ E \subseteq DOMAIN book /\ Q \subseteq DOMAIN quotes
  BY <1>1, TakenInRange DEF InTheWay, Unmet
<1>3. IsFiniteSet(DOMAIN book) /\ IsFiniteSet(DOMAIN quotes) /\ Cardinality(DOMAIN quotes) = n
  <2>1. 1 \in Int /\ n \in Int /\ Len(book) \in Int /\ (IF 1 > n THEN 0 ELSE n - 1 + 1) = n
    BY <1>1
  <2> QED
    BY <1>1, <2>1, FS_Interval
<1>4. IsFiniteSet(K) /\ IsFiniteSet(E) /\ IsFiniteSet(Q)
  BY <1>2, <1>3, FS_Subset
<1>5. /\ DOMAIN m.places = Q /\ \A i \in Q : m.places[i] = quotes[i]
      /\ m.cancels = NoLongerDesired(quotes, book) \cup SelfCross(quotes, book)
  <2>1. /\ m.places = DesiredToPlace(quotes, book)
        /\ m.cancels = NoLongerDesired(quotes, book) \cup SelfCross(quotes, book)
    BY DEF Diff
  <2> HIDE DEF m
  <2> QED
    BY <2>1, UnmetArePlaced
<1>6. Matched(quotes, book) = {book[j] : j \in K}
  BY <1>2 DEF Matched
<1>7. PICK x \in K : book[x] \in SelfCross(quotes, book) /\ x \in E /\ Q # {}
  <2>1. PICK o \in SelfCross(quotes, book) : TRUE
    OBVIOUS
  <2>2. PICK x \in K : o = book[x]
    BY <1>6, <2>1 DEF SelfCross
  <2>3. PICK i \in Q : /\ Opposes(book[x], quotes[i])
                       /\ WithinTick(book[x].price, quotes[i].price, quotes[1].tick)
    <3>1. PICK p \in Range(DesiredToPlace(quotes, book)) :
            Opposes(o, p) /\ WithinTick(o.price, p.price, quotes[1].tick)
      BY <2>1 DEF SelfCross
    <3>2. PICK i \in Q : p = quotes[i]
      BY <3>1, UnmetArePlaced DEF Range
    <3> QED
      BY <2>2, <3>1, <3>2
  <2>4. x \in E
    BY <1>2, <2>2, <2>3 DEF InTheWay
  <2> QED
    BY <2>1, <2>2, <2>3, <2>4
<1>8. P \subseteq K \ {x}
  <2>1. \A j \in P : book[j] \in Matched(quotes, book) /\ j \in DOMAIN book /\ j # x
    BY <1>5, <1>7 DEF Stay, NoLongerDesired, ToSet
  <2> QED
    BY <1>1, <1>2, <1>6, <2>1
<1> HIDE DEF m
<1>9. /\ IsList(A)
      /\ \A j \in P : A[Rank(P, j)] = Resting(Rank(P, j), book[j])
      /\ \A i \in Q : A[Cardinality(P) + Rank(Q, i)] = Resting(Cardinality(P) + Rank(Q, i), quotes[i])
      /\ \A y \in DOMAIN A : \/ \E j \in P : y = Rank(P, j)
                             \/ \E i \in Q : y = Cardinality(P) + Rank(Q, i)
  BY <1>2, <1>5, AfterDiffIs DEF TypesInv
<1> HIDE DEF A, K, Q, P, n
<1>10. \A y \in F : \E j \in P \cap E : y = Rank(P, j)
  <2> SUFFICES ASSUME NEW y \in F PROVE \E j \in P \cap E : y = Rank(P, j)
    OBVIOUS
  <2>1. PICK k \in DOMAIN quotes : /\ Opposes(A[y], quotes[k])
                                   /\ WithinTick(A[y].price, quotes[k].price, quotes[1].tick)
    BY DEF InTheWay
  <2>2. y \in DOMAIN A
    BY DEF InTheWay
  <2>3. ASSUME NEW j \in P, y = Rank(P, j) PROVE j \in E
    <3>1. A[y].token = book[j].token /\ A[y].side = book[j].side /\ A[y].price = book[j].price
      <4>1. A[y] = Resting(y, book[j])
        BY <1>9, <2>3
      <4> QED
        BY <4>1, RestingIs
    <3>2. j \in DOMAIN book
      BY <1>2, <1>8
    <3> QED
      BY <2>1, <3>1, <3>2 DEF InTheWay, Opposes
  <2>4. ASSUME NEW i \in Q, y = Cardinality(P) + Rank(Q, i) PROVE FALSE
    <3>1. A[y] = Resting(y, quotes[i]) /\ A[y].price = quotes[i].price /\ i \in DOMAIN quotes
      <4>1. A[y] = Resting(y, quotes[i])
        BY <1>9, <2>4
      <4> QED
        BY <1>2, <4>1, RestingIs
    <3> QED
      BY <2>1, <3>1, PlacedOutOfTheWay
  <2> QED
    BY <1>9, <2>2, <2>3, <2>4
<1>11. IsFiniteSet(P \cap E) /\ IsFiniteSet(F) /\ Cardinality(F) <= Cardinality(P \cap E)
  <2> DEFINE S == P \cap E
             h == [j \in S |-> Rank(P, j)]
             T == {Rank(P, j) : j \in S}
  <2>1. IsFiniteSet(S)
    BY <1>4, FS_Subset
  <2>2. h \in Surjection(S, T)
    BY DEF Surjection
  <2>3. F \subseteq T
    BY <1>10
  <2> HIDE DEF S, h, T, F
  <2>4. IsFiniteSet(T) /\ Cardinality(T) <= Cardinality(S)
    BY <2>1, <2>2, FS_Surjection
  <2>5. IsFiniteSet(F) /\ Cardinality(F) <= Cardinality(T)
    BY <2>3, <2>4, FS_Subset
  <2>6. Cardinality(F) \in Nat /\ Cardinality(T) \in Nat /\ Cardinality(S) \in Nat
    BY <2>1, <2>4, <2>5, FS_CardinalityType
  <2>7. Cardinality(F) <= Cardinality(S)
    BY <2>4, <2>5, <2>6
  <2> QED
    BY <2>1, <2>5, <2>7 DEF S
<1>12. /\ Cardinality(P \cap E) <= Cardinality(E) - 1
       /\ Cardinality(P \cap E) <= Cardinality(K) - 1
  <2>1. P \cap E \subseteq E \ {x} /\ P \cap E \subseteq K \ {x}
    BY <1>8
  <2>2. /\ IsFiniteSet(E \ {x}) /\ Cardinality(E \ {x}) = Cardinality(E) - 1
        /\ IsFiniteSet(K \ {x}) /\ Cardinality(K \ {x}) = Cardinality(K) - 1
    BY <1>4, <1>7, FS_RemoveElement
  <2> QED
    BY <2>1, <2>2, FS_Subset
<1>13. Cardinality(K) <= n - 1
  <2> DEFINE M == DOMAIN quotes \ Q
             c == [i \in M |-> Chosen(quotes, book, i)]
  <2>1. K = {Chosen(quotes, book, i) : i \in M}
    BY <1>1, TakenAre DEF K, Q, n
  <2>2. c \in Surjection(M, K)
    BY <2>1 DEF Surjection
  <2>3. PICK q \in Q : q \in DOMAIN quotes /\ M \subseteq DOMAIN quotes \ {q}
    BY <1>2, <1>7
  <2> HIDE DEF M, c
  <2>4. IsFiniteSet(DOMAIN quotes \ {q}) /\ Cardinality(DOMAIN quotes \ {q}) = n - 1
    BY <1>3, <2>3, FS_RemoveElement
  <2>5. IsFiniteSet(M) /\ Cardinality(M) <= n - 1
    BY <2>3, <2>4, FS_Subset
  <2>6. Cardinality(K) <= Cardinality(M)
    BY <2>2, <2>5, FS_Surjection
  <2>7. Cardinality(K) \in Nat /\ Cardinality(M) \in Nat
    BY <1>4, <2>5, FS_CardinalityType
  <2> QED
    BY <1>1, <2>5, <2>6, <2>7
<1>14. /\ Cardinality(F) \in Nat /\ Cardinality(P \cap E) \in Nat
       /\ Cardinality(E) \in Nat /\ Cardinality(K) \in Nat
  BY <1>4, <1>11, FS_CardinalityType
<1>15. Cardinality(F) + 2 <= n /\ Cardinality(F) + 1 <= Cardinality(E)
  BY <1>1, <1>11, <1>12, <1>13, <1>14
<1>16. book' = A
  BY DEF Round, A, m
<1> QED
  BY <1>4, <1>11, <1>15, <1>16 DEF n

\* Every round that did not settle has left one order less in the way.
SettleInv ==
  /\ TypesInv /\ rounds \in Nat /\ SettlesAtOnce
  /\ rounds >= 1 /\ ApartBy(2) =>
       Quiet \/ Cardinality(InTheWay(quotes, book)) + rounds + 1 <= Len(quotes)

LEMMA SettleStep == SettleInv /\ [RoundsNext]_roundsVars => SettleInv'
<1> SUFFICES ASSUME SettleInv, [RoundsNext]_roundsVars PROVE SettleInv'
  OBVIOUS
<1>1. CASE Round
  <2>1. /\ rounds' \in Nat /\ quotes' = quotes /\ rounds' <= rounds + 1 /\ rounds \in Nat
    BY <1>1 DEF Round, SettleInv
  <2>2. (ApartBy(3)' => ApartBy(3)) /\ (ApartBy(2)' => ApartBy(2))
    BY <2>1 DEF ApartBy
  <2>3. SettlesAtOnce'
    BY <1>1, <2>2, NothingCrosses, RoundSettles DEF SettlesAtOnce, SettleInv
  <2>4. ASSUME ApartBy(2), SelfCross(quotes, book) # {}
        PROVE  Cardinality(InTheWay(quotes', book')) + rounds' + 1 <= Len(quotes')
    <3>1. PICK old \in Nat, new \in Nat :
            /\ old = Cardinality(InTheWay(quotes, book))
            /\ new = Cardinality(InTheWay(quotes, book'))
            /\ new + 2 <= Len(quotes) /\ new + 1 <= old
      <4> DEFINE E == InTheWay(quotes, book)
                 F == InTheWay(quotes, book')
      <4>1. /\ IsFiniteSet(E) /\ IsFiniteSet(F)
            /\ Cardinality(F) + 2 <= Len(quotes) /\ Cardinality(F) + 1 <= Cardinality(E)
        BY <1>1, <2>4, RoundClears DEF SettleInv
      <4> HIDE DEF E, F
      <4>2. Cardinality(E) \in Nat /\ Cardinality(F) \in Nat
        BY <4>1, FS_CardinalityType
      <4> QED
        BY <4>1, <4>2 DEF E, F
    <3>2. Len(quotes) \in Nat
      BY DEF SettleInv, TypesInv, ListsInv, IsList
    <3>3. CASE rounds = 0
      BY <2>1, <3>1, <3>2, <3>3
    <3>4. CASE rounds >= 1
      <4>1. ~Quiet
        BY <2>4 DEF Quiet, Diff
      <4>2. Cardinality(InTheWay(quotes, book)) + rounds + 1 <= Len(quotes)
        BY <2>4, <3>4, <4>1 DEF SettleInv
      <4>3. old + rounds + 1 <= Len(quotes)
        BY <3>1, <4>2
      <4>4. new + rounds' + 1 <= Len(quotes)
        <5>1. PICK r \in Nat, q \in Nat, n \in Nat : r = rounds /\ q = rounds' /\ n = Len(quotes)
          BY <2>1, <3>2
        <5>2. q <= r + 1 /\ new + 1 <= old /\ old + r + 1 <= n
          BY <2>1, <3>1, <4>3, <5>1
        <5>3. new + q + 1 <= n
          BY <5>2
        <5> QED
          BY <5>1, <5>3
      <4> QED
        BY <2>1, <3>1, <4>4
    <3> QED
      BY <2>1, <3>3, <3>4
  <2>5. SelfCross(quotes, book) = {} => Quiet'
    BY <1>1, RoundSettles DEF SettleInv
  <2>6. TypesInv'
    BY TypesStep DEF SettleInv
  <2> QED
    BY <2>1, <2>2, <2>3, <2>4, <2>5, <2>6 DEF SettleInv
<1>2. CASE Requote
  <2>1. rounds' = 0 /\ TypesInv'
    BY <1>2, TypesStep DEF Requote, SettleInv
  <2> QED
    BY <2>1 DEF SettlesAtOnce, SettleInv
<1>3. CASE UNCHANGED roundsVars
  <2>1. TypesInv'
    BY TypesStep DEF SettleInv
  <2> QED
    BY <1>3, <2>1 DEF roundsVars, SettleInv, SettlesAtOnce, ApartBy, Quiet
<1> QED
  BY <1>1, <1>2, <1>3 DEF RoundsNext

\* The reconciliation of core/execution/execution_actor.py, diff(), settles within as
\* many rounds as there are quotes, and in one when opposite quotes are three ticks
\* apart, from every book of any length and for every list of quotes.
THEOREM SettlesHolds == RoundsSpec => []Settles
<1>1. RoundsInit => SettleInv
  BY TypesInit DEF RoundsInit, SettleInv, SettlesAtOnce
<1>2. SettleInv => Settles
  <2> SUFFICES ASSUME SettleInv, rounds >= 1, rounds >= Len(quotes), ApartBy(2), ~Quiet PROVE FALSE
    BY DEF Settles, SettleInv
  <2>1. Cardinality(InTheWay(quotes, book)) + rounds + 1 <= Len(quotes)
    BY DEF SettleInv
  <2>2. rounds \in Nat /\ Len(quotes) \in Nat /\ IsFiniteSet(InTheWay(quotes, book))
    <3>1. InTheWay(quotes, book) \subseteq DOMAIN book /\ IsFiniteSet(DOMAIN book)
      BY FS_Interval DEF InTheWay, SettleInv, TypesInv, ListsInv, IsList
    <3> QED
      BY <3>1, FS_Subset DEF SettleInv, TypesInv, ListsInv, IsList
  <2>3. Cardinality(InTheWay(quotes, book)) \in Nat
    BY <2>2, FS_CardinalityType
  <2> QED
    BY <2>1, <2>2, <2>3
<1> QED
  BY <1>1, <1>2, SettleStep, PTL DEF RoundsSpec

-----------------------------------------------------------------------------
\* With one order that meets an intent, the other intent is placed and the order cancelled.
LEMMA OneIsExchanged ==
  ASSUME TypesInv, NEW met \in 1..2, NEW due \in 1..2, Len(quotes) = 2, Len(book) = 1,
         Fits(book, 1, quotes[met]), Opposes(book[1], quotes[due]),
         WithinTick(book[1].price, quotes[due].price, quotes[1].tick)
  PROVE  /\ met # due
         /\ Stay(Diff(quotes, book)) = {} /\ DOMAIN Diff(quotes, book).places = {due}
         /\ Diff(quotes, book).places[due] = quotes[due]
<1>1. /\ IsList(quotes) /\ IsList(book) /\ DOMAIN quotes = 1..2 /\ DOMAIN book = {1}
  BY DEF TypesInv, ListsInv, IsList
<1>2. ~Fits(book, 1, quotes[due])
  BY DEF Fits, OrderMatchesIntent, Opposes
<1>3. met # due
  BY <1>2
<1>4. due \in Unmet(quotes, book)
  BY <1>1, <1>2, StepTakes
<1>5. met \notin Unmet(quotes, book)
  <2>1. (met = 1 /\ due = 2) \/ (met = 2 /\ due = 1)
    BY <1>3
  <2>2. Taken(quotes, book)[0] = {}
    BY <1>1, TakenIs DEF IsList
  <2>3. Taken(quotes, book)[met - 1] = {}
    <3>1. CASE met = 1
      BY <2>2, <3>1
    <3>2. CASE met = 2 /\ due = 1
      <4>1. Taken(quotes, book)[1] = Taken(quotes, book)[1 - 1]
        BY <1>4, <3>2 DEF Unmet
      <4> QED
        BY <2>2, <3>2, <4>1
    <3> QED
      BY <2>1, <3>1, <3>2
  <2>4. 1 \in DOMAIN book \ Taken(quotes, book)[met - 1]
    BY <1>1, <2>3
  <2> QED
    BY <1>1, <1>3, <2>4, StepTakes
<1>6. Unmet(quotes, book) = {due}
  <2>1. Unmet(quotes, book) \subseteq {met, due}
    BY <1>1, <1>3 DEF Unmet
  <2> QED
    BY <1>4, <1>5, <2>1
<1>7. DOMAIN Diff(quotes, book).places = {due} /\ Diff(quotes, book).places[due] = quotes[due]
  BY <1>6, UnmetArePlaced DEF Diff
<1>8. book[1] \in Diff(quotes, book).cancels
  <2>1. book[1] \in ToSet(book)
    BY <1>1 DEF ToSet
  <2> QED
    BY <1>7, <2>1, DiffCancelsCrossed
<1>9. Stay(Diff(quotes, book)) = {}
  BY <1>1, <1>8 DEF Stay
<1> QED
  BY <1>3, <1>7, <1>9

LEMMA OneIsPlaced ==
  ASSUME ListsInv, NEW m, NEW i \in Nat, DOMAIN m.places = {i}, i \in DOMAIN quotes, Stay(m) = {}
  PROVE  Len(AfterDiff(m)) = 1 /\ AfterDiff(m)[1] = Resting(1, m.places[i])
<1> DEFINE A == AfterDiff(m)
<1>1. Cardinality(Stay(m)) = 0
  BY FS_EmptySet
<1>2. Rank(DOMAIN m.places, i) = 1
  <2>1. {k \in DOMAIN m.places : k <= i} = {i}
    OBVIOUS
  <2> QED
    BY <2>1, FS_Singleton DEF Rank
<1>3. /\ IsList(A)
      /\ 0 + 1 \in DOMAIN A /\ A[0 + 1] = Resting(0 + 1, m.places[i])
      /\ \A y \in DOMAIN A : y = 0 + 1
  <2>1. DOMAIN m.places \subseteq DOMAIN quotes
    OBVIOUS
  <2>2. LET N == Cardinality(Stay(m))
        IN  /\ IsList(A)
            /\ \A k \in DOMAIN m.places :
                 /\ N + Rank(DOMAIN m.places, k) \in DOMAIN A
                 /\ A[N + Rank(DOMAIN m.places, k)]
                      = Resting(N + Rank(DOMAIN m.places, k), m.places[k])
            /\ \A y \in DOMAIN A : \/ \E j \in Stay(m) : y = Rank(Stay(m), j)
                                   \/ \E k \in DOMAIN m.places :
                                        y = N + Rank(DOMAIN m.places, k)
    BY <2>1, AfterDiffIs
  <2> HIDE DEF A
  <2> QED
    BY <1>1, <1>2, <2>2
<1> HIDE DEF A
<1>4. /\ 1 \in DOMAIN A /\ A[1] = Resting(1, m.places[i])
      /\ \A y \in DOMAIN A : y = 1
  BY <1>3
<1>5. Len(A) = 1
  <2>1. Len(A) \in Nat /\ DOMAIN A = 1..Len(A)
    BY <1>3 DEF IsList
  <2>2. Len(A) >= 1 /\ Len(A) \in DOMAIN A
    BY <1>4, <2>1
  <2> QED
    BY <1>4, <2>2
<1> QED
  BY <1>4, <1>5 DEF A

LEMMA RoundAlternates ==
  ASSUME TypesInv, Alternating, Round PROVE Alternating' /\ book' # book
<1>1. PICK met, due \in 1..2 :
        /\ book[1].token = quotes[met].token /\ OrderMatchesIntent(book[1], quotes[met])
        /\ Opposes(book[1], quotes[due])
        /\ WithinTick(book[1].price, quotes[due].price, quotes[1].tick)
  BY DEF Alternating
<1>2. /\ Len(quotes) = 2 /\ Len(book) = 1
      /\ WithinTick(quotes[1].price, quotes[2].price, quotes[1].tick)
  BY DEF Alternating
<1>3. Fits(book, 1, quotes[met])
  BY <1>1 DEF Fits
<1> DEFINE m == Diff(quotes, book)
<1>4. met # due /\ Stay(m) = {} /\ DOMAIN m.places = {due} /\ m.places[due] = quotes[due]
  BY <1>1, <1>2, <1>3, OneIsExchanged
<1>5. /\ ListsInv /\ DOMAIN quotes = 1..2
      /\ quotes[met] \in Intents /\ quotes[due] \in Intents /\ quotes[1].tick = quotes[due].tick
  BY <1>2 DEF TypesInv, ListsInv, IsList
<1>6. quotes' = quotes /\ book' = AfterDiff(m)
  BY DEF Round
<1> HIDE DEF m
<1>7. Len(book') = 1 /\ book'[1] = Resting(1, quotes[due])
  BY <1>4, <1>5, <1>6, OneIsPlaced
<1>8. quotes[due].price \in Int /\ quotes[met].price \in Int /\ quotes[due].tick \in Nat
  BY <1>5 DEF Intents
<1>9. Fits(book', 1, quotes[due])
  BY <1>7, <1>8, PlacedFits
<1>10. Opposes(book'[1], quotes[met]) /\ book'[1].side # book[1].side
  BY <1>1, <1>7, RestingIs DEF Opposes, OrderMatchesIntent
<1>11. WithinTick(book'[1].price, quotes[met].price, quotes[1].tick)
  <2>1. book'[1].price = quotes[due].price
    BY <1>7, RestingIs
  <2>2. (due = 1 /\ met = 2) \/ (due = 2 /\ met = 1)
    BY <1>4
  <2> QED
    BY <1>2, <2>1, <2>2 DEF WithinTick
<1>12. Alternating'
  BY <1>2, <1>6, <1>7, <1>9, <1>10, <1>11 DEF Alternating, Fits
<1> QED
  BY <1>10, <1>12

\* Opposite quotes a tick apart (strategies/strategy_a.py, gate 6), one of them filled:
\* each round of core/execution/execution_actor.py, diff(), exchanges the open one for
\* the other, whatever the prices, the tick and the number of rounds.
THEOREM OneForTheOtherHolds == RoundsSpec => OneForTheOther
<1>1. TypesInv /\ [RoundsNext]_roundsVars =>
        [Alternating /\ Round => Alternating' /\ book' # book]_roundsVars
  BY RoundAlternates
<1> QED
  BY <1>1, TypesInit, TypesStep, PTL DEF RoundsSpec, OneForTheOther
=============================================================================
