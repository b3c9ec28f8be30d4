----------------------------- MODULE UserStream -----------------------------
(***************************************************************************)
(* core/execution/user_stream.py, UserStreamGateway: one task reads the    *)
(* user websocket and puts every event on the bounded queue of its kind,   *)
(* waiting while that queue is full.  core/orchestrator.py makes the three *)
(* queues and starts one consumer, for the fills.                          *)
(*                                                                         *)
(* A frame is a sequence of events; an event is a record [kind, n], where  *)
(* n is its place in all that the exchange sent.                           *)
(***************************************************************************)
EXTENDS Integers, Sequences, SequencesExt

CONSTANTS
  Capacity,    \* maxsize of fill_queue, cancel_queue and ack_queue
  Frames,      \* bound: frames the exchange sends, as sequences of kinds
  MaxEvents,   \* bound: number of events in a behaviour
  MaxLosses    \* bound: lost connections in a behaviour

Kinds == {"fill", "cancel", "ack", "other"}
Queues == {"fill", "cancel", "ack"}

ASSUME StreamAssumption ==
  /\ Capacity \in Nat \ {0}
  /\ Frames \subseteq Seq(Kinds)
  /\ MaxEvents \in Nat /\ MaxLosses \in Nat

VARIABLES
  wire,       \* frames sent on the connection and not read yet
  connected,  \* the websocket is open
  pending,    \* events of the frame _handle_message is working on
  queue,      \* the three asyncio.Queues
  consumer,   \* _consume_fills: "get" or the fill being handled
  handled,    \* fills _handle_fill_event is done with, oldest first
  sent,       \* history: events the exchange sent, oldest first
  lost        \* history: number of lost connections

vars == <<wire, connected, pending, queue, consumer, handled, sent, lost>>

-----------------------------------------------------------------------------
Event(kind, n) == [kind |-> kind, n |-> n]

Idle == Event("other", 0)

\* The events of a frame of the given kinds, numbered on from what was sent.
Numbered(kinds) == [i \in DOMAIN kinds |-> Event(kinds[i], Len(sent) + i)]

Init ==
  /\ wire = <<>>
  /\ connected = TRUE
  /\ pending = <<>>
  /\ queue = [q \in Queues |-> <<>>]
  /\ consumer = Idle
  /\ handled = <<>>
  /\ sent = <<>>
  /\ lost = 0

\* The exchange sends what happened to the account; nothing is sent while the
\* socket is down.
Send(kinds) ==
  /\ connected
  /\ Len(sent) + Len(kinds) <= MaxEvents
  /\ wire' = Append(wire, Numbered(kinds))
  /\ sent' = sent \o Numbered(kinds)
  /\ UNCHANGED <<connected, pending, queue, consumer, handled, lost>>

\* "async for raw in ws": the next frame, when the last one is worked off.
Receive ==
  /\ pending = <<>>
  /\ wire # <<>>
  /\ pending' = Head(wire)
  /\ wire' = Tail(wire)
  /\ UNCHANGED <<connected, queue, consumer, handled, sent, lost>>

\* Mutant of Put: a full queue drops the event.
PutOrDrop(e) ==
  IF Len(queue[e.kind]) < Capacity
  THEN queue' = [queue EXCEPT ![e.kind] = Append(@, e)]
  ELSE UNCHANGED queue

\* "await queue.put(event)".
Put(e) ==
  /\ Len(queue[e.kind]) < Capacity
  /\ queue' = [queue EXCEPT ![e.kind] = Append(@, e)]

\* One turn of the loop in _handle_message.  An event of another type is
\* skipped; a put waits while its queue is full, connected or not.
Emit ==
  /\ pending # <<>>
  /\ LET e == Head(pending)
     IN  \/ e.kind \notin Queues /\ UNCHANGED queue
         \/ e.kind \in Queues /\ Put(e)
  /\ pending' = Tail(pending)
  /\ UNCHANGED <<wire, connected, consumer, handled, sent, lost>>

\* The socket breaks: the frames that had come in can still be read, the rest is
\* gone, and the exchange sends nothing of it again.
LoseConnection ==
  /\ connected
  /\ lost < MaxLosses
  /\ lost' = lost + 1
  /\ connected' = FALSE
  /\ \E k \in 0..Len(wire) : wire' = SubSeq(wire, 1, k)
  /\ UNCHANGED <<pending, queue, consumer, handled, sent>>

\* connect() sleeps and opens a new socket; it can do so only when all that came
\* in on the old one is worked off.
Reconnect ==
  /\ ~connected
  /\ pending = <<>> /\ wire = <<>>
  /\ connected' = TRUE
  /\ UNCHANGED <<wire, pending, queue, consumer, handled, sent, lost>>

\* Mutant of TakeFill: the consumer works only while the socket is open.
TakeFillOnline ==
  /\ connected
  /\ consumer = Idle
  /\ queue["fill"] # <<>>
  /\ consumer' = Head(queue["fill"])
  /\ queue' = [queue EXCEPT !["fill"] = Tail(@)]
  /\ UNCHANGED <<wire, connected, pending, handled, sent, lost>>

\* _consume_fills takes a fill, records it and awaits the fee refetch.
TakeFill ==
  /\ consumer = Idle
  /\ queue["fill"] # <<>>
  /\ consumer' = Head(queue["fill"])
  /\ queue' = [queue EXCEPT !["fill"] = Tail(@)]
  /\ UNCHANGED <<wire, connected, pending, handled, sent, lost>>

FillHandled ==
  /\ consumer # Idle
  /\ handled' = Append(handled, consumer)
  /\ consumer' = Idle
  /\ UNCHANGED <<wire, connected, pending, queue, sent, lost>>

Reader == Receive \/ Emit \/ Reconnect
FillConsumer == TakeFill \/ FillHandled

Next == Reader \/ FillConsumer \/ LoseConnection \/ \E kinds \in Frames : Send(kinds)

\* Both tasks run when they can; nothing makes the exchange send or the socket
\* stay up.
Spec == Init /\ [][Next]_vars /\ WF_vars(Reader) /\ WF_vars(FillConsumer)

-----------------------------------------------------------------------------
\* The stations of a fill, the last one first: handled, in work, queued, being
\* emitted, unread.
Way ==
  <<handled, IF consumer = Idle THEN <<>> ELSE <<consumer>>, queue["fill"], pending>> \o wire

\* As long as the socket holds, every fill is somewhere on the way to the position
\* ledger; whatever blocks behind it and whatever is lost, it is there once at most,
\* as it was sent, and no fill overtakes another.
FillsInOrder ==
  /\ lost = 0 => \A k \in DOMAIN sent :
       sent[k].kind = "fill" => \E s \in DOMAIN Way : sent[k] \in ToSet(Way[s])
  /\ \A s \in DOMAIN Way : ToSet(Way[s]) \subseteq ToSet(sent)
  /\ \A s, r \in DOMAIN Way : \A i \in DOMAIN Way[s], j \in DOMAIN Way[r] :
       s < r \/ (s = r /\ i < j) => Way[s][i].n < Way[r][j].n

\* The fills reported and not yet handled: in work, queued, being emitted or unread.
UnderWay ==
  {e \in {consumer} \cup ToSet(queue["fill"]) \cup ToSet(pending)
         \cup UNION {ToSet(frame) : frame \in ToSet(wire)} : e.kind = "fill"}

Feed == INSTANCE FillFeed WITH underway <- UnderWay, breaks <- lost

\* polymarket-bot-prd.md:251: "emits normalized fill, cancel, and order-state events".
\* The gateway, its queue and the consumer give the position ledger a FillFeed: each
\* fill once, in order, and none missing but the latest when a connection breaks.
ImplementsFillFeed == Feed!FeedSpec

\* The reader waits behind a full queue that nobody empties.
ReaderStuck ==
  /\ pending # <<>>
  /\ Head(pending).kind \in Queues \ {"fill"}
  /\ Len(queue[Head(pending).kind]) = Capacity

\* polymarket-bot-prd.md:251: the gateway "emits normalized fill, cancel, and
\* order-state events".  A fill that came in is emitted, slow consumer or lost socket
\* notwithstanding, unless the reader is stuck behind an ack or a cancel; one that is
\* emitted is handled in the end, be the reader stuck or the socket gone.
FillsGetThrough ==
  \A n \in 1..MaxEvents :
    LET fill == Event("fill", n)
        unread == \E s \in 4..Len(Way) : fill \in ToSet(Way[s])
    IN  /\ unread ~> ~unread \/ ReaderStuck
        /\ fill \in ToSet(queue["fill"]) ~> fill \in ToSet(handled)
=============================================================================
