----------------------------- MODULE MarketStream -----------------------------
(***************************************************************************)
(* core/execution/market_stream.py, MarketStreamGateway, with the exchange *)
(* at one end of the websocket and _consume_book with its BookStateStores  *)
(* at the other.  The gateway keeps a local book per token: a snapshot     *)
(* ("book") replaces it, a delta ("price_change") changes levels of it; a  *)
(* crossed result is counted, any other is put on book_queue.              *)
(*                                                                         *)
(* A book is a set of levels [side, price], without their sizes.  The      *)
(* gateway keeps a level under the key it finds in the frame: the price as *)
(* it is spelled (".48", "0.48" or a number) in a snapshot, str() of it in *)
(* a delta; only the books it emits have the price as a float.             *)
(*                                                                         *)
(* The exchange sends a snapshot when it serves a subscription, but may    *)
(* send deltas before it, may lose a delta, and spells each frame as it    *)
(* likes: the gateway checks no sequence numbers and cannot tell.          *)
(***************************************************************************)
EXTENDS Integers, Sequences, FiniteSets

CONSTANTS
  Tokens,
  Books,             \* the exchange's books, none of them crossed
  Spellings,         \* ways to write a price
  Str,               \* what str() makes of each of them
  DeltaThreshold,    \* delta_threshold
  BookCapacity, ResyncCapacity,         \* maxsize of book_queue and resync_queue
  MaxChanges, MaxLosses, MaxDrops, MaxWire   \* bounds: changes of books, lost deltas,
                                             \* lost connections, frames on the wire

Crossed(levels) ==
  \E bid, ask \in levels : bid.side = "BUY" /\ ask.side = "SELL" /\ bid.price >= ask.price

ASSUME MarketAssumption ==
  /\ \A b \in Books : ~Crossed(b)
  /\ Str \in [Spellings -> Spellings]
  /\ DeltaThreshold \in Nat \ {0} /\ BookCapacity \in Nat \ {0} /\ ResyncCapacity \in Nat
  /\ MaxChanges \in Nat

VARIABLES
  history,      \* exchange: the states of each token's book, oldest first
  served,       \* exchange: tokens it sends deltas of on this socket
  greeted,      \* exchange: tokens it sent the snapshot of on this socket
  wire,         \* frames sent and not read yet
  socket,       \* "open", "broken" (what came in is still read) or "closed"
  asked,        \* tokens whose subscription was sent on this socket
  subscribed,   \* _subscribed
  local,        \* _local_books: pairs <<level, key>>, with the version of the last frame
                \* applied and whether the book is sound: history of where it came from
  missedCount,  \* _missed_delta_counts
  reader,       \* the connect() task: "reading", or what it waits to put
  resyncs,      \* number of tokens in resync_queue
  bookQueue,    \* book_queue
  consuming,    \* _consume_book has neither left its loop nor died of an exception
  view,         \* BookStateStore of each token, with the same history
  counts        \* changes, deltas lost, as <<token, version>>, and number of connections lost

exchange == <<history, served, greeted>>
consumer == <<bookQueue, consuming, view>>
gateway == <<local, missedCount, reader, resyncs>>
vars == <<exchange, wire, socket, asked, subscribed, gateway, consumer, counts>>

Nothing == [version |-> 0, levels |-> {}, sound |-> FALSE]
Reading == [at |-> "reading"]

Init ==
  /\ history \in [Tokens -> {<<b>> : b \in Books}]
  /\ served = {} /\ greeted = {}
  /\ wire = <<>> /\ socket = "closed" /\ asked = {} /\ subscribed = {}
  /\ local = [t \in Tokens |-> Nothing]
  /\ missedCount = [t \in Tokens |-> 0]
  /\ reader = Reading /\ resyncs = 0 /\ bookQueue = <<>>
  /\ view = [t \in Tokens |-> Nothing] /\ consuming = TRUE
  /\ counts = [changes |-> 0, lost |-> {}, drops |-> 0]

-----------------------------------------------------------------------------
Latest(t) == history[t][Len(history[t])]

Snapshot(t, spelling) ==
  [type |-> "book", token |-> t, version |-> Len(history[t]), levels |-> Latest(t),
   spelling |-> spelling]

\* The exchange's book changes, levels that stay may get another size; a token it
\* serves has the delta sent or lost.
Change(t, book, resized, spelling) ==
  LET delta == [type |-> "price_change", token |-> t, version |-> Len(history[t]) + 1,
                set |-> (book \ Latest(t)) \cup resized, removed |-> Latest(t) \ book,
                spelling |-> spelling]
  IN  /\ counts.changes < MaxChanges
      /\ book # Latest(t) /\ resized \subseteq book \cap Latest(t)
      /\ history' = [history EXCEPT ![t] = Append(@, book)]
      /\ \/ /\ socket = "open" /\ t \in served
            /\ Len(wire) < MaxWire
            /\ wire' = Append(wire, delta)
            /\ counts' = [counts EXCEPT !.changes = @ + 1]
         \/ /\ socket = "open" /\ t \in served
            /\ Cardinality(counts.lost) < MaxLosses
            /\ counts' = [counts EXCEPT !.changes = @ + 1,
                                        !.lost = @ \cup {<<t, delta.version>>}]
            /\ UNCHANGED wire
         \/ /\ socket # "open" \/ t \notin served
            /\ counts' = [counts EXCEPT !.changes = @ + 1]
            /\ UNCHANGED wire
  /\ UNCHANGED <<served, greeted, socket, asked, subscribed, gateway, consumer>>

\* The exchange begins to serve a subscription: deltas from here on.
Serve(t) ==
  /\ socket = "open" /\ t \in asked \ served
  /\ served' = served \cup {t}
  /\ UNCHANGED <<history, greeted, wire, socket, asked, subscribed, gateway, consumer, counts>>

Greet(t) ==
  /\ socket = "open" /\ t \in served \ greeted
  /\ Len(wire) < MaxWire
  /\ \E spelling \in Spellings : wire' = Append(wire, Snapshot(t, spelling))
  /\ greeted' = greeted \cup {t}
  /\ UNCHANGED <<history, served, socket, asked, subscribed, gateway, consumer, counts>>

\* Mutant of Subscribe: only an open socket makes a token subscribed.
SubscribeIfOpen(t) ==
  /\ t \notin subscribed /\ socket = "open"
  /\ subscribed' = subscribed \cup {t}
  /\ UNCHANGED asked
  /\ UNCHANGED <<exchange, wire, socket, gateway, consumer, counts>>

\* subscribe(), called for a new token: remembered first, then sent if there is a
\* socket.  On a broken one the send raises, and the scanner loop logs that.
Subscribe(t) ==
  /\ t \notin subscribed
  /\ subscribed' = subscribed \cup {t}
  /\ asked' = IF socket = "open" THEN asked \cup {t} ELSE asked
  /\ UNCHANGED <<exchange, wire, socket, gateway, consumer, counts>>

\* Mutant of Connect: the new socket is left to later calls of subscribe().
ConnectSilently ==
  /\ socket = "closed"
  /\ socket' = "open"
  /\ UNCHANGED <<exchange, wire, asked, subscribed, gateway, consumer, counts>>

\* connect(): the new socket is told all that is subscribed.  The local books
\* stay what they were on the old one.
Connect ==
  /\ socket = "closed"
  /\ socket' = "open"
  /\ asked' = subscribed
  /\ UNCHANGED <<exchange, wire, subscribed, gateway, consumer, counts>>

\* The socket breaks: of what was sent, a part still comes in.
Break ==
  /\ socket = "open" /\ counts.drops < MaxDrops
  /\ counts' = [counts EXCEPT !.drops = @ + 1]
  /\ socket' = "broken"
  /\ served' = {} /\ greeted' = {} /\ asked' = {}
  /\ \E k \in 0..Len(wire) : wire' = SubSeq(wire, 1, k)
  /\ UNCHANGED <<history, subscribed, gateway, consumer>>

\* "async for" has read all there is of a broken socket, and raises.
Close ==
  /\ socket = "broken" /\ wire = <<>> /\ reader = Reading
  /\ socket' = "closed"
  /\ UNCHANGED <<exchange, wire, asked, subscribed, gateway, consumer, counts>>

-----------------------------------------------------------------------------
\* The key of a level: raw from a snapshot, through str() from a delta.
KeyOf(frame) == IF frame.type = "book" THEN frame.spelling ELSE Str[frame.spelling]

KeptUnder(book, key) == \A entry \in book.levels : entry[2] = key

\* Mutant of Applied: a level whose size became 0 stays in the book.
AppliedWithoutRemoval(frame) ==
  LET old == local[frame.token]
      key == KeyOf(frame)
  IN  IF frame.type = "book"
      THEN [version |-> frame.version, levels |-> frame.levels \X {key}, sound |-> TRUE]
      ELSE [version |-> frame.version,
            levels |-> old.levels \cup (frame.set \X {key}),
            sound |-> old.sound /\ old.version + 1 = frame.version /\ KeptUnder(old, key)]

\* The local book after a snapshot or a delta, which finds a level only under its own
\* key.  It is sound from a snapshot on, as long as every delta comes and is spelled as
\* the book is.
Applied(frame) ==
  LET old == local[frame.token]
      key == KeyOf(frame)
  IN  IF frame.type = "book"
      THEN [version |-> frame.version, levels |-> frame.levels \X {key}, sound |-> TRUE]
      ELSE [version |-> frame.version,
            levels |-> (old.levels \ (frame.removed \X {key})) \cup (frame.set \X {key}),
            sound |-> old.sound /\ old.version + 1 = frame.version /\ KeptUnder(old, key)]

\* float() of the keys: what a BookEvent tells of the local book.
Emitted(book) == [book EXCEPT !.levels = {entry[1] : entry \in book.levels}]

\* Mutant of Outcome: a crossed book is counted and emitted all the same.
OutcomeEmitted(t, book) ==
  /\ reader' = [at |-> "emit", token |-> t, book |-> book]
  /\ missedCount' = [missedCount EXCEPT ![t] = IF Crossed(book.levels) THEN @ + 1 ELSE 0]

\* A crossed book is counted, and at the threshold a resync is asked for; any other
\* resets the count and is emitted.
Outcome(t, book) ==
  IF Crossed(book.levels)
  THEN /\ missedCount' = [missedCount EXCEPT ![t] = @ + 1]
       /\ reader' = IF missedCount[t] + 1 >= DeltaThreshold
                    THEN [at |-> "resync", token |-> t] ELSE Reading
  ELSE /\ missedCount' = [missedCount EXCEPT ![t] = 0]
       /\ reader' = [at |-> "emit", token |-> t, book |-> book]

\* _apply_and_emit up to its put().  A delta without a local book is skipped.
Receive ==
  /\ reader = Reading /\ wire # <<>>
  /\ wire' = Tail(wire)
  /\ LET frame == Head(wire)
         t == frame.token
     IN  IF frame.type = "price_change" /\ local[t] = Nothing
         THEN UNCHANGED <<local, missedCount, reader>>
         ELSE /\ local' = [local EXCEPT ![t] = Applied(frame)]
              /\ Outcome(t, Emitted(Applied(frame)))
  /\ UNCHANGED <<exchange, socket, asked, subscribed, resyncs, consumer, counts>>

\* "await self._book_queue.put(book_event)".
Emit ==
  /\ reader.at = "emit"
  /\ Len(bookQueue) < BookCapacity
  /\ bookQueue' = Append(bookQueue, [token |-> reader.token, book |-> reader.book])
  /\ reader' = Reading
  /\ UNCHANGED <<exchange, wire, socket, asked, subscribed, local, missedCount, resyncs,
                 consuming, view, counts>>

\* Mutant of AskResync: the count goes on.
AskResyncStillCounting ==
  /\ reader.at = "resync"
  /\ resyncs < ResyncCapacity
  /\ resyncs' = resyncs + 1
  /\ reader' = Reading
  /\ UNCHANGED <<exchange, wire, socket, asked, subscribed, local, missedCount, consumer, counts>>

\* "await self._resync_queue.put(token_id)": nothing ever takes from that queue.
AskResync ==
  /\ reader.at = "resync"
  /\ resyncs < ResyncCapacity
  /\ resyncs' = resyncs + 1
  /\ missedCount' = [missedCount EXCEPT ![reader.token] = 0]
  /\ reader' = Reading
  /\ UNCHANGED <<exchange, wire, socket, asked, subscribed, local, consumer, counts>>

\* _consume_book takes an event and BookStateStore.update() replaces the book.  With
\* this event the task may end: apply() raises, or stop() was called meanwhile.
TakeBook ==
  /\ consuming /\ bookQueue # <<>>
  /\ consuming' \in BOOLEAN
  /\ bookQueue' = Tail(bookQueue)
  /\ view' = [view EXCEPT ![Head(bookQueue).token] = Head(bookQueue).book]
  /\ UNCHANGED <<exchange, wire, socket, asked, subscribed, gateway, counts>>

Reader == Connect \/ Close \/ Receive \/ Emit \/ AskResync
Service == \E t \in Tokens : Serve(t) \/ Greet(t)

Next ==
  \/ Reader \/ TakeBook \/ Break \/ Service
  \/ \E t \in Tokens : Subscribe(t)
  \/ \E t \in Tokens, book \in Books, spelling \in Spellings :
       \E resized \in SUBSET book : Change(t, book, resized, spelling)

\* The connect() task and the consumer run when they can and the exchange serves
\* what it was asked for; nothing makes a book change or a socket hold.
Fairness == WF_vars(Reader) /\ WF_vars(TakeBook) /\ WF_vars(Service)

Spec == Init /\ [][Next]_vars /\ Fairness

-----------------------------------------------------------------------------
LocalBooks ==
  [version : 0..(MaxChanges + 1), levels : SUBSET ((UNION Books) \X Spellings),
   sound : BOOLEAN]

\* Types, the queue within its size, and a count that is at the threshold only while the
\* reader waits to ask for the resync.
TypeOK ==
  /\ local \in [Tokens -> LocalBooks]
  /\ missedCount \in [Tokens -> 0..DeltaThreshold]
  /\ reader.at \in {"reading", "emit", "resync"}
  /\ \A t \in Tokens :
       missedCount[t] = DeltaThreshold <=> reader = [at |-> "resync", token |-> t]
  /\ Len(bookQueue) <= BookCapacity /\ resyncs <= ResyncCapacity
  /\ greeted \subseteq served /\ served \subseteq asked

\* core/execution/market_stream.py:199: "crossed book signals a missed or out-of-order
\* delta".  It signals that or a frame that spells prices otherwise: as long as no delta
\* is missing and all are spelled as the snapshot was, the local book is the exchange's
\* own at that version, with each level once.
CrossedMeansMissed ==
  \A t \in Tokens : local[t].sound =>
    \E key \in Spellings : local[t].levels = history[t][local[t].version] \X {key}

\* Every token ever subscribed is asked for on the socket that is open, however
\* subscribe() and connect() come together.
SubscriptionsReachSocket == socket = "open" => asked = subscribed

Feed == INSTANCE BookFeed WITH Tokens <- Tokens, Books <- Books, Crossed <- Crossed,
                              history <- history, view <- view

\* The gateway and the two queues give the quote engine a BookFeed: in order, never
\* crossed, and exact from each snapshot on until a delta is missing or spelled otherwise.
ImplementsBookFeed == Feed!Spec

Stuck == reader.at = "resync" /\ resyncs = ResyncCapacity

\* The gateway has a book of the token, but no longer a sound one.
Spoiled(t) == local[t] # Nothing /\ ~local[t].sound

\* A token that is subscribed is quoted from the newest book in the end, over lost
\* connections and full queues: it gets its snapshot on whatever socket there is, and
\* every delta.  The exceptions are a book spoiled since its snapshot by a delta that was
\* lost or spelled otherwise (the gateway cannot tell), a reader that waits for ever to ask
\* for a resync, and a consumer that has ended.
CatchesUp ==
  \A t \in Tokens :
    t \in subscribed ~>
      \/ view[t].version = Len(history[t])
      \/ Spoiled(t) \/ <<t, Len(history[t])>> \in counts.lost
      \/ Stuck \/ ~consuming
=============================================================================
