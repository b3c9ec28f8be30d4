------------------------- MODULE MarketStreamProofs -------------------------
(***************************************************************************)
(* For any tokens, books, capacities and bounds: the gateway with its two  *)
(* queues implements BookFeed, and a local book that nothing is missing    *)
(* from is the exchange's.                                                 *)
(*                                                                         *)
(* The argument follows a book on its way.  What the frames on the wire    *)
(* say is true of the history, and per token they are in its order; so is  *)
(* the local book, not newer than the next frame; so are the queued books, *)
(* not newer than the local one; and the view is not newer than those.     *)
(***************************************************************************)
EXTENDS MarketStream, SequenceTheorems, TLAPS

Levels == UNION Books
Entry == [version : Nat, levels : SUBSET Levels, sound : BOOLEAN]
KeyedEntry == [version : Nat, levels : SUBSET (Levels \X Spellings), sound : BOOLEAN]
Frames ==
  [type : {"book"}, token : Tokens, version : Nat, levels : SUBSET Levels,
   spelling : Spellings] \cup
  [type : {"price_change"}, token : Tokens, version : Nat,
   set : SUBSET Levels, removed : SUBSET Levels, spelling : Spellings]
Events == [token : Tokens, book : Entry]
Readers ==
  [at : {"reading"}] \cup [at : {"resync"}, token : Tokens] \cup
  [at : {"emit"}, token : Tokens, book : Entry]

Types ==
  /\ history \in [Tokens -> Seq(Books)] /\ \A t \in Tokens : Len(history[t]) >= 1
  /\ wire \in Seq(Frames)
  /\ local \in [Tokens -> KeyedEntry]
  /\ reader \in Readers
  /\ bookQueue \in Seq(Events)
  /\ view \in [Tokens -> Entry]

\* A book with this version, and exactly so if it is sound.
Holds(t, book) ==
  /\ book.version \in 1..Len(history[t])
  /\ book.sound => book.levels = history[t][book.version]

\* The same of a local book, whose levels are kept under one spelling of their prices.
KeptTrue(t, book) ==
  /\ book.version \in 1..Len(history[t])
  /\ book.sound => \E key \in Spellings : book.levels = history[t][book.version] \X {key}

\* A frame tells what its version is, or how it differs from the one before.
Told(frame) ==
  LET h == history[frame.token]
      v == frame.version
  IN  /\ v \in 1..Len(h)
      /\ frame.type = "book" => frame.levels = h[v]
      /\ frame.type = "price_change" =>
           /\ v > 1
           /\ h[v] \ h[v - 1] \subseteq frame.set /\ frame.set \subseteq h[v]
           /\ frame.removed = h[v - 1] \ h[v]

WireTold == \A i \in 1..Len(wire) : Told(wire[i])

WireInOrder ==
  /\ \A i \in 1..Len(wire) : local[wire[i].token].version <= wire[i].version
  /\ \A i, j \in 1..Len(wire) :
       i < j /\ wire[i].token = wire[j].token => wire[i].version <= wire[j].version

LocalHolds == \A t \in Tokens : local[t] = Nothing \/ KeptTrue(t, local[t])

EmitsLocal ==
  reader.at = "emit" =>
    /\ Holds(reader.token, reader.book) /\ ~Crossed(reader.book.levels)
    /\ reader.book = Emitted(local[reader.token])

QueueHolds ==
  \A i \in 1..Len(bookQueue) :
    /\ Holds(bookQueue[i].token, bookQueue[i].book)
    /\ ~Crossed(bookQueue[i].book.levels)

QueueInOrder ==
  /\ \A i \in 1..Len(bookQueue) :
       /\ bookQueue[i].book.version <= local[bookQueue[i].token].version
       /\ view[bookQueue[i].token].version <= bookQueue[i].book.version
  /\ \A i, j \in 1..Len(bookQueue) :
       i < j /\ bookQueue[i].token = bookQueue[j].token =>
         bookQueue[i].book.version <= bookQueue[j].book.version
  /\ \A t \in Tokens : view[t].version <= local[t].version

FeedInv ==
  /\ Types /\ WireTold /\ WireInOrder /\ LocalHolds /\ EmitsLocal
  /\ QueueHolds /\ QueueInOrder

-----------------------------------------------------------------------------
LEMMA Appended ==
  ASSUME NEW S, NEW s \in Seq(S), NEW e \in S
  PROVE  /\ Append(s, e) \in Seq(S) /\ Len(Append(s, e)) = Len(s) + 1
         /\ \A i \in 1..(Len(s) + 1) : Append(s, e)[i] = IF i = Len(s) + 1 THEN e ELSE s[i]
  OBVIOUS

LEMMA Headed ==
  ASSUME NEW S, NEW s \in Seq(S), s # <<>>
  PROVE  /\ Tail(s) \in Seq(S) /\ Len(s) \in Nat \ {0} /\ Len(Tail(s)) = Len(s) - 1
         /\ Head(s) = s[1] /\ s[1] \in S
         /\ \A i \in 1..(Len(s) - 1) : Tail(s)[i] = s[i + 1]
  OBVIOUS

LEMMA Cut ==
  ASSUME NEW S, NEW s \in Seq(S), NEW k \in 0..Len(s)
  PROVE  /\ SubSeq(s, 1, k) \in Seq(S) /\ Len(SubSeq(s, 1, k)) = k
         /\ \A i \in 1..k : SubSeq(s, 1, k)[i] = s[i]
<1>1. k \in Nat /\ \A i \in 1..k : s[i] \in S
  OBVIOUS
<1>2. QED
  BY <1>1, SubSeqProperties

LEMMA Members ==
  ASSUME Types
  PROVE  /\ \A i \in 1..Len(wire) : wire[i] \in Frames
         /\ \A i \in 1..Len(bookQueue) :
              bookQueue[i].token \in Tokens /\ bookQueue[i].book \in Entry
<1>1. \A i \in 1..Len(wire) : wire[i] \in Frames
  BY ElementOfSeq DEF Types
<1>2. \A i \in 1..Len(bookQueue) : bookQueue[i] \in Events
  BY ElementOfSeq DEF Types
<1>3. QED
  BY <1>1, <1>2 DEF Events

LEMMA FeedInvInit == Init => FeedInv
<1> SUFFICES ASSUME Init PROVE FeedInv
  OBVIOUS
<1>1. Nothing \in Entry /\ Nothing \in KeyedEntry
  BY DEF Nothing, Entry, KeyedEntry
<1>2. Types
  <2>1. \A b \in Books : <<b>> \in Seq(Books)
    OBVIOUS
  <2>2. history \in [Tokens -> Seq(Books)] /\ \A t \in Tokens : Len(history[t]) >= 1
    <3>1. history \in [Tokens -> {<<b>> : b \in Books}]
      BY DEF Init
    <3>2. ASSUME NEW b \in Books PROVE <<b>> \in Seq(Books) /\ Len(<<b>>) >= 1
      OBVIOUS
    <3>3. QED
      BY <3>1, <3>2
  <2>3. QED
    BY <1>1, <2>2, EmptySeq DEF Init, Types, Reading, Readers
<1>3. /\ wire = <<>> /\ bookQueue = <<>> /\ reader.at = "reading"
      /\ \A t \in Tokens : local[t] = Nothing /\ view[t] = Nothing
  BY DEF Init, Reading
<1>4. Len(<<>>) = 0
  OBVIOUS
<1>5. QED
  BY <1>2, <1>3, <1>4 DEF FeedInv, WireTold, WireInOrder, LocalHolds, EmitsLocal, QueueHolds,
     QueueInOrder, Nothing

\* Steps that add no book, take none and change none.
LEMMA OthersKeepFeedInv ==
  ASSUME FeedInv,
         UNCHANGED <<history, wire, local, bookQueue, view>>,
         reader' = reader \/ reader' = Reading
  PROVE  FeedInv'
<1>1. Types'
  BY DEF FeedInv, Types, Reading, Readers
<1>2. EmitsLocal'
  BY DEF FeedInv, EmitsLocal, Reading, Holds
<1>3. QED
  BY <1>1, <1>2 DEF FeedInv, WireTold, WireInOrder, LocalHolds, QueueHolds, QueueInOrder, Holds,
     KeptTrue, Told

-----------------------------------------------------------------------------
\* Histories only get longer.
Grown ==
  /\ history' \in [Tokens -> Seq(Books)]
  /\ \A t \in Tokens :
       /\ Len(history'[t]) \in Nat /\ Len(history'[t]) >= Len(history[t])
       /\ \A v \in 1..Len(history[t]) : history'[t][v] = history[t][v]

LEMMA SameIsGrown == ASSUME Types, UNCHANGED history PROVE Grown
  BY DEF Types, Grown

LEMMA ChangeIsGrown ==
  ASSUME Types, NEW t \in Tokens, NEW book \in Books,
         history' = [history EXCEPT ![t] = Append(@, book)]
  PROVE  /\ Grown /\ Len(history[t]) \in Nat
         /\ Len(history'[t]) = Len(history[t]) + 1
         /\ history'[t][Len(history[t]) + 1] = book
<1>1. history[t] \in Seq(Books) /\ history'[t] = Append(history[t], book)
  BY DEF Types
<1>2. /\ history'[t] \in Seq(Books) /\ Len(history[t]) \in Nat
      /\ Len(history'[t]) = Len(history[t]) + 1
      /\ \A v \in 1..(Len(history[t]) + 1) :
           history'[t][v] = IF v = Len(history[t]) + 1 THEN book ELSE history[t][v]
  BY <1>1, Appended
<1>3. \A u \in Tokens \ {t} : history'[u] = history[u] /\ Len(history[u]) \in Nat
  BY DEF Types
<1>4. history' \in [Tokens -> Seq(Books)]
  BY <1>2 DEF Types
<1>5. QED
  BY <1>2, <1>3, <1>4 DEF Grown

\* The exchange's part: histories grow, old frames are lost at the end of the wire, new
\* ones tell the newest book of their token.
LEMMA ExchangeKeepsFeedInv ==
  ASSUME FeedInv, Grown, wire' \in Seq(Frames),
         \A i \in 1..Len(wire') :
           IF i <= Len(wire) THEN wire'[i] = wire[i]
           ELSE Told(wire[i])' /\ wire'[i].version = Len(history'[wire'[i].token]),
         UNCHANGED <<local, reader, bookQueue, view>>
  PROVE  FeedInv'
<1>1. \A u \in Tokens : \A b : Holds(u, b) => Holds(u, b)'
  <2> SUFFICES ASSUME NEW u \in Tokens, NEW b, Holds(u, b) PROVE Holds(u, b)'
    OBVIOUS
  <2>1. Len(history[u]) \in Nat
    BY DEF FeedInv, Types
  <2>2. /\ Len(history'[u]) \in Nat /\ Len(history'[u]) >= Len(history[u])
        /\ \A v \in 1..Len(history[u]) : history'[u][v] = history[u][v]
    BY DEF Grown
  <2>3. b.version \in 1..Len(history[u]) /\ b.version \in 1..Len(history'[u])
    BY <2>1, <2>2 DEF Holds
  <2>4. QED
    BY <2>2, <2>3 DEF Holds
<1>1a. \A u \in Tokens : \A b : KeptTrue(u, b) => KeptTrue(u, b)'
  <2> SUFFICES ASSUME NEW u \in Tokens, NEW b, KeptTrue(u, b) PROVE KeptTrue(u, b)'
    OBVIOUS
  <2>1. b.version \in 1..Len(history[u]) /\ Len(history[u]) \in Nat
    BY DEF FeedInv, Types, KeptTrue
  <2>2. /\ Len(history'[u]) \in Nat /\ Len(history'[u]) >= Len(history[u])
        /\ history'[u][b.version] = history[u][b.version]
    BY <2>1 DEF Grown
  <2>3. b.version \in 1..Len(history'[u])
    BY <2>1, <2>2
  <2>4. QED
    BY <2>2, <2>3 DEF KeptTrue
<1>2. ASSUME NEW f \in Frames, Told(f) PROVE Told(f)'
  <2>1. f.token \in Tokens /\ f.version \in Nat
    BY DEF Frames
  <2>2. Len(history[f.token]) \in Nat
    BY <2>1 DEF FeedInv, Types
  <2>3. /\ f.version \in 1..Len(history[f.token]) /\ f.version \in 1..Len(history'[f.token])
        /\ history'[f.token][f.version] = history[f.token][f.version]
        /\ f.version > 1 =>
             history'[f.token][f.version - 1] = history[f.token][f.version - 1]
    <3>1. PICK l \in Nat, m \in Nat, v \in Nat :
            l = Len(history[f.token]) /\ m = Len(history'[f.token]) /\ v = f.version /\ m >= l
      BY <2>1, <2>2 DEF Grown
    <3>2. v \in 1..l
      BY <1>2, <3>1 DEF Told
    <3>3. v \in 1..m /\ (v > 1 => v - 1 \in 1..l)
      BY <3>1, <3>2
    <3>4. \A k \in 1..l : history'[f.token][k] = history[f.token][k]
      BY <2>1, <3>1 DEF Grown
    <3> QED
      BY <3>1, <3>2, <3>3, <3>4
  <2>4. QED
    BY <1>2, <2>3 DEF Told
<1>3. /\ Len(wire) \in Nat /\ Len(wire') \in Nat
      /\ \A i \in 1..Len(wire) : wire[i] \in Frames
      /\ \A i \in 1..Len(wire') : wire'[i] \in Frames
  BY Members, ElementOfSeq DEF FeedInv, Types
<1>4. WireTold'
  <2>1. ASSUME NEW i \in 1..Len(wire'), i <= Len(wire) PROVE Told(wire[i])'
    <3>1. i \in 1..Len(wire) /\ wire'[i] = wire[i] /\ wire[i] \in Frames
      BY <1>3, <2>1
    <3>2. PICK f \in Frames : f = wire[i]
      BY <3>1
    <3>3. Told(f)
      BY <3>1, <3>2 DEF FeedInv, WireTold
    <3>4. Told(f)' /\ f = wire'[i]
      BY <1>2, <3>1, <3>2, <3>3
    <3>5. QED
      BY <3>4 DEF Told
  <2>2. QED
    BY <1>3, <2>1 DEF WireTold
<1>5. LocalHolds'
  BY <1>1a DEF FeedInv, LocalHolds, Nothing
<1>6. EmitsLocal'
  BY <1>1 DEF FeedInv, Types, EmitsLocal, Readers, Emitted
<1>7. QueueHolds'
  BY <1>1, Members DEF FeedInv, QueueHolds
<1>8. WireInOrder'
  <2>1. \A i \in 1..Len(wire') :
          /\ wire'[i].token \in Tokens /\ wire'[i].version \in 1..Len(history'[wire'[i].token])
    BY <1>3, <1>4 DEF WireTold, Told, Frames
  <2>2. \A t \in Tokens : local[t].version <= Len(history'[t]) /\ local[t].version \in Nat
    BY <1>5 DEF FeedInv, Types, KeyedEntry, LocalHolds, KeptTrue, Nothing, Grown
  <2>3. \A i \in 1..Len(wire') : local[wire'[i].token].version <= wire'[i].version
    BY <1>3, <2>1, <2>2, SMTT(20) DEF FeedInv, WireInOrder
  <2>4. ASSUME NEW i \in 1..Len(wire'), NEW j \in 1..Len(wire'),
               i < j, wire'[i].token = wire'[j].token
        PROVE  wire'[i].version <= wire'[j].version
    <3>1. CASE j <= Len(wire)
      BY <1>3, <2>4, <3>1 DEF FeedInv, WireInOrder
    <3>2. CASE j > Len(wire)
      BY <1>3, <2>1, <2>4, <3>2
    <3>3. QED
      BY <1>3, <3>1, <3>2
  <2>5. QED
    BY <2>3, <2>4 DEF WireInOrder
<1>9. Types'
  BY DEF FeedInv, Types, Grown
<1>10. QED
  BY <1>4, <1>5, <1>6, <1>7, <1>8, <1>9 DEF FeedInv, QueueInOrder

LEMMA ChangeKeepsFeedInv ==
  ASSUME FeedInv, NEW t \in Tokens, NEW book \in Books, NEW resized, NEW spelling \in Spellings,
         Change(t, book, resized, spelling)
  PROVE  FeedInv'
<1> DEFINE delta == [type |-> "price_change", token |-> t, version |-> Len(history[t]) + 1,
                     set |-> (book \ Latest(t)) \cup resized, removed |-> Latest(t) \ book,
                     spelling |-> spelling]
<1>1. /\ UNCHANGED <<local, reader, bookQueue, view>>
      /\ wire' = wire \/ wire' = Append(wire, delta)
      /\ history' = [history EXCEPT ![t] = Append(@, book)]
      /\ resized \subseteq book \cap Latest(t)
  BY DEF Change, gateway, consumer
<1>2. /\ Grown /\ Len(history[t]) \in Nat
      /\ Len(history'[t]) = Len(history[t]) + 1
      /\ history'[t][Len(history[t]) + 1] = book
  BY <1>1, ChangeIsGrown DEF FeedInv
<1>3. CASE wire' = wire
  BY <1>1, <1>2, <1>3, ExchangeKeepsFeedInv DEF FeedInv, Types
<1>4. CASE wire' = Append(wire, delta)
  <2>1. /\ Latest(t) \in Books /\ Len(history[t]) >= 1
        /\ Latest(t) = history'[t][Len(history[t])]
    <3>1. Latest(t) \in Books /\ Len(history[t]) >= 1
      BY <1>2, ElementOfSeq DEF FeedInv, Types, Latest
    <3>2. QED
      BY <1>2, <3>1 DEF Latest, Grown
  <2>2. delta \in Frames
    <3>1. /\ (book \ Latest(t)) \cup resized \in SUBSET Levels
          /\ Latest(t) \ book \in SUBSET Levels
      BY <1>1, <2>1 DEF Levels
    <3>2. QED
      BY <1>2, <3>1 DEF Frames
  <2> HIDE DEF delta
  <2>3. /\ wire' \in Seq(Frames) /\ Len(wire') = Len(wire) + 1 /\ Len(wire) \in Nat
        /\ \A i \in 1..(Len(wire) + 1) :
             wire'[i] = IF i = Len(wire) + 1 THEN delta ELSE wire[i]
    BY <1>4, <2>2, Appended DEF FeedInv, Types
  <2>4. ASSUME NEW i \in 1..Len(wire'), ~(i <= Len(wire))
        PROVE  Told(wire[i])' /\ wire'[i].version = Len(history'[wire'[i].token])
    <3>1. wire'[i] = delta
      BY <2>3, <2>4
    <3>2. /\ delta.token = t /\ delta.version = Len(history[t]) + 1
          /\ delta.type = "price_change"
          /\ delta.set = (book \ Latest(t)) \cup resized /\ delta.removed = Latest(t) \ book
      BY DEF delta
    <3>4. book \ Latest(t) \subseteq delta.set /\ delta.set \subseteq book
      BY <1>1, <3>2
    <3>3. QED
      BY <1>2, <2>1, <3>1, <3>2, <3>4 DEF Told
  <2>5. QED
    BY <1>1, <1>2, <2>3, <2>4, ExchangeKeepsFeedInv
<1>5. QED
  BY <1>1, <1>3, <1>4

LEMMA GreetKeepsFeedInv ==
  ASSUME FeedInv, NEW t \in Tokens, Greet(t)
  PROVE  FeedInv'
<1>0. PICK spelling \in Spellings : wire' = Append(wire, Snapshot(t, spelling))
  BY DEF Greet
<1> DEFINE frame == Snapshot(t, spelling)
<1>1. /\ UNCHANGED <<history, local, reader, bookQueue, view>>
      /\ wire' = Append(wire, frame)
  BY <1>0 DEF Greet, gateway, consumer
<1>2. Grown
  BY <1>1, SameIsGrown DEF FeedInv
<1>3. /\ Latest(t) \in Books /\ Len(history[t]) \in Nat /\ Len(history[t]) >= 1
      /\ Latest(t) = history[t][Len(history[t])]
  BY ElementOfSeq DEF FeedInv, Types, Latest
<1>4. /\ frame.token = t /\ frame.version = Len(history[t])
      /\ frame.type = "book" /\ frame.levels = Latest(t) /\ frame \in Frames
  BY <1>3 DEF Snapshot, Frames, Levels
<1> HIDE DEF frame
<1>5. /\ wire' \in Seq(Frames) /\ Len(wire') = Len(wire) + 1 /\ Len(wire) \in Nat
      /\ \A i \in 1..(Len(wire) + 1) : wire'[i] = IF i = Len(wire) + 1 THEN frame ELSE wire[i]
  BY <1>1, <1>4, Appended DEF FeedInv, Types
<1>6. ASSUME NEW i \in 1..Len(wire'), ~(i <= Len(wire))
      PROVE  Told(wire[i])' /\ wire'[i].version = Len(history'[wire'[i].token])
  <2>1. wire'[i] = frame
    BY <1>5, <1>6
  <2>2. QED
    BY <1>1, <1>3, <1>4, <2>1 DEF Told
<1>7. QED
  BY <1>1, <1>2, <1>5, <1>6, ExchangeKeepsFeedInv

LEMMA BreakKeepsFeedInv ==
  ASSUME FeedInv, Break
  PROVE  FeedInv'
<1>1. UNCHANGED <<history, local, reader, bookQueue, view>>
  BY DEF Break, gateway, consumer
<1>2. PICK k \in 0..Len(wire) : wire' = SubSeq(wire, 1, k)
  BY DEF Break
<1>3. /\ wire' \in Seq(Frames) /\ Len(wire') = k /\ Len(wire) \in Nat
      /\ \A i \in 1..k : wire'[i] = wire[i]
  BY <1>2, Cut DEF FeedInv, Types
<1>4. Grown
  BY <1>1, SameIsGrown DEF FeedInv
<1>5. QED
  BY <1>1, <1>3, <1>4, ExchangeKeepsFeedInv

-----------------------------------------------------------------------------
\* What the first frame makes of the local book is true, and not older than that.
LEMMA AppliedHolds ==
  ASSUME FeedInv, wire # <<>>, NEW t \in Tokens, t = Head(wire).token,
         ~(Head(wire).type = "price_change" /\ local[t] = Nothing)
  PROVE  /\ Applied(Head(wire)) \in KeyedEntry /\ KeptTrue(t, Applied(Head(wire)))
         /\ Applied(Head(wire)).version = Head(wire).version
<1> DEFINE frame == Head(wire)
           h == history[t]
           b == Applied(frame)
           key == KeyOf(frame)
<1>1. /\ frame \in Frames /\ Told(frame) /\ frame.version \in 1..Len(h) /\ Len(h) \in Nat
  BY Headed, SMTT(20) DEF FeedInv, Types, WireTold, Told
<1>2. local[t] \in KeyedEntry /\ (KeptTrue(t, local[t]) \/ local[t] = Nothing)
  BY DEF FeedInv, Types, LocalHolds
<1>3. key \in Spellings
  <2>1. frame.spelling \in Spellings
    BY <1>1 DEF Frames
  <2>2. QED
    BY <2>1, MarketAssumption DEF KeyOf
<1>4. CASE frame.type = "book"
  <2>1. b = [version |-> frame.version, levels |-> frame.levels \X {key}, sound |-> TRUE]
    BY <1>4 DEF Applied
  <2>2. frame.levels \in SUBSET Levels /\ frame.version \in Nat /\ frame.levels = h[frame.version]
    BY <1>1, <1>4 DEF Frames, Told
  <2> HIDE DEF key
  <2>3. frame.levels \X {key} \in SUBSET (Levels \X Spellings)
    BY <1>3, <2>2
  <2> DEFINE keyed == frame.levels \X {key}
  <2>4. b \in KeyedEntry
    <3> HIDE DEF b
    <3>1. b = [version |-> frame.version, levels |-> keyed, sound |-> TRUE]
      BY <2>1
    <3> HIDE DEF keyed
    <3>2. QED
      BY <2>2, <2>3, <3>1 DEF KeyedEntry, keyed
  <2>5. QED
    BY <1>1, <1>3, <2>1, <2>2, <2>4 DEF KeptTrue
<1>5. CASE frame.type = "price_change"
  <2>1. local[t] \in KeyedEntry /\ KeptTrue(t, local[t])
    BY <1>2, <1>5
  <2> DEFINE old == local[t]
  <2>2. /\ b.version = frame.version
        /\ b.levels = (old.levels \ (frame.removed \X {key})) \cup (frame.set \X {key})
        /\ b.sound = (old.sound /\ old.version + 1 = frame.version /\ KeptUnder(old, key))
        /\ b = [version |-> b.version, levels |-> b.levels, sound |-> b.sound]
    BY <1>5 DEF Applied
  <2>3. frame.set \in SUBSET Levels /\ frame.version \in Nat
    BY <1>1, <1>5 DEF Frames
  <2> HIDE DEF key, b
  <2>4. b \in KeyedEntry
    <3>1. frame.set \X {key} \in SUBSET (Levels \X Spellings)
      BY <1>3, <2>3
    <3>2. b.levels \in SUBSET (Levels \X Spellings)
      BY <2>1, <2>2, <3>1 DEF KeyedEntry
    <3>3. b.sound \in BOOLEAN
      BY <2>2
    <3>4. QED
      BY <2>2, <2>3, <3>2, <3>3 DEF KeyedEntry
  <2>5. ASSUME b.sound PROVE b.levels = h[b.version] \X {key}
    <3> DEFINE before == h[frame.version - 1]
               after == h[frame.version]
    <3>1. old.sound /\ old.version + 1 = frame.version /\ KeptUnder(old, key)
      BY <2>2, <2>5, Zenon
    <3>2. old.version = frame.version - 1
      BY <2>1, <2>3, <3>1 DEF KeyedEntry
    <3>3. PICK k \in Spellings : old.levels = before \X {k}
      BY <2>1, <3>1, <3>2 DEF KeptTrue
    <3>4. /\ after \ before \subseteq frame.set /\ frame.set \subseteq after
          /\ frame.removed = before \ after
      BY <1>1, <1>5 DEF Told
    <3> HIDE DEF before, after
    <3>5. old.levels = before \X {key}
      <4>1. \A level \in before : k = key
        <5> SUFFICES ASSUME NEW level \in before PROVE k = key
          OBVIOUS
        <5>1. <<level, k>> \in old.levels
          BY <3>3
        <5>2. <<level, k>>[2] = key
          BY <3>1, <5>1, Zenon DEF KeptUnder
        <5>3. QED
          BY <5>2
      <4>2. QED
        BY <3>3, <4>1
    <3>6. after \X {key} = ((before \X {key}) \ (frame.removed \X {key})) \cup (frame.set \X {key})
      BY <3>4
    <3>7. QED
      BY <2>2, <3>5, <3>6 DEF after
  <2>6. QED
    BY <1>1, <1>3, <2>2, <2>4, <2>5 DEF KeptTrue, b
<1>6. QED
  BY <1>1, <1>4, <1>5 DEF Frames

\* What is emitted of a local book is as true as the book is.
LEMMA EmittedHolds ==
  ASSUME NEW t \in Tokens, NEW book \in KeyedEntry, KeptTrue(t, book)
  PROVE  /\ Emitted(book) \in Entry /\ Holds(t, Emitted(book))
         /\ Emitted(book).version = book.version
<1> DEFINE plain == {entry[1] : entry \in book.levels}
<1>1. Emitted(book) = [version |-> book.version, levels |-> plain, sound |-> book.sound]
  <2>1. \A x : [book EXCEPT !.levels = x]
               = [version |-> book.version, levels |-> x, sound |-> book.sound]
    BY DEF KeyedEntry
  <2>2. QED
    BY <2>1, Zenon DEF Emitted
<1>2. \A entry \in book.levels : entry \in Levels \X Spellings
  BY DEF KeyedEntry
<1>3. plain \in SUBSET Levels
  BY <1>2
<1>4. Emitted(book) \in Entry
  BY <1>1, <1>3 DEF Entry, KeyedEntry
<1>5. ASSUME book.sound PROVE plain = history[t][book.version]
  <2>1. PICK key \in Spellings : book.levels = history[t][book.version] \X {key}
    BY <1>5 DEF KeptTrue
  <2>2. \A level \in history[t][book.version] : <<level, key>> \in book.levels
    BY <2>1
  <2>3. \A entry \in book.levels : entry[1] \in history[t][book.version]
    BY <2>1
  <2>4. ASSUME NEW level \in history[t][book.version] PROVE level \in plain
    <3>1. <<level, key>> \in book.levels /\ <<level, key>>[1] = level
      BY <2>2
    <3>2. QED
      BY <3>1
  <2>5. QED
    BY <2>3, <2>4
<1>6. QED
  BY <1>1, <1>4, <1>5 DEF Holds, KeptTrue

LEMMA ReceiveKeepsFeedInv ==
  ASSUME FeedInv, Receive
  PROVE  FeedInv'
<1> DEFINE frame == Head(wire)
           t == frame.token
           b == Applied(frame)
<1>1. /\ wire # <<>> /\ wire' = Tail(wire) /\ reader = Reading
      /\ UNCHANGED <<history, bookQueue, view>>
  BY DEF Receive, exchange, consumer
<1>2. /\ wire' \in Seq(Frames) /\ Len(wire) \in Nat \ {0} /\ Len(wire') = Len(wire) - 1
      /\ frame = wire[1] /\ frame \in Frames
      /\ \A i \in 1..(Len(wire) - 1) : wire'[i] = wire[i + 1]
  BY <1>1, Headed DEF FeedInv, Types
<1>3. t \in Tokens /\ frame.version \in Nat
  BY <1>2 DEF Frames
<1>4. \A i \in 1..Len(wire') : i + 1 \in 1..Len(wire)
  BY <1>2
<1>5. WireTold'
  <2>1. ASSUME NEW i \in 1..Len(wire') PROVE Told(wire[i])'
    <3>1. Told(wire[i + 1]) /\ wire'[i] = wire[i + 1]
      BY <1>2, <1>4 DEF FeedInv, WireTold
    <3>2. QED
      BY <1>1, <3>1 DEF Told
  <2>2. QED
    BY <2>1 DEF WireTold
<1>6. CASE UNCHANGED <<local, reader>>
  <2>1. WireInOrder'
    <3>1. \A i \in 1..Len(wire') : local'[wire'[i].token].version <= wire'[i].version
      BY <1>2, <1>4, <1>6 DEF FeedInv, WireInOrder
    <3>2. \A i, j \in 1..Len(wire') :
            i < j /\ wire'[i].token = wire'[j].token => wire'[i].version <= wire'[j].version
      <4> SUFFICES ASSUME NEW i \in 1..Len(wire'), NEW j \in 1..Len(wire'),
                          i < j, wire'[i].token = wire'[j].token
                   PROVE  wire'[i].version <= wire'[j].version
        OBVIOUS
      <4>1. /\ i + 1 \in 1..Len(wire) /\ j + 1 \in 1..Len(wire) /\ i + 1 < j + 1
            /\ wire'[i] = wire[i + 1] /\ wire'[j] = wire[j + 1]
        BY <1>2, <1>4
      <4> QED
        BY <4>1 DEF FeedInv, WireInOrder
    <3> QED
      BY <3>1, <3>2 DEF WireInOrder
  <2>2. Types'
    BY <1>1, <1>2, <1>6 DEF FeedInv, Types
  <2>3. LocalHolds' /\ EmitsLocal' /\ QueueHolds' /\ QueueInOrder'
    BY <1>1, <1>6 DEF FeedInv, LocalHolds, EmitsLocal, QueueHolds, QueueInOrder, Holds,
       KeptTrue
  <2>4. QED
    BY <1>5, <2>1, <2>2, <2>3 DEF FeedInv
<1>7. CASE ~(frame.type = "price_change" /\ local[t] = Nothing)
  <2> DEFINE e == Emitted(b)
  <2>1. /\ local' = [local EXCEPT ![t] = b] /\ Outcome(t, e)
    BY <1>7 DEF Receive
  <2>2. b \in KeyedEntry /\ KeptTrue(t, b) /\ b.version = frame.version
    BY <1>1, <1>3, <1>7, AppliedHolds
  <2> HIDE DEF b
  <2>2a. e \in Entry /\ Holds(t, e) /\ e.version = b.version
    BY <1>3, <2>2, EmittedHolds
  <2> HIDE DEF e
  <2>3. /\ local' \in [Tokens -> KeyedEntry] /\ local'[t] = b
        /\ \A u \in Tokens \ {t} : local'[u] = local[u]
    BY <1>3, <2>1, <2>2 DEF FeedInv, Types
  <2>4. local[t].version <= b.version
    BY <1>2, <2>2 DEF FeedInv, WireInOrder
  <2>5. \/ reader' = Reading \/ reader' = [at |-> "resync", token |-> t]
        \/ reader' = [at |-> "emit", token |-> t, book |-> e] /\ ~Crossed(e.levels)
    BY <2>1 DEF Outcome
  <2>6. Types'
    <3>1. reader' \in Readers
      BY <1>3, <2>2a, <2>5 DEF Readers, Reading
    <3>2. QED
      BY <1>1, <1>2, <2>3, <3>1 DEF FeedInv, Types
  <2>7. WireInOrder'
    <3>1. \A i \in 1..Len(wire') : wire'[i].token \in Tokens
      BY <1>2, <1>4, Members DEF FeedInv, Frames
    <3>2. ASSUME NEW i \in 1..Len(wire')
          PROVE  local'[wire'[i].token].version <= wire'[i].version
      <4>1. CASE wire'[i].token = t
        BY <1>2, <1>4, <2>2, <2>3, <4>1 DEF FeedInv, WireInOrder
      <4>2. CASE wire'[i].token # t
        BY <1>2, <1>4, <2>3, <3>1, <4>2 DEF FeedInv, WireInOrder
      <4>3. QED
        BY <4>1, <4>2
    <3>3. QED
      BY <1>2, <1>4, <3>2 DEF FeedInv, WireInOrder
  <2>8. LocalHolds'
    <3>1. \A u \in Tokens : (local'[u] = Nothing \/ KeptTrue(u, local'[u]))
      BY <2>2, <2>3 DEF FeedInv, LocalHolds
    <3>2. QED
      BY <1>1, <3>1 DEF LocalHolds, KeptTrue
  <2>9. EmitsLocal'
    <3>1. Emitted(local'[t]) = e
      BY <2>3 DEF e
    <3>2. CASE reader' = [at |-> "emit", token |-> t, book |-> e]
      <4>1. reader'.token = t /\ reader'.book = e /\ ~Crossed(e.levels)
        BY <2>5, <3>2 DEF Reading
      <4>2. Holds(reader.token, reader.book)'
        BY <1>1, <2>2a, <4>1 DEF Holds
      <4>3. Emitted(local[reader.token])' = e
        BY <3>1, <4>1 DEF Emitted
      <4>4. QED
        BY <4>1, <4>2, <4>3 DEF EmitsLocal
    <3>3. CASE reader' # [at |-> "emit", token |-> t, book |-> e]
      BY <2>5, <3>3 DEF EmitsLocal, Reading
    <3>4. QED
      BY <3>2, <3>3
  <2>10. QueueHolds'
    BY <1>1 DEF FeedInv, QueueHolds, Holds
  <2>11. QueueInOrder'
    <3>1. \A u \in Tokens : /\ local'[u].version >= local[u].version
                            /\ local'[u].version \in Nat /\ local[u].version \in Nat
                            /\ view[u].version \in Nat
      <4>1. \A u \in Tokens :
              local[u] \in KeyedEntry /\ local'[u] \in KeyedEntry /\ view[u] \in Entry
        BY <2>3 DEF FeedInv, Types
      <4>2. \A u \in Tokens : local'[u].version >= local[u].version
        BY <2>3, <2>4, <4>1 DEF KeyedEntry
      <4>3. QED
        BY <4>1, <4>2 DEF Entry, KeyedEntry
    <3>2. \A i \in 1..Len(bookQueue) :
            bookQueue[i].token \in Tokens /\ bookQueue[i].book.version \in Nat
      BY Members DEF FeedInv, Entry
    <3>3. \A i \in 1..Len(bookQueue) :
            bookQueue[i].book.version <= local'[bookQueue[i].token].version
      BY <3>1, <3>2 DEF FeedInv, QueueInOrder
    <3>4. \A u \in Tokens : view[u].version <= local'[u].version
      BY <3>1 DEF FeedInv, QueueInOrder
    <3>5. QED
      BY <1>1, <3>3, <3>4 DEF FeedInv, QueueInOrder
  <2>12. QED
    BY <1>5, <2>6, <2>7, <2>8, <2>9, <2>10, <2>11 DEF FeedInv
<1>8. QED
  BY <1>6, <1>7 DEF Receive

LEMMA EmitKeepsFeedInv ==
  ASSUME FeedInv, Emit
  PROVE  FeedInv'
<1> DEFINE event == [token |-> reader.token, book |-> reader.book]
<1>1. /\ UNCHANGED <<history, wire, local, view>>
      /\ bookQueue' = Append(bookQueue, event) /\ reader' = Reading
      /\ reader.at = "emit"
  BY DEF Emit, exchange
<1>2. reader.token \in Tokens /\ reader.book \in Entry
  BY <1>1 DEF FeedInv, Types, Readers
<1>3. event \in Events /\ event.token = reader.token /\ event.book = reader.book
  BY <1>2 DEF Events
<1> HIDE DEF event
<1>4. /\ bookQueue' \in Seq(Events) /\ Len(bookQueue') = Len(bookQueue) + 1
      /\ Len(bookQueue) \in Nat
      /\ \A i \in 1..(Len(bookQueue) + 1) :
           bookQueue'[i] = IF i = Len(bookQueue) + 1 THEN event ELSE bookQueue[i]
  BY <1>1, <1>3, Appended DEF FeedInv, Types
<1>5. /\ Holds(reader.token, reader.book) /\ ~Crossed(reader.book.levels)
      /\ reader.book = Emitted(local[reader.token])
      /\ reader.book.version = local[reader.token].version
  BY <1>1, <1>2 DEF FeedInv, Types, EmitsLocal, Emitted, KeyedEntry
<1>6. Types'
  BY <1>1, <1>4 DEF FeedInv, Types, Reading, Readers
<1>7. WireTold' /\ WireInOrder' /\ LocalHolds' /\ EmitsLocal'
  BY <1>1 DEF FeedInv, WireTold, Told, WireInOrder, LocalHolds, EmitsLocal, Holds, KeptTrue,
     Reading
<1>8. QueueHolds'
  <2>1. ASSUME NEW i \in 1..Len(bookQueue')
        PROVE  /\ Holds(bookQueue'[i].token, bookQueue'[i].book)
               /\ ~Crossed(bookQueue'[i].book.levels)
    <3>1. CASE i = Len(bookQueue) + 1
      BY <1>3, <1>4, <1>5, <3>1
    <3>2. CASE i # Len(bookQueue) + 1
      BY <1>4, <3>2 DEF FeedInv, QueueHolds
    <3>3. QED
      BY <3>1, <3>2
  <2>2. QED
    BY <1>1, <2>1 DEF QueueHolds, Holds
<1>9. QueueInOrder'
  <2>1. /\ reader.book.version \in Nat /\ \A t \in Tokens : view[t].version \in Nat
        /\ \A i \in 1..Len(bookQueue) : bookQueue[i].book.version \in Nat
    BY <1>2, Members DEF FeedInv, Types, Entry
  <2>2. \A i \in 1..Len(bookQueue') :
          /\ bookQueue'[i].book.version <= local[bookQueue'[i].token].version
          /\ view[bookQueue'[i].token].version <= bookQueue'[i].book.version
    BY <1>2, <1>3, <1>4, <1>5, <2>1 DEF FeedInv, QueueInOrder
  <2>3. \A i, j \in 1..Len(bookQueue') :
          i < j /\ bookQueue'[i].token = bookQueue'[j].token =>
            bookQueue'[i].book.version <= bookQueue'[j].book.version
    <3>1. ASSUME NEW i \in 1..Len(bookQueue'), NEW j \in 1..Len(bookQueue'),
                 i < j, bookQueue'[i].token = bookQueue'[j].token
          PROVE  bookQueue'[i].book.version <= bookQueue'[j].book.version
      <4>1. CASE j = Len(bookQueue) + 1
        <5>1. bookQueue'[j] = event /\ bookQueue'[i].token = reader.token
          BY <1>3, <1>4, <3>1, <4>1
        <5>2. bookQueue'[i].book.version <= local[reader.token].version
          BY <2>2, <5>1
        <5>3. bookQueue'[j].book.version = local[reader.token].version
          BY <1>3, <1>5, <5>1
        <5>4. QED
          BY <5>2, <5>3
      <4>2. CASE j # Len(bookQueue) + 1
        <5>1. /\ i \in 1..Len(bookQueue) /\ j \in 1..Len(bookQueue)
              /\ bookQueue'[i] = bookQueue[i] /\ bookQueue'[j] = bookQueue[j]
          BY <1>4, <3>1, <4>2
        <5>2. QED
          BY <3>1, <5>1 DEF FeedInv, QueueInOrder
      <4>3. QED
        BY <4>1, <4>2
    <3>2. QED
      BY <3>1
  <2>4. QED
    BY <1>1, <2>2, <2>3 DEF FeedInv, QueueInOrder
<1>10. QED
  BY <1>6, <1>7, <1>8, <1>9 DEF FeedInv

LEMMA TakeBookKeepsFeedInv ==
  ASSUME FeedInv, TakeBook
  PROVE  FeedInv'
<1> DEFINE event == Head(bookQueue)
<1>1. /\ UNCHANGED <<history, wire, local, reader>>
      /\ bookQueue # <<>> /\ bookQueue' = Tail(bookQueue)
      /\ view' = [view EXCEPT ![event.token] = event.book]
  BY DEF TakeBook, exchange, gateway
<1>2. /\ bookQueue' \in Seq(Events) /\ Len(bookQueue) \in Nat \ {0}
      /\ Len(bookQueue') = Len(bookQueue) - 1
      /\ event = bookQueue[1] /\ event \in Events
      /\ \A i \in 1..(Len(bookQueue) - 1) : bookQueue'[i] = bookQueue[i + 1]
  BY <1>1, Headed DEF FeedInv, Types
<1>3. event.token \in Tokens /\ event.book \in Entry
  BY <1>2 DEF Events
<1>4. /\ view' \in [Tokens -> Entry] /\ view'[event.token] = event.book
      /\ \A t \in Tokens \ {event.token} : view'[t] = view[t]
  BY <1>1, <1>3 DEF FeedInv, Types
<1>5. Types'
  BY <1>1, <1>2, <1>4 DEF FeedInv, Types
<1>6. WireTold' /\ WireInOrder' /\ LocalHolds' /\ EmitsLocal'
  BY <1>1 DEF FeedInv, WireTold, Told, WireInOrder, LocalHolds, EmitsLocal, Holds, KeptTrue
<1>7. \A i \in 1..Len(bookQueue') : i + 1 \in 1..Len(bookQueue)
  BY <1>2
<1>8. QueueHolds'
  <2>1. \A i \in 1..Len(bookQueue') :
          /\ Holds(bookQueue'[i].token, bookQueue'[i].book)
          /\ ~Crossed(bookQueue'[i].book.levels)
    BY <1>2, <1>7 DEF FeedInv, QueueHolds
  <2>2. QED
    BY <1>1, <2>1 DEF QueueHolds, Holds
<1>9. QueueInOrder'
  <2>1. \A i \in 1..Len(bookQueue') : bookQueue'[i].token \in Tokens
    BY <1>2, <1>7, Members DEF FeedInv
  <2>2. ASSUME NEW i \in 1..Len(bookQueue')
        PROVE  view'[bookQueue'[i].token].version <= bookQueue'[i].book.version
    <3>1. CASE bookQueue'[i].token = event.token
      BY <1>2, <1>4, <1>7, <3>1 DEF FeedInv, QueueInOrder
    <3>2. CASE bookQueue'[i].token # event.token
      BY <1>2, <1>4, <1>7, <2>1, <3>2 DEF FeedInv, QueueInOrder
    <3>3. QED
      BY <3>1, <3>2
  <2>3. \A t \in Tokens : view'[t].version <= local[t].version
    BY <1>2, <1>4 DEF FeedInv, QueueInOrder
  <2>4. QED
    BY <1>1, <1>2, <1>7, <2>2, <2>3 DEF FeedInv, QueueInOrder
<1>10. QED
  BY <1>5, <1>6, <1>8, <1>9 DEF FeedInv

-----------------------------------------------------------------------------
LEMMA FeedInvNext == FeedInv /\ [Next]_vars => FeedInv'
<1> SUFFICES ASSUME FeedInv, [Next]_vars PROVE FeedInv'
  OBVIOUS
<1>1. ASSUME NEW t \in Tokens, NEW book \in Books, NEW spelling \in Spellings, NEW resized,
             Change(t, book, resized, spelling)
      PROVE  FeedInv'
  BY <1>1, ChangeKeepsFeedInv
<1>2. ASSUME NEW t \in Tokens, Greet(t) PROVE FeedInv'
  BY <1>2, GreetKeepsFeedInv
<1>3. CASE Break
  BY <1>3, BreakKeepsFeedInv
<1>4. CASE Receive
  BY <1>4, ReceiveKeepsFeedInv
<1>5. CASE Emit
  BY <1>5, EmitKeepsFeedInv
<1>6. CASE TakeBook
  BY <1>6, TakeBookKeepsFeedInv
<1>7. CASE \/ Connect \/ Close \/ AskResync \/ UNCHANGED vars
           \/ \E t \in Tokens : Serve(t) \/ Subscribe(t)
  <2>1. /\ UNCHANGED <<history, wire, local, bookQueue, view>>
        /\ reader' = reader \/ reader' = Reading
    BY <1>7 DEF Connect, Close, AskResync, Serve, Subscribe, vars, exchange, gateway,
       consumer
  <2>2. QED
    BY <2>1, OthersKeepFeedInv
<1>8. QED
  BY <1>1, <1>2, <1>3, <1>4, <1>5, <1>6, <1>7 DEF Next, Reader, Service

LEMMA FeedInvHolds == Spec => []FeedInv
  BY FeedInvInit, FeedInvNext, PTL DEF Spec

\* core/execution/market_stream.py:199: a local book that no delta is missing from, and
\* whose frames all spell prices alike, is the exchange's own at that version with each
\* level once; so a crossed one means a missed delta or another spelling.
THEOREM CrossedMeansMissedHolds == Spec => []CrossedMeansMissed
<1>1. FeedInv => CrossedMeansMissed
  BY DEF FeedInv, LocalHolds, CrossedMeansMissed, KeptTrue, Nothing
<1>2. QED
  BY <1>1, FeedInvHolds, PTL

-----------------------------------------------------------------------------
\* Every step of gateway and queues is a step of BookFeed or leaves its state alone.
LEMMA StepRefines == FeedInv /\ [Next]_vars => [Feed!Next]_<<history, view>>
<1> SUFFICES ASSUME FeedInv, [Next]_vars PROVE [Feed!Next]_<<history, view>>
  OBVIOUS
<1>1. ASSUME NEW t \in Tokens, NEW book \in Books, NEW spelling, NEW resized,
             Change(t, book, resized, spelling)
      PROVE  Feed!Next
  BY <1>1 DEF Change, Feed!Next, Feed!Publish, consumer
<1>2. CASE TakeBook
  <2> DEFINE t == Head(bookQueue).token
             book == Head(bookQueue).book
  <2>1. /\ bookQueue # <<>> /\ view' = [view EXCEPT ![t] = book] /\ UNCHANGED history
    BY <1>2 DEF TakeBook, exchange
  <2>2. /\ 1 \in 1..Len(bookQueue) /\ Head(bookQueue) = bookQueue[1]
    BY <2>1, Headed DEF FeedInv, Types
  <2>3. /\ t \in Tokens /\ Holds(t, book) /\ ~Crossed(book.levels)
        /\ view[t].version <= book.version /\ view[t].version \in Nat
    BY <2>2, Members DEF FeedInv, Types, QueueHolds, QueueInOrder, Entry
  <2>4. /\ view'[t] = book /\ \A u \in Tokens \ {t} : view'[u] = view[u]
    BY <2>1, <2>3 DEF FeedInv, Types
  <2>5. book.version \in 1..Len(history[t]) /\ book.version >= view[t].version
    BY <2>3 DEF Holds
  <2>6. Feed!Refresh(t)
    BY <2>1, <2>3, <2>4, <2>5 DEF Feed!Refresh, Holds
  <2>7. QED
    BY <2>3, <2>6 DEF Feed!Next
<1>3. CASE \/ Reader \/ Break \/ Service \/ \E t \in Tokens : Subscribe(t)
           \/ UNCHANGED vars
  BY <1>3 DEF Reader, Connect, Close, Receive, Emit, AskResync, Break, Service, Serve, Greet,
     Subscribe, vars, exchange, consumer
<1>4. QED
  BY <1>1, <1>2, <1>3 DEF Next

\* core/execution/market_stream.py and the two queues give the quote engine a BookFeed: in
\* order, never crossed, exact from each snapshot on until a delta is missing.
THEOREM MarketStreamImplementsBookFeed == Spec => ImplementsBookFeed
<1>1. Init => Feed!Init
  BY DEF Init, Feed!Init, Nothing, Feed!Nothing
<1>2. QED
  BY <1>1, StepRefines, FeedInvHolds, PTL DEF Spec, ImplementsBookFeed, Feed!Spec

-----------------------------------------------------------------------------
\* The subscriptions, for which no book matters.
LEMMA SubscriptionsInit == Init => SubscriptionsReachSocket
  BY DEF Init, SubscriptionsReachSocket

LEMMA SubscriptionsNext == SubscriptionsReachSocket /\ [Next]_vars => SubscriptionsReachSocket'
<1> SUFFICES ASSUME SubscriptionsReachSocket, [Next]_vars PROVE SubscriptionsReachSocket'
  OBVIOUS
<1>1. CASE Connect \/ Close \/ Break
  BY <1>1 DEF Connect, Close, Break, SubscriptionsReachSocket
<1>2. ASSUME NEW t \in Tokens, Subscribe(t) PROVE SubscriptionsReachSocket'
  BY <1>2 DEF Subscribe, SubscriptionsReachSocket
<1>3. CASE Receive \/ Emit \/ AskResync \/ TakeBook \/ Service \/ UNCHANGED vars
  <2>1. UNCHANGED <<socket, asked, subscribed>>
    BY <1>3 DEF Receive, Emit, AskResync, TakeBook, Service, Serve, Greet, vars
  <2>2. QED
    BY <2>1 DEF SubscriptionsReachSocket
<1>4. ASSUME NEW t, NEW book, NEW resized, NEW spelling,
             Change(t, book, resized, spelling)
      PROVE  SubscriptionsReachSocket'
  BY <1>4 DEF Change, SubscriptionsReachSocket
<1>5. QED
  BY <1>1, <1>2, <1>3, <1>4 DEF Next, Reader

\* core/execution/market_stream.py:57-98: however subscribe() and connect() come together,
\* the open socket is asked for every token ever subscribed.
THEOREM SubscriptionsReachSocketHolds == Spec => []SubscriptionsReachSocket
  BY SubscriptionsInit, SubscriptionsNext, PTL DEF Spec

-----------------------------------------------------------------------------
\* The counters of crossed books, and what TypeOK says of reader and queues ...
CountInv ==
  /\ missedCount \in [Tokens -> 0..DeltaThreshold]
  /\ \A t \in Tokens :
       missedCount[t] = DeltaThreshold <=> reader = [at |-> "resync", token |-> t]
  /\ Len(bookQueue) <= BookCapacity /\ resyncs \in 0..ResyncCapacity

\* ... and of the exchange, whose service ends with the socket.
ServiceInv ==
  /\ greeted \subseteq served /\ served \subseteq asked
  /\ socket # "open" => served = {}

\* The versions stay within the bound of changes.
VersionInv ==
  /\ counts = [changes |-> counts.changes, lost |-> counts.lost, drops |-> counts.drops]
  /\ counts.changes \in 0..MaxChanges
  /\ \A t \in Tokens : Len(history[t]) <= counts.changes + 1

LEMMA CountInvInit == Init => CountInv /\ ServiceInv /\ VersionInv
<1> SUFFICES ASSUME Init PROVE CountInv /\ ServiceInv /\ VersionInv
  OBVIOUS
<1>1. CountInv
  BY MarketAssumption DEF Init, CountInv, Reading
<1>2. ServiceInv
  BY DEF Init, ServiceInv
<1>3. VersionInv
  <2>1. ASSUME NEW t \in Tokens PROVE Len(history[t]) = 1
    <3>1. history[t] \in {<<b>> : b \in Books}
      BY DEF Init
    <3>2. QED
      BY <3>1
  <2>2. counts = [changes |-> 0, lost |-> {}, drops |-> 0]
    BY DEF Init
  <2>3. counts.changes = 0 /\ counts.lost = {} /\ counts.drops = 0
    BY <2>2
  <2>4. ASSUME NEW t \in Tokens PROVE Len(history[t]) <= counts.changes + 1
    <3>1. Len(history[t]) = 1 /\ counts.changes + 1 = 1
      BY <2>1, <2>3
    <3>2. QED
      BY <3>1
  <2>5. QED
    BY <2>2, <2>3, <2>4, MarketAssumption DEF VersionInv
<1>4. QED
  BY <1>1, <1>2, <1>3

LEMMA CountInvNext == FeedInv /\ CountInv /\ [Next]_vars => CountInv'
<1> SUFFICES ASSUME FeedInv, CountInv, [Next]_vars PROVE CountInv'
  OBVIOUS
<1> DEFINE waits(t) == [at |-> "resync", token |-> t]
<1>1. CASE Receive
  <2>1. UNCHANGED <<resyncs, bookQueue>> /\ reader = Reading /\ wire # <<>>
    BY <1>1 DEF Receive, consumer
  <2>2. \A t \in Tokens : missedCount[t] # DeltaThreshold
    BY <2>1 DEF CountInv, Reading
  <2>3. CASE UNCHANGED <<missedCount, reader>>
    BY <2>1, <2>3 DEF CountInv
  <2>4. CASE Outcome(Head(wire).token, Emitted(Applied(Head(wire))))
    <3> DEFINE t == Head(wire).token
               b == Emitted(Applied(Head(wire)))
    <3>1. t \in Tokens
      BY <2>1, Headed DEF FeedInv, Types, Frames
    <3>2. missedCount[t] + 1 \in 1..DeltaThreshold
      BY <2>2, <3>1, MarketAssumption DEF CountInv
    <3>3. CASE Crossed(b.levels)
      <4>1. /\ missedCount' = [missedCount EXCEPT ![t] = missedCount[t] + 1]
            /\ reader' = IF missedCount[t] + 1 >= DeltaThreshold THEN waits(t) ELSE Reading
        BY <2>4, <3>3 DEF Outcome
      <4>2. missedCount' \in [Tokens -> 0..DeltaThreshold]
        BY <3>1, <3>2, <4>1 DEF CountInv
      <4>3. \A u \in Tokens : missedCount'[u] = DeltaThreshold <=> reader' = waits(u)
        BY <2>2, <3>1, <3>2, <4>1, MarketAssumption DEF CountInv, Reading
      <4>4. QED
        BY <2>1, <4>2, <4>3 DEF CountInv
    <3>4. CASE ~Crossed(b.levels)
      <4>1. /\ missedCount' = [missedCount EXCEPT ![t] = 0]
            /\ reader' = [at |-> "emit", token |-> t, book |-> b]
        BY <2>4, <3>4 DEF Outcome
      <4>2. missedCount' \in [Tokens -> 0..DeltaThreshold]
        BY <3>1, <4>1, MarketAssumption DEF CountInv
      <4>3. \A u \in Tokens : missedCount'[u] # DeltaThreshold /\ reader' # waits(u)
        BY <2>2, <3>1, <4>1, MarketAssumption DEF CountInv
      <4>4. QED
        BY <2>1, <4>2, <4>3 DEF CountInv
    <3>5. QED
      BY <3>3, <3>4
  <2>5. QED
    BY <1>1, <2>3, <2>4 DEF Receive
<1>2. CASE Emit
  <2> DEFINE event == [token |-> reader.token, book |-> reader.book]
  <2>1. /\ UNCHANGED <<missedCount, resyncs>> /\ reader.at = "emit" /\ reader' = Reading
        /\ Len(bookQueue) < BookCapacity /\ bookQueue' = Append(bookQueue, event)
    BY <1>2 DEF Emit
  <2>2. \A t \in Tokens : missedCount[t] # DeltaThreshold
    BY <2>1 DEF CountInv
  <2>3. event \in Events
    BY <2>1 DEF FeedInv, Types, Readers, Events
  <2>4. Len(bookQueue') <= BookCapacity
    BY <2>1, <2>3, Appended, MarketAssumption DEF FeedInv, Types
  <2>5. QED
    BY <2>1, <2>2, <2>4 DEF CountInv, Reading
<1>3. CASE AskResync
  <2>1. /\ reader.at = "resync" /\ resyncs < ResyncCapacity /\ resyncs' = resyncs + 1
        /\ missedCount' = [missedCount EXCEPT ![reader.token] = 0]
        /\ reader' = Reading /\ UNCHANGED bookQueue
    BY <1>3 DEF AskResync, consumer
  <2>2. reader.token \in Tokens
    BY <2>1 DEF FeedInv, Types, Readers
  <2>3. \A t \in Tokens \ {reader.token} : missedCount[t] # DeltaThreshold
    BY DEF CountInv
  <2>4. QED
    BY <2>1, <2>2, <2>3, MarketAssumption DEF CountInv, Reading
<1>4. CASE TakeBook
  <2>1. UNCHANGED gateway /\ bookQueue # <<>> /\ bookQueue' = Tail(bookQueue)
    BY <1>4 DEF TakeBook
  <2>2. Len(bookQueue') <= BookCapacity
    BY <2>1, Headed, MarketAssumption DEF FeedInv, Types, CountInv
  <2>3. QED
    BY <2>1, <2>2 DEF CountInv, gateway
<1>5. CASE \/ Connect \/ Close \/ Break \/ Service \/ UNCHANGED vars
           \/ \E t \in Tokens : Subscribe(t)
  <2>1. UNCHANGED <<missedCount, reader, resyncs, bookQueue>>
    BY <1>5 DEF Connect, Close, Break, Service, Serve, Greet, Subscribe, vars, gateway,
       consumer
  <2>2. QED
    BY <2>1 DEF CountInv
<1>6. ASSUME NEW t, NEW book, NEW resized, NEW spelling,
             Change(t, book, resized, spelling)
      PROVE  CountInv'
  BY <1>6 DEF Change, gateway, consumer, CountInv
<1>7. QED
  BY <1>1, <1>2, <1>3, <1>4, <1>5, <1>6 DEF Next, Reader

LEMMA ServiceInvNext == ServiceInv /\ [Next]_vars => ServiceInv'
<1> SUFFICES ASSUME ServiceInv, [Next]_vars PROVE ServiceInv'
  OBVIOUS
<1>1. CASE Connect \/ Close \/ Break
  BY <1>1 DEF Connect, Close, Break, ServiceInv, exchange
<1>2. ASSUME NEW t \in Tokens, Serve(t) \/ Greet(t) \/ Subscribe(t) PROVE ServiceInv'
  BY <1>2 DEF Serve, Greet, Subscribe, ServiceInv, exchange
<1>3. CASE Receive \/ Emit \/ AskResync \/ TakeBook \/ UNCHANGED vars
  <2>1. UNCHANGED <<served, greeted, asked, socket>>
    BY <1>3 DEF Receive, Emit, AskResync, TakeBook, vars, exchange
  <2>2. QED
    BY <2>1 DEF ServiceInv
<1>4. ASSUME NEW t, NEW book, NEW resized, NEW spelling,
             Change(t, book, resized, spelling)
      PROVE  ServiceInv'
  BY <1>4 DEF Change, ServiceInv
<1>5. QED
  BY <1>1, <1>2, <1>3, <1>4 DEF Next, Reader, Service

LEMMA VersionInvNext == FeedInv /\ VersionInv /\ [Next]_vars => VersionInv'
<1> SUFFICES ASSUME FeedInv, VersionInv, [Next]_vars PROVE VersionInv'
  OBVIOUS
<1>1. ASSUME NEW t \in Tokens, NEW book \in Books, NEW resized, NEW spelling,
             Change(t, book, resized, spelling)
      PROVE  VersionInv'
  <2>1. history' = [history EXCEPT ![t] = Append(@, book)] /\ counts.changes < MaxChanges
    BY <1>1 DEF Change
  <2>2. PICK lost : counts' = [counts EXCEPT !.changes = @ + 1, !.lost = lost]
    <3>1. counts' = [counts EXCEPT !.changes = @ + 1]
            => counts' = [counts EXCEPT !.changes = @ + 1, !.lost = counts.lost]
      BY DEF VersionInv
    <3>2. QED
      BY <1>1, <3>1 DEF Change
  <2>3. /\ counts' = [changes |-> counts.changes + 1, lost |-> lost, drops |-> counts.drops]
        /\ counts'.changes = counts.changes + 1
        /\ counts'.lost = lost /\ counts'.drops = counts.drops
    BY <2>2 DEF VersionInv
  <2>4. Len(history'[t]) = Len(history[t]) + 1 /\ Len(history[t]) \in Nat
    BY <2>1, ChangeIsGrown DEF FeedInv
  <2>5. \A u \in Tokens \ {t} : history'[u] = history[u] /\ Len(history[u]) \in Nat
    BY <2>1 DEF FeedInv, Types
  <2>6. QED
    BY <2>1, <2>4, <2>5, <2>3, MarketAssumption DEF VersionInv
<1>2. CASE Break
  BY <1>2 DEF Break, VersionInv
<1>3. CASE \/ Reader \/ TakeBook \/ Service \/ UNCHANGED vars
           \/ \E t \in Tokens : Subscribe(t)
  <2>1. UNCHANGED <<history, counts>>
    BY <1>3 DEF Reader, Connect, Close, Receive, Emit, AskResync, TakeBook, Service, Serve,
       Greet, Subscribe, vars, exchange
  <2>2. QED
    BY <2>1 DEF VersionInv
<1>4. QED
  BY <1>1, <1>2, <1>3 DEF Next

\* core/execution/market_stream.py:189-208: the counters and queues keep their bounds, and
\* a counter is at its threshold only while the reader waits to ask for the resync.
THEOREM TypeCorrect == Spec => []TypeOK
<1>1. FeedInv /\ CountInv /\ ServiceInv /\ VersionInv => TypeOK
  <2> SUFFICES ASSUME FeedInv, CountInv, ServiceInv, VersionInv PROVE TypeOK
    OBVIOUS
  <2>1. ASSUME NEW t \in Tokens PROVE local[t] \in LocalBooks
    <3>1. local[t] \in KeyedEntry /\ Len(history[t]) \in Nat
      BY DEF FeedInv, Types
    <3>2. local[t].version \in 0..(MaxChanges + 1)
      BY <3>1, MarketAssumption
      DEF FeedInv, LocalHolds, KeptTrue, Nothing, VersionInv
    <3>3. QED
      BY <3>1, <3>2 DEF KeyedEntry, LocalBooks, Levels
  <2>2. local \in [Tokens -> LocalBooks]
    BY <2>1 DEF FeedInv, Types
  <2>3. reader.at \in {"reading", "emit", "resync"}
    BY DEF FeedInv, Types, Readers
  <2>4. QED
    BY <2>2, <2>3, MarketAssumption DEF TypeOK, CountInv, ServiceInv
<1>2. QED
  BY <1>1, FeedInvHolds, FeedInvInit, FeedInvNext, CountInvInit, CountInvNext, ServiceInvNext,
     VersionInvNext, PTL DEF Spec
=============================================================================
