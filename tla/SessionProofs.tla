---------------------------- MODULE SessionProofs ----------------------------
(***************************************************************************)
(* For any finite set of orders, any migrations and any number of lives,   *)
(* lost streams and recoveries: how the ledger and the exchange can differ.*)
(*                                                                         *)
(* What makes the three statements inductive is the order of the reports:  *)
(* the closing of an order is the last report of it, and while any report  *)
(* of an order that is closed is on its way, so is its closing.            *)
(***************************************************************************)
EXTENDS Session, FiniteSetTheorems, SequenceTheorems, TLAPS

Reports == [order : Orders, state : OrderState]

Posts == {"none", "sent", "stray", "accepted", "done"}

Types ==
  /\ boot \in {"down", "migrating", "recovering", "up"}
  /\ ledger \in Ledgers
  /\ recovery \in [at : {"none", "asked", "answered"}, ids : SUBSET Orders]
  /\ reports \in Seq(Reports)
  /\ post \in [Orders -> Posts]
  /\ open \subseteq Orders /\ missed \subseteq Orders /\ astray \subseteq Orders
  /\ connected \in BOOLEAN

\* Before the event loop runs there is no record, no stream and no request of this life,
\* and every open order is one of an earlier life.
BeforeUp ==
  /\ ~connected => reports = <<>>
  /\ boot # "up" =>
       /\ ledger = EmptyLedger /\ ~connected
       /\ open \subseteq astray
       /\ \A o \in Orders : post[o] \notin {"sent", "accepted"}

Reported(o) == \E i \in 1..Len(reports) : reports[i].order = o
Closed(o) == \E i \in 1..Len(reports) : reports[i].order = o /\ reports[i].state \in Terminal

\* What was ever heard of an order comes behind its acceptance.
HeardOfAccepted ==
  \A o \in Orders :
    o \in open \/ o \in recovery.ids \/ Reported(o) \/ ledger[o] # Unknown =>
      post[o] \in {"accepted", "done"}

\* The closing of an order is the last report of it ...
ClosingIsLast ==
  \A i, j \in 1..Len(reports) :
    i < j /\ reports[i].order = reports[j].order => reports[i].state \notin Terminal

OpenIsNotClosed == \A o \in open : ~Closed(o)

\* ... and is reported, if anything still is.
ClosingFollows == \A o \in Orders \ open : Reported(o) => Closed(o)

\* A record that is terminal by a report is final.
FinalByReport ==
  \A o \in Orders :
    ledger[o] \in Terminal \ {"CANCELLED"} => o \notin open /\ ~Reported(o)

\* An answer to get_open_orders() that has become wrong will be put right.
StaleAnswers ==
  \A o \in recovery.ids \ open : Closed(o) \/ o \in missed \/ ledger[o] \in Terminal

Ghosts == \A o \in Orders \ open : o \in OpenOrders(ledger) => Closed(o) \/ o \in missed

Orphans == \A o \in open \ OpenOrders(ledger) : post[o] = "accepted" \/ o \in astray

SInv ==
  /\ Types /\ BeforeUp /\ HeardOfAccepted /\ ClosingIsLast /\ OpenIsNotClosed
  /\ ClosingFollows /\ FinalByReport /\ StaleAnswers /\ Ghosts /\ Orphans

-----------------------------------------------------------------------------
\* reports' is reports with one report more for each of these orders.
Grown(orders, state) ==
  /\ reports' \in Seq(Reports)
  /\ Len(reports) <= Len(reports')
  /\ \A i \in 1..Len(reports) : reports'[i] = reports[i]
  /\ \A i \in (Len(reports) + 1)..Len(reports') :
       reports'[i].order \in orders /\ reports'[i].state = state
  /\ \A i, j \in (Len(reports) + 1)..Len(reports') :
       reports'[i].order = reports'[j].order => i = j
  /\ \A o \in orders : \E i \in (Len(reports) + 1)..Len(reports') : reports'[i].order = o

\* SetToSeq() lists a finite set.
LEMMA Listing ==
  ASSUME NEW S, IsFiniteSet(S)
  PROVE  /\ Cardinality(S) \in Nat
         /\ SetToSeq(S) \in [1..Cardinality(S) -> S]
         /\ \A i, j \in 1..Cardinality(S) : SetToSeq(S)[i] = SetToSeq(S)[j] => i = j
         /\ \A x \in S : \E i \in 1..Cardinality(S) : SetToSeq(S)[i] = x
<1> DEFINE n == Cardinality(S)
<1>1. n \in Nat /\ ExistsBijection(1..n, S)
  BY FS_CardinalityType
<1>2. \E f \in [1..n -> S] : IsInjective(f)
  BY <1>1 DEF ExistsBijection, Bijection, Injection, IsInjective
<1>3. SetToSeq(S) \in [1..n -> S] /\ IsInjective(SetToSeq(S))
  BY <1>2 DEF SetToSeq
<1>4. SetToSeq(S) \in Injection(1..n, S)
  BY <1>3 DEF Injection, IsInjective
<1>5. IsFiniteSet(1..n) /\ Cardinality(1..n) = n
  BY <1>1, FS_Interval
<1>6. SetToSeq(S) \in Surjection(1..n, S)
  BY <1>4, <1>5, FS_Injection
<1>7. QED
  BY <1>1, <1>3, <1>6 DEF IsInjective, Surjection

LEMMA ReportGrows ==
  ASSUME Types, connected, NEW orders \in SUBSET Orders, NEW state \in OrderState,
         Report(orders, state)
  PROVE  Grown(orders, state)
<1> DEFINE s == SetToSeq(orders)
           n == Cardinality(orders)
           new == [i \in 1..n |-> [order |-> s[i], state |-> state]]
<1>1. IsFiniteSet(orders)
  BY SessionAssumption, FS_Subset
<1>2. /\ n \in Nat /\ s \in [1..n -> orders]
      /\ \A i, j \in 1..n : s[i] = s[j] => i = j
      /\ \A x \in orders : \E i \in 1..n : s[i] = x
  BY <1>1, Listing
<1>3. DOMAIN s = 1..n
  BY <1>2
<1>4. reports' = reports \o new
  BY <1>3 DEF Report
<1>5. new \in Seq(Reports) /\ Len(new) = n
  <2>1. ASSUME NEW i \in 1..n PROVE [order |-> s[i], state |-> state] \in Reports
    <3>1. s[i] \in Orders
      BY <1>2
    <3>2. QED
      BY <3>1 DEF Reports
  <2> HIDE DEF s, n
  <2>2. new \in [1..n -> Reports]
    BY <2>1
  <2>3. QED
    BY <2>2, <1>2
<1>6. reports \in Seq(Reports) /\ Len(reports) \in Nat
  BY DEF Types
<1> HIDE DEF s, n
<1>7. /\ reports' \in Seq(Reports) /\ Len(reports') = Len(reports) + n
      /\ \A i \in 1..Len(reports) : reports'[i] = reports[i]
      /\ \A i \in 1..n : reports'[Len(reports) + i] = new[i]
  BY <1>2, <1>4, <1>5, <1>6
<1>8. \A i \in 1..n : reports'[Len(reports) + i] = [order |-> s[i], state |-> state]
  BY <1>7
<1>9. \A i \in (Len(reports) + 1)..Len(reports') :
        i - Len(reports) \in 1..n /\ i = Len(reports) + (i - Len(reports))
  BY <1>2, <1>6, <1>7
<1>10. \A i \in (Len(reports) + 1)..Len(reports') :
         reports'[i].order = s[i - Len(reports)] /\ reports'[i].state = state
  <2> SUFFICES ASSUME NEW i \in (Len(reports) + 1)..Len(reports')
               PROVE  reports'[i].order = s[i - Len(reports)] /\ reports'[i].state = state
    OBVIOUS
  <2>1. reports'[i] = [order |-> s[i - Len(reports)], state |-> state]
    BY <1>8, <1>9
  <2>2. QED
    BY <2>1
<1> HIDE DEF new
<1>11. ASSUME NEW i \in (Len(reports) + 1)..Len(reports'),
              NEW j \in (Len(reports) + 1)..Len(reports'),
              reports'[i].order = reports'[j].order
       PROVE  i = j
  <2>1. s[i - Len(reports)] = s[j - Len(reports)]
    BY <1>10, <1>11
  <2>2. i - Len(reports) = j - Len(reports)
    BY <2>1, <1>2, <1>9
  <2>3. QED
    BY <2>2, <1>6, <1>7, <1>2
<1>12. ASSUME NEW o \in orders
       PROVE  \E i \in (Len(reports) + 1)..Len(reports') : reports'[i].order = o
  <2>1. PICK k \in 1..n : s[k] = o
    BY <1>2
  <2>2. /\ Len(reports) + k \in (Len(reports) + 1)..Len(reports')
        /\ (Len(reports) + k) - Len(reports) = k
    BY <1>2, <1>6, <1>7
  <2>3. reports'[Len(reports) + k].order = o
    BY <2>1, <2>2, <1>10
  <2>4. QED
    BY <2>2, <2>3
<1>13. \A i \in (Len(reports) + 1)..Len(reports') :
         reports'[i].order \in orders /\ reports'[i].state = state
  BY <1>2, <1>9, <1>10
<1>14. QED
  BY <1>2, <1>6, <1>7, <1>11, <1>12, <1>13 DEF Grown

-----------------------------------------------------------------------------
LEMMA Reporting ==
  ASSUME Types, NEW orders \in SUBSET Orders, NEW state \in OrderState,
         Report(orders, state)
  PROVE  /\ reports' \in Seq(Reports)
         /\ ~connected => reports' = reports
         /\ \A o : Reported(o)' <=> Reported(o) \/ (connected /\ o \in orders)
         /\ \A o : Closed(o)' <=>
                  Closed(o) \/ (connected /\ o \in orders /\ state \in Terminal)
         /\ ClosingIsLast /\ (\A o \in orders : ~Closed(o)) => ClosingIsLast'
<1>1. CASE ~connected
  <2>1. reports' = reports
    BY <1>1 DEF Report
  <2>2. QED
    BY <1>1, <2>1 DEF Types, Reported, Closed, ClosingIsLast
<1>2. CASE connected
  <2>1. Grown(orders, state)
    BY <1>2, ReportGrows
  <2> DEFINE n == Len(reports)
             m == Len(reports')
  <2>2. n \in Nat /\ m \in Nat /\ n <= m /\ reports' \in Seq(Reports)
    BY <2>1 DEF Grown, Types
  <2>3. \A i \in 1..n : i \in 1..m /\ reports'[i] = reports[i]
    BY <2>1, <2>2 DEF Grown
  <2>4. \A i \in (n + 1)..m :
          i \in 1..m /\ reports'[i].order \in orders /\ reports'[i].state = state
    BY <2>1, <2>2 DEF Grown
  <2>5. \A i \in 1..m : i \in 1..n \/ i \in (n + 1)..m
    BY <2>2
  <2>6. \A o \in orders : \E i \in (n + 1)..m : reports'[i].order = o
    BY <2>1 DEF Grown
  <2>7. ASSUME NEW o PROVE Reported(o)' <=> Reported(o) \/ o \in orders
    BY <2>3, <2>4, <2>5, <2>6 DEF Reported
  <2>8. ASSUME NEW o
        PROVE  Closed(o)' <=> Closed(o) \/ (o \in orders /\ state \in Terminal)
    BY <2>3, <2>4, <2>5, <2>6 DEF Closed
  <2>9. ASSUME ClosingIsLast, \A o \in orders : ~Closed(o),
               NEW i \in 1..m, NEW j \in 1..m, i < j, reports'[i].order = reports'[j].order
        PROVE  reports'[i].state \notin Terminal
    <3>1. CASE j \in 1..n
      <4>1. i \in 1..n
        BY <3>1, <2>9, <2>2
      <4>2. QED
        BY <3>1, <4>1, <2>3, <2>9 DEF ClosingIsLast
    <3>2. CASE j \in (n + 1)..m /\ i \in 1..n
      <4>1. reports[i].order \in orders /\ reports'[i] = reports[i]
        BY <3>2, <2>3, <2>4, <2>9
      <4>2. QED
        BY <3>2, <4>1, <2>9 DEF Closed
    <3>3. CASE j \in (n + 1)..m /\ i \in (n + 1)..m
      <4>1. i = j
        BY <3>3, <2>1, <2>9 DEF Grown
      <4>2. QED
        BY <4>1, <2>2, <2>9
    <3>4. QED
      BY <3>1, <3>2, <3>3, <2>5
  <2>10. ClosingIsLast /\ (\A o \in orders : ~Closed(o)) => ClosingIsLast'
    BY <2>9 DEF ClosingIsLast
  <2>11. QED
    BY <1>2, <2>2, <2>7, <2>8, <2>10
<1>3. QED
  BY <1>1, <1>2

LEMMA Delivering ==
  ASSUME Types, ClosingIsLast, reports # <<>>, reports' = Tail(reports)
  PROVE  /\ reports' \in Seq(Reports) /\ Head(reports) \in Reports
         /\ Reported(Head(reports).order)
         /\ Head(reports).state \in Terminal => Closed(Head(reports).order)
         /\ \A o : o = Head(reports).order /\ Head(reports).state \in Terminal => ~Reported(o)'
         /\ \A o : Reported(o)' => Reported(o)
         /\ \A o : Closed(o)' => Closed(o)
         /\ \A o : Closed(o) /\ (o # Head(reports).order \/ Head(reports).state \notin Terminal)
                  => Closed(o)'
         /\ ClosingIsLast'
<1> DEFINE n == Len(reports)
           h == Head(reports)
<1>1. /\ n \in Nat \ {0} /\ reports' \in Seq(Reports) /\ Len(reports') = n - 1
      /\ h \in Reports /\ h = reports[1]
      /\ \A i \in 1..(n - 1) : reports'[i] = reports[i + 1]
  BY HeadTailProperties, LenProperties, EmptySeq DEF Types
<1>2. /\ 1 \in 1..n
      /\ \A i \in 1..(n - 1) : i + 1 \in 1..n /\ 1 < i + 1
      /\ \A i \in 1..n : i = 1 \/ (i - 1 \in 1..(n - 1) /\ (i - 1) + 1 = i)
      /\ \A i, j \in 1..(n - 1) : i < j => i + 1 < j + 1
  BY <1>1
<1> HIDE DEF n, h
<1>3. Reported(h.order) /\ (h.state \in Terminal => Closed(h.order))
  BY <1>1, <1>2 DEF Reported, Closed, n
<1>4. \A o : o = h.order /\ h.state \in Terminal => ~Reported(o)'
  BY <1>1, <1>2 DEF Reported, ClosingIsLast, n
<1>5. \A o : Reported(o)' => Reported(o)
  BY <1>1, <1>2 DEF Reported, n
<1>6. \A o : Closed(o)' => Closed(o)
  BY <1>1, <1>2 DEF Closed, n
<1>7. ASSUME NEW o, Closed(o), o # h.order \/ h.state \notin Terminal PROVE Closed(o)'
  <2>1. PICK i \in 1..n : reports[i].order = o /\ reports[i].state \in Terminal
    BY <1>7 DEF Closed, n
  <2>2. i # 1
    BY <2>1, <1>1, <1>7
  <2>3. i - 1 \in 1..(n - 1) /\ reports'[i - 1] = reports[i]
    BY <2>2, <1>1, <1>2
  <2>4. QED
    BY <2>1, <2>3, <1>1 DEF Closed
<1>8. ClosingIsLast'
  BY <1>1, <1>2 DEF ClosingIsLast, n
<1>9. QED
  BY <1>1, <1>3, <1>4, <1>5, <1>6, <1>7, <1>8 DEF h

-----------------------------------------------------------------------------
LEMMA SInvInit == Init => SInv
<1> SUFFICES ASSUME Init PROVE SInv
  OBVIOUS
<1>1. /\ boot = "down" /\ ledger = EmptyLedger /\ recovery = Idle /\ ~connected /\ reports = <<>>
      /\ connected \in BOOLEAN /\ post = [o \in Orders |-> "none"]
      /\ open = {} /\ missed = {} /\ astray = {}
  BY DEF Init
<1>2. \A o : ~Reported(o) /\ ~Closed(o)
  <2>1. 1..Len(reports) = {}
    BY <1>1
  <2>2. QED
    BY <2>1, Zenon DEF Reported, Closed
<1>3. \A o \in Orders : ledger[o] = Unknown
  BY <1>1 DEF EmptyLedger
<1>4. Types
  BY <1>1 DEF Types, Ledgers, EmptyLedger, Idle, Posts
<1>5. BeforeUp /\ ClosingIsLast
  BY <1>1 DEF BeforeUp, ClosingIsLast
<1>6. QED
  BY <1>1, <1>2, <1>3, <1>4, <1>5
  DEF SInv, HeardOfAccepted, OpenIsNotClosed, ClosingFollows, FinalByReport, StaleAnswers,
      Ghosts, Orphans, Idle, Unknown, Terminal, OpenOrders

\* Steps of the startup and requests for the open orders.
LEMMA AskingKeepsSInv ==
  ASSUME SInv,
         UNCHANGED <<ledger, connected, reports, post, open, missed, astray>>,
         boot' \in {"down", "migrating", "recovering", "up"},
         boot' = "up" <=> boot = "up",
         recovery' \in [at : {"none", "asked", "answered"}, ids : SUBSET Orders],
         recovery'.ids \subseteq open \/ recovery' = recovery
  PROVE  SInv'
<1>1. Types'
  BY DEF SInv, Types
<1>2. BeforeUp' /\ ClosingIsLast' /\ OpenIsNotClosed' /\ ClosingFollows' /\ FinalByReport'
      /\ Ghosts' /\ Orphans'
  BY DEF SInv, BeforeUp, ClosingIsLast, OpenIsNotClosed, ClosingFollows, FinalByReport, Ghosts,
         Orphans, Reported, Closed
<1>3. HeardOfAccepted' /\ StaleAnswers'
  BY DEF SInv, HeardOfAccepted, StaleAnswers, Reported, Closed
<1>4. QED
  BY <1>1, <1>2, <1>3 DEF SInv

LEMMA StartupKeepsSInv ==
  ASSUME SInv, Start \/ Recover \/ RecoverAgain \/ Answer \/ RecoveryFails
  PROVE  SInv'
<1>1. /\ UNCHANGED <<ledger, connected, reports, post, open, missed, astray>>
      /\ boot' \in {"down", "migrating", "recovering", "up"}
      /\ boot' = "up" <=> boot = "up"
  BY DEF SInv, Types, Start, Recover, RecoverAgain, Answer, RecoveryFails, stream, history
<1>2. /\ recovery' \in [at : {"none", "asked", "answered"}, ids : SUBSET Orders]
      /\ recovery'.ids \subseteq open \/ recovery' = recovery
  BY DEF SInv, Types, Start, Recover, RecoverAgain, Answer, RecoveryFails, Idle
<1>3. QED
  BY <1>1, <1>2, AskingKeepsSInv

LEMMA StillKeepsSInv ==
  ASSUME SInv, Migrate \/ RunMigrate \/ Heartbeat \/ UNCHANGED vars
  PROVE  SInv'
<1>1. UNCHANGED <<ledger, connected, reports, post, open, missed, astray, boot, recovery>>
  BY DEF Migrate, RunMigrate, Heartbeat, vars, client, stream, history
<1>2. QED
  BY <1>1, AskingKeepsSInv DEF SInv, Types

LEMMA ConnectKeepsSInv ==
  ASSUME SInv, Connect
  PROVE  SInv'
<1>1. /\ UNCHANGED <<ledger, reports, post, open, missed, astray, boot, recovery>>
      /\ boot = "up" /\ connected' = TRUE
  BY DEF Connect, client, history
<1>2. Types' /\ BeforeUp'
  BY <1>1 DEF SInv, Types, BeforeUp
<1>3. QED
  BY <1>1, <1>2
  DEF SInv, HeardOfAccepted, ClosingIsLast, OpenIsNotClosed, ClosingFollows, FinalByReport,
      StaleAnswers, Ghosts, Orphans, Reported, Closed

-----------------------------------------------------------------------------
LEMMA AcceptKeepsSInv ==
  ASSUME SInv, NEW o \in Orders, Accept(o)
  PROVE  SInv'
<1>1. /\ post[o] \in {"sent", "stray"}
      /\ post' = [post EXCEPT ![o] = IF post[o] = "sent" THEN "accepted" ELSE "done"]
      /\ open' = open \cup {o}
      /\ astray' = IF post[o] = "stray" THEN astray \cup {o} ELSE astray
      /\ Report({o}, "ACKNOWLEDGED")
      /\ UNCHANGED <<boot, ledger, recovery, connected, missed>>
  BY DEF Accept, client
<1>2. /\ o \notin open /\ o \notin recovery.ids /\ ~Reported(o) /\ ledger[o] = Unknown
      /\ ~Closed(o)
  BY <1>1 DEF SInv, HeardOfAccepted, Reported, Closed
<1>3. /\ reports' \in Seq(Reports)
      /\ ~connected => reports' = reports
      /\ \A x : Reported(x)' <=> Reported(x) \/ (connected /\ x = o)
      /\ \A x : Closed(x)' <=> Closed(x)
      /\ ClosingIsLast'
  <2>1. "ACKNOWLEDGED" \in OrderState /\ "ACKNOWLEDGED" \notin Terminal /\ {o} \in SUBSET Orders
    BY DEF OrderState, Terminal
  <2>2. QED
    BY <1>1, <1>2, <2>1, Reporting DEF SInv
<1>4. /\ post'[o] \in {"accepted", "done"} /\ \A x \in Orders \ {o} : post'[x] = post[x]
      /\ post' \in [Orders -> Posts]
  BY <1>1 DEF SInv, Types, Posts
<1>5. Types'
  BY <1>1, <1>3, <1>4 DEF SInv, Types
<1>6. BeforeUp'
  BY <1>1, <1>3, <1>4 DEF SInv, BeforeUp, Types
<1>7. HeardOfAccepted'
  BY <1>1, <1>3, <1>4 DEF SInv, HeardOfAccepted
<1>8. OpenIsNotClosed' /\ ClosingFollows' /\ FinalByReport' /\ StaleAnswers' /\ Ghosts'
  BY <1>1, <1>2, <1>3
  DEF SInv, OpenIsNotClosed, ClosingFollows, FinalByReport, StaleAnswers, Ghosts, Unknown,
      Terminal
<1>9. Orphans'
  BY <1>1, <1>4 DEF SInv, Orphans, Types
<1>10. QED
  BY <1>3, <1>5, <1>6, <1>7, <1>8, <1>9 DEF SInv

LEMMA PartlyFillKeepsSInv ==
  ASSUME SInv, NEW o \in Orders, PartlyFill(o)
  PROVE  SInv'
<1>1. /\ o \in open
      /\ Report({o}, "PARTIALLY_FILLED")
      /\ UNCHANGED <<boot, ledger, recovery, connected, missed, post, open, astray>>
  BY DEF PartlyFill, client, history
<1>2. /\ reports' \in Seq(Reports)
      /\ ~connected => reports' = reports
      /\ \A x : Reported(x)' <=> Reported(x) \/ (connected /\ x = o)
      /\ \A x : Closed(x)' <=> Closed(x)
      /\ ClosingIsLast'
  <2>1. /\ "PARTIALLY_FILLED" \in OrderState /\ "PARTIALLY_FILLED" \notin Terminal
        /\ {o} \in SUBSET Orders
    BY DEF OrderState, Terminal
  <2>2. QED
    BY <1>1, <2>1, Reporting DEF SInv, OpenIsNotClosed
<1>3. Types' /\ BeforeUp'
  BY <1>1, <1>2 DEF SInv, Types, BeforeUp
<1>4. HeardOfAccepted' /\ OpenIsNotClosed' /\ ClosingFollows' /\ FinalByReport'
  BY <1>1, <1>2 DEF SInv, HeardOfAccepted, OpenIsNotClosed, ClosingFollows, FinalByReport
<1>5. StaleAnswers' /\ Ghosts' /\ Orphans'
  BY <1>1, <1>2 DEF SInv, StaleAnswers, Ghosts, Orphans
<1>6. QED
  BY <1>2, <1>3, <1>4, <1>5 DEF SInv

\* Orders are closed, each with a report if the stream is there.
LEMMA CloseKeepsSInv ==
  ASSUME SInv, NEW orders \in SUBSET open, NEW state \in Terminal, CloseOrders(orders, state)
  PROVE  SInv'
<1>1. /\ open' = open \ orders
      /\ Report(orders, state)
      /\ missed' = IF connected THEN missed ELSE missed \cup orders
      /\ UNCHANGED <<boot, ledger, recovery, connected, post, astray>>
  BY DEF CloseOrders, client
<1>2. /\ reports' \in Seq(Reports)
      /\ ~connected => reports' = reports
      /\ \A x : Reported(x)' <=> Reported(x) \/ (connected /\ x \in orders)
      /\ \A x : Closed(x)' <=> Closed(x) \/ (connected /\ x \in orders)
      /\ ClosingIsLast'
  <2>1. state \in OrderState /\ orders \in SUBSET Orders
    BY DEF OrderState, SInv, Types
  <2>2. QED
    BY <1>1, <2>1, Reporting DEF SInv, OpenIsNotClosed
<1>3. Types' /\ BeforeUp'
  BY <1>1, <1>2 DEF SInv, Types, BeforeUp
<1>4. HeardOfAccepted' /\ OpenIsNotClosed'
  BY <1>1, <1>2 DEF SInv, HeardOfAccepted, OpenIsNotClosed
<1>5. ClosingFollows'
  BY <1>1, <1>2 DEF SInv, ClosingFollows, BeforeUp, Reported
<1>6. FinalByReport'
  BY <1>1, <1>2 DEF SInv, FinalByReport
<1>7. StaleAnswers' /\ Ghosts' /\ Orphans'
  BY <1>1, <1>2 DEF SInv, StaleAnswers, Ghosts, Orphans
<1>8. QED
  BY <1>2, <1>3, <1>4, <1>5, <1>6, <1>7 DEF SInv

-----------------------------------------------------------------------------
\* core/ledger/recovery_coordinator.py:91-119, whatever the records and the answer:
\* afterwards the open orders are those of the answer that had not ended, no record
\* that ended has changed, and the same answer a second time changes nothing.
THEOREM RecoveredAreListed ==
  ASSUME NEW records \in Ledgers, NEW listed \in SUBSET Orders
  PROVE  LET after == Reconciled(records, listed)
         IN  /\ after \in Ledgers
             /\ OpenOrders(after) = {o \in listed : records[o] \notin Terminal}
             /\ \A o \in Orders : records[o] \in Terminal => after[o] = records[o]
             /\ Reconciled(after, listed) = after
<1> DEFINE after == Reconciled(records, listed)
<1>1. /\ after \in [Orders -> OrderState \cup {Unknown}]
      /\ \A o \in Orders :
           /\ o \in OpenOrders(records) <=> records[o] \notin Terminal \cup {Unknown}
           /\ after[o] = IF o \in OpenOrders(records)
                         THEN IF o \in listed THEN "ACKNOWLEDGED" ELSE "CANCELLED"
                         ELSE IF o \in listed /\ records[o] = Unknown
                              THEN "ACKNOWLEDGED" ELSE records[o]
  BY DEF Reconciled, Ledgers, OpenOrders, OrderState, Terminal
<1> HIDE DEF after
<1>2. ASSUME NEW o \in Orders
      PROVE  /\ o \in OpenOrders(after) <=> o \in listed /\ records[o] \notin Terminal
             /\ o \in OpenOrders(after) => after[o] = "ACKNOWLEDGED" /\ o \in listed
             /\ o \in listed => after[o] # Unknown
             /\ records[o] \in Terminal => after[o] = records[o]
  BY <1>1 DEF OpenOrders, Terminal, Unknown
<1>3. OpenOrders(after) = {o \in listed : records[o] \notin Terminal}
  BY <1>2 DEF OpenOrders
<1>4. Reconciled(after, listed) = after
  BY <1>1, <1>2 DEF Reconciled
<1>5. QED
  BY <1>1, <1>2, <1>3, <1>4 DEF after, Ledgers

-----------------------------------------------------------------------------
\* recover() goes on with its answer, however old.
LEMMA ReconcileKeepsSInv ==
  ASSUME SInv, Reconcile
  PROVE  SInv'
<1>1. /\ ledger' = Reconciled(ledger, recovery.ids)
      /\ recovery' = Idle /\ boot' = "up"
      /\ missed' = missed \cap recovery.ids
      /\ astray' = {o \in astray : o \notin recovery.ids \/ ledger[o] \in Terminal}
                   \cup ((OpenOrders(ledger) \cap open) \ recovery.ids)
      /\ UNCHANGED <<connected, reports, post, open>>
  BY DEF Reconcile, stream
<1>2. \A o \in Orders :
        /\ ledger[o] \in OrderState \cup {Unknown}
        /\ o \in OpenOrders(ledger) <=> ledger[o] \notin Terminal \cup {Unknown}
  BY DEF SInv, Types, Ledgers, OpenOrders
<1>3. \A o \in Orders :
        ledger'[o] = IF ledger[o] \notin Terminal \cup {Unknown}
                     THEN IF o \in recovery.ids THEN "ACKNOWLEDGED" ELSE "CANCELLED"
                     ELSE IF o \in recovery.ids /\ ledger[o] = Unknown THEN "ACKNOWLEDGED"
                     ELSE ledger[o]
  BY <1>1, <1>2 DEF Reconciled
<1>4. Types'
  <2>1. ledger' \in Ledgers
    BY <1>1, <1>2 DEF Reconciled, Ledgers, OrderState, Terminal
  <2>2. QED
    BY <1>1, <2>1 DEF SInv, Types, Idle
<1>5. BeforeUp' /\ ClosingIsLast' /\ OpenIsNotClosed' /\ ClosingFollows' /\ StaleAnswers'
  BY <1>1
  DEF SInv, BeforeUp, ClosingIsLast, OpenIsNotClosed, ClosingFollows, StaleAnswers, Reported,
      Closed, Idle
<1>6. \A o : (Reported(o)' <=> Reported(o)) /\ (Closed(o)' <=> Closed(o))
  BY <1>1 DEF Reported, Closed
<1>7. HeardOfAccepted'
  BY <1>1, <1>2, <1>3, <1>6 DEF SInv, HeardOfAccepted, Idle, Unknown
<1>8. FinalByReport'
  BY <1>1, <1>2, <1>3, <1>6 DEF SInv, FinalByReport, Terminal, Unknown
<1>9. Ghosts'
  <2> SUFFICES ASSUME NEW o \in Orders \ open, ledger'[o] \notin Terminal \cup {Unknown}
               PROVE  Closed(o) \/ (o \in missed /\ o \in recovery.ids)
    BY <1>1, <1>6 DEF Ghosts, OpenOrders
  <2>1. o \in recovery.ids /\ ledger[o] \notin Terminal
    BY <1>3 DEF Terminal, Unknown
  <2>2. QED
    BY <2>1 DEF SInv, StaleAnswers
<1>10. Orphans'
  <2> SUFFICES ASSUME NEW o \in open, ledger'[o] \in Terminal \cup {Unknown}
               PROVE  post[o] = "accepted" \/ o \in astray'
    BY <1>1 DEF Orphans, OpenOrders, SInv, Types
  <2>1. o \in Orders /\ (ledger[o] \in Terminal \/ o \notin recovery.ids)
    BY <1>3 DEF SInv, Types, Terminal, Unknown
  <2>2. CASE o \in OpenOrders(ledger)
    BY <1>1, <1>2, <2>1, <2>2
  <2>3. CASE o \notin OpenOrders(ledger)
    BY <1>1, <2>1, <2>3 DEF SInv, Orphans
  <2>4. QED
    BY <2>2, <2>3
<1>11. QED
  BY <1>4, <1>5, <1>7, <1>8, <1>9, <1>10 DEF SInv

\* The process is gone, and perhaps the open orders with it.
LEMMA DieKeepsSInv ==
  ASSUME SInv, NEW left \in SUBSET open, Die(left)
  PROVE  SInv'
<1>1. /\ boot' = "down" /\ ledger' = EmptyLedger /\ recovery' = Idle
      /\ connected' = FALSE /\ reports' = <<>>
      /\ open' = left /\ missed' = {} /\ astray' = left
      /\ post' = [o \in Orders |-> CASE post[o] = "sent" -> "stray"
                                      [] post[o] = "accepted" -> "done"
                                      [] OTHER -> post[o]]
  BY DEF Die
<1>2. \A o \in Orders :
        /\ post'[o] \in Posts \ {"sent", "accepted"}
        /\ post[o] \in {"accepted", "done"} => post'[o] = "done"
  BY <1>1 DEF SInv, Types, Posts
<1>3. \A o : ~Reported(o)' /\ ~Closed(o)'
  <2>1. 1..Len(reports') = {}
    BY <1>1
  <2>2. QED
    BY <2>1, Zenon DEF Reported, Closed
<1>4. \A o \in Orders : ledger'[o] = Unknown
  BY <1>1 DEF EmptyLedger
<1>5. Types'
  <2>1. post' \in [Orders -> Posts]
    BY <1>1, <1>2
  <2>2. ledger' \in Ledgers
    BY <1>1 DEF EmptyLedger, Ledgers
  <2>3. <<>> \in Seq(Reports)
    BY EmptySeq
  <2>4. QED
    BY <1>1, <2>1, <2>2, <2>3 DEF SInv, Types, Idle
<1>6. BeforeUp' /\ ClosingIsLast'
  BY <1>1, <1>2 DEF BeforeUp, ClosingIsLast
<1>7. HeardOfAccepted'
  BY <1>1, <1>2, <1>3, <1>4 DEF SInv, HeardOfAccepted, Idle
<1>8. QED
  BY <1>1, <1>3, <1>4, <1>5, <1>6, <1>7
  DEF SInv, OpenIsNotClosed, ClosingFollows, FinalByReport, StaleAnswers, Ghosts, Orphans, Idle,
      Unknown, Terminal, OpenOrders

\* The stream breaks with what it had not delivered.
LEMMA DropKeepsSInv ==
  ASSUME SInv, Drop
  PROVE  SInv'
<1>1. /\ connected /\ connected' = FALSE /\ reports' = <<>>
      /\ missed' = missed \cup {o \in Orders : ClosingReported(o)}
      /\ UNCHANGED <<boot, ledger, recovery, post, open, astray>>
  BY DEF Drop, client
<1>2. \A o \in Orders : Closed(o) => o \in missed'
  <2>1. DOMAIN reports = 1..Len(reports)
    BY LenProperties DEF SInv, Types
  <2>2. QED
    BY <1>1, <2>1 DEF ClosingReported, Closed
<1>3. \A o : ~Reported(o)' /\ ~Closed(o)'
  <2>1. 1..Len(reports') = {}
    BY <1>1
  <2>2. QED
    BY <2>1, Zenon DEF Reported, Closed
<1>4. Types' /\ BeforeUp' /\ ClosingIsLast'
  <2>1. <<>> \in Seq(Reports)
    BY EmptySeq
  <2>2. Types'
    BY <1>1, <2>1 DEF SInv, Types
  <2>3. QED
    BY <1>1, <2>2 DEF SInv, BeforeUp, ClosingIsLast
<1>5. HeardOfAccepted' /\ OpenIsNotClosed' /\ ClosingFollows' /\ FinalByReport' /\ Orphans'
  BY <1>1, <1>3
  DEF SInv, HeardOfAccepted, OpenIsNotClosed, ClosingFollows, FinalByReport, Orphans
<1>6. StaleAnswers' /\ Ghosts'
  BY <1>1, <1>2 DEF SInv, Types, StaleAnswers, Ghosts
<1>7. QED
  BY <1>4, <1>5, <1>6 DEF SInv

-----------------------------------------------------------------------------
LEMMA PostKeepsSInv ==
  ASSUME SInv, NEW o \in Orders, Post(o)
  PROVE  SInv'
<1>1. /\ boot = "up" /\ post[o] = "none"
      /\ post' = [post EXCEPT ![o] = "sent"]
      /\ UNCHANGED <<boot, ledger, recovery, connected, reports, open, missed, astray>>
  BY DEF Post, client, stream, history
<1>2. Types' /\ BeforeUp'
  BY <1>1 DEF SInv, Types, BeforeUp, Posts
<1>3. \A x : (Reported(x)' <=> Reported(x)) /\ (Closed(x)' <=> Closed(x))
  BY <1>1 DEF Reported, Closed
<1>4. HeardOfAccepted'
  BY <1>1, <1>3 DEF SInv, HeardOfAccepted, Types
<1>5. ClosingIsLast' /\ OpenIsNotClosed' /\ ClosingFollows' /\ FinalByReport' /\ StaleAnswers'
      /\ Ghosts'
  BY <1>1, <1>3
  DEF SInv, ClosingIsLast, OpenIsNotClosed, ClosingFollows, FinalByReport, StaleAnswers, Ghosts
<1>6. Orphans'
  BY <1>1 DEF SInv, Orphans, Types, HeardOfAccepted
<1>7. QED
  BY <1>2, <1>4, <1>5, <1>6 DEF SInv

\* The answer makes a record of the order, be it closed by now or not.
LEMMA PostReturnsKeepsSInv ==
  ASSUME SInv, NEW o \in Orders, PostReturns(o)
  PROVE  SInv'
<1>1. /\ post[o] = "accepted" /\ post' = [post EXCEPT ![o] = "done"]
      /\ ledger' = [ledger EXCEPT ![o] = "SUBMITTED"]
      /\ missed' = IF o \notin open /\ ~ClosingReported(o) THEN missed \cup {o} ELSE missed
      /\ UNCHANGED <<boot, recovery, connected, reports, open, astray>>
  BY DEF PostReturns, RecordSubmitted, stream
<1>2. /\ ledger'[o] = "SUBMITTED" /\ post'[o] = "done"
      /\ \A x \in Orders \ {o} : ledger'[x] = ledger[x] /\ post'[x] = post[x]
      /\ ledger' \in Ledgers /\ post' \in [Orders -> Posts]
  BY <1>1 DEF SInv, Types, Ledgers, OrderState, Posts
<1>3. \A x : (Reported(x)' <=> Reported(x)) /\ (Closed(x)' <=> Closed(x))
  BY <1>1 DEF Reported, Closed
<1>4. o \in open \/ Closed(o) \/ o \in missed'
  <2>1. DOMAIN reports = 1..Len(reports)
    BY LenProperties DEF SInv, Types
  <2>2. QED
    BY <1>1, <2>1 DEF ClosingReported, Closed
<1>5. boot = "up"
  BY <1>1 DEF SInv, BeforeUp
<1>6. Types' /\ BeforeUp'
  BY <1>1, <1>2, <1>5 DEF SInv, Types, BeforeUp
<1>7. HeardOfAccepted' /\ ClosingIsLast' /\ OpenIsNotClosed' /\ ClosingFollows'
  BY <1>1, <1>2, <1>3
  DEF SInv, HeardOfAccepted, ClosingIsLast, OpenIsNotClosed, ClosingFollows
<1>8. FinalByReport'
  BY <1>1, <1>2, <1>3 DEF SInv, FinalByReport, Terminal
<1>9. StaleAnswers' /\ Ghosts'
  BY <1>1, <1>2, <1>3, <1>4 DEF SInv, Types, StaleAnswers, Ghosts, OpenOrders
<1>10. Orphans'
  BY <1>1, <1>2 DEF SInv, Types, Orphans, OpenOrders, Terminal, Unknown
<1>11. QED
  BY <1>6, <1>7, <1>8, <1>9, <1>10 DEF SInv

\* A report is recorded, for an order with a record.
LEMMA DeliverKeepsSInv ==
  ASSUME SInv, Deliver
  PROVE  SInv'
<1> DEFINE h == Head(reports)
<1>1. /\ boot = "up" /\ reports # <<>> /\ reports' = Tail(reports)
      /\ ledger' = IF ledger[h.order] = Unknown THEN ledger
                   ELSE [ledger EXCEPT ![h.order] = h.state]
      /\ missed' = IF ledger[h.order] = Unknown /\ h.state \in Terminal
                   THEN missed \cup {h.order} ELSE missed
      /\ astray' = IF ledger[h.order] # Unknown /\ h.state \notin Terminal
                   THEN astray \ {h.order} ELSE astray
      /\ UNCHANGED <<boot, recovery, connected, post, open>>
  BY DEF Deliver, Transition
<1>2. /\ reports' \in Seq(Reports) /\ h.order \in Orders /\ h.state \in OrderState
      /\ Reported(h.order)
      /\ h.state \in Terminal => Closed(h.order)
      /\ \A o : o = h.order /\ h.state \in Terminal => ~Reported(o)'
      /\ \A o : Reported(o)' => Reported(o)
      /\ \A o : Closed(o)' => Closed(o)
      /\ \A o : Closed(o) /\ (o # h.order \/ h.state \notin Terminal) => Closed(o)'
      /\ ClosingIsLast'
  BY <1>1, Delivering DEF SInv, Reports
<1>3. ASSUME NEW o, Closed(o)' PROVE Reported(o)'
  BY <1>3 DEF Closed, Reported
<1> HIDE DEF h
<1>4. \A o \in Orders :
        ledger'[o] = IF o = h.order /\ ledger[o] # Unknown THEN h.state ELSE ledger[o]
  BY <1>1, <1>2 DEF SInv, Types, Ledgers
<1>5. Types'
  <2>1. ledger' \in Ledgers
    BY <1>1, <1>2 DEF SInv, Types, Ledgers
  <2>2. QED
    BY <1>1, <1>2, <2>1 DEF SInv, Types
<1>6. BeforeUp'
  <2>1. connected
    BY <1>1 DEF SInv, BeforeUp, Types
  <2>2. QED
    BY <1>1, <2>1 DEF BeforeUp
<1>7. HeardOfAccepted'
  BY <1>1, <1>2, <1>4 DEF SInv, HeardOfAccepted
<1>8. OpenIsNotClosed'
  BY <1>1, <1>2 DEF SInv, OpenIsNotClosed
<1>9. ClosingFollows'
  BY <1>1, <1>2 DEF SInv, ClosingFollows
<1>10. FinalByReport'
  BY <1>1, <1>2, <1>4 DEF SInv, FinalByReport, OpenIsNotClosed
<1>11. StaleAnswers'
  <2> SUFFICES ASSUME NEW o \in recovery.ids \ open
               PROVE  Closed(o)' \/ o \in missed' \/ ledger'[o] \in Terminal
    BY <1>1 DEF StaleAnswers
  <2>1. o \in Orders
    BY DEF SInv, Types
  <2>2. CASE o # h.order
    BY <1>1, <1>2, <1>4, <2>1, <2>2 DEF SInv, StaleAnswers
  <2>3. CASE o = h.order /\ h.state \in Terminal
    BY <1>1, <1>4, <2>1, <2>3
  <2>4. CASE o = h.order /\ h.state \notin Terminal
    BY <1>2, <2>1, <2>4 DEF SInv, ClosingFollows
  <2>5. QED
    BY <2>2, <2>3, <2>4
<1>12. Ghosts'
  <2> SUFFICES ASSUME NEW o \in Orders \ open, ledger'[o] \notin Terminal \cup {Unknown}
               PROVE  Closed(o)' \/ o \in missed'
    BY <1>1 DEF Ghosts, OpenOrders
  <2>1. CASE o # h.order
    BY <1>1, <1>2, <1>4, <2>1 DEF SInv, Ghosts, OpenOrders
  <2>2. CASE o = h.order
    <3>1. h.state \notin Terminal
      BY <1>4, <2>2
    <3>2. QED
      BY <1>2, <2>2, <3>1 DEF SInv, ClosingFollows
  <2>3. QED
    BY <2>1, <2>2
<1>13. Orphans'
  <2> SUFFICES ASSUME NEW o \in open, ledger'[o] \in Terminal \cup {Unknown}
               PROVE  post[o] = "accepted" \/ o \in astray'
    BY <1>1 DEF Orphans, OpenOrders, SInv, Types
  <2>1. o \in Orders
    BY DEF SInv, Types
  <2>2. CASE o # h.order
    BY <1>1, <1>4, <2>1, <2>2 DEF SInv, Orphans, OpenOrders
  <2>3. CASE o = h.order /\ ledger[o] # Unknown
    <3>1. h.state \in Terminal
      BY <1>2, <1>4, <2>1, <2>3 DEF OrderState, Unknown, Terminal
    <3>2. QED
      BY <1>2, <2>3, <3>1 DEF SInv, OpenIsNotClosed
  <2>4. CASE o = h.order /\ ledger[o] = Unknown
    BY <1>1, <2>1, <2>4 DEF SInv, Orphans, OpenOrders
  <2>5. QED
    BY <2>2, <2>3, <2>4
<1>14. QED
  BY <1>2, <1>5, <1>6, <1>7, <1>8, <1>9, <1>10, <1>11, <1>12, <1>13 DEF SInv

-----------------------------------------------------------------------------
LEMMA SInvNext == SInv /\ [Next]_vars => SInv'
<1> SUFFICES ASSUME SInv, [Next]_vars PROVE SInv'
  OBVIOUS
<1>1. CASE Start \/ Recover \/ RecoverAgain \/ Answer \/ RecoveryFails
  BY <1>1, StartupKeepsSInv
<1>2. CASE Migrate \/ RunMigrate \/ Heartbeat \/ UNCHANGED vars
  BY <1>2, StillKeepsSInv
<1>3. CASE Connect
  BY <1>3, ConnectKeepsSInv
<1>4. CASE Drop
  BY <1>4, DropKeepsSInv
<1>5. CASE Reconcile
  BY <1>5, ReconcileKeepsSInv
<1>6. CASE Crash \/ StartupFails
  BY <1>6, DieKeepsSInv DEF Crash, StartupFails
<1>7. CASE Deliver
  BY <1>7, DeliverKeepsSInv
<1>8. ASSUME NEW o \in Orders, Post(o) \/ PostReturns(o) PROVE SInv'
  BY <1>8, PostKeepsSInv, PostReturnsKeepsSInv
<1>9. CASE Exchange
  <2>1. CASE PlatformCancelsAll
    BY <2>1, CloseKeepsSInv DEF PlatformCancelsAll, Terminal
  <2>2. ASSUME NEW o \in Orders, Accept(o) \/ PartlyFill(o) PROVE SInv'
    BY <2>2, AcceptKeepsSInv, PartlyFillKeepsSInv
  <2>3. ASSUME NEW o \in Orders, Close(o) PROVE SInv'
    <3>1. PICK state \in Closings : o \in open /\ CloseOrders({o}, state)
      BY <2>3 DEF Close
    <3>2. QED
      BY <3>1, CloseKeepsSInv, SessionAssumption
  <2>4. QED
    BY <1>9, <2>1, <2>2, <2>3 DEF Exchange
<1>10. QED
  BY <1>1, <1>2, <1>3, <1>4, <1>5, <1>6, <1>7, <1>8, <1>9 DEF Next

LEMMA SInvHolds == Spec => []SInv
  BY SInvInit, SInvNext, PTL DEF Spec

\* FR-115 (core/ledger/recovery_coordinator.py:92): an order that only the ledger has open
\* is about to be closed in it, or was closed with nobody listening since the last recovery.
THEOREM GhostsExplainedHolds == Spec => []GhostsExplained
<1>1. SInv => GhostsExplained
  <2> SUFFICES ASSUME SInv PROVE GhostsExplained
    OBVIOUS
  <2>1. DOMAIN reports = 1..Len(reports)
    BY LenProperties DEF SInv, Types
  <2>2. \A o : Closed(o) => ClosingReported(o)
    BY <2>1 DEF Closed, ClosingReported
  <2>3. QED
    BY <2>2 DEF SInv, Ghosts, GhostsExplained, OpenOrders
<1>2. QED
  BY <1>1, SInvHolds, PTL

\* FR-502 (recovery_coordinator.py:92): an order that only the exchange has open waits for
\* its answer, or came to be too late for the last recovery.
THEOREM OrphansExplainedHolds == Spec => []OrphansExplained
<1>1. SInv => OrphansExplained
  BY DEF SInv, Orphans, OrphansExplained
<1>2. QED
  BY <1>1, SInvHolds, PTL

\* core/ledger/order_ledger.py:167: what a report ended stays ended, but for an answer to
\* post_order() that comes later still.
THEOREM OnlyRecoveryIsUndoneHolds == Spec => OnlyRecoveryIsUndone
<1> DEFINE Undone(o) ==
             ledger[o] \in Terminal /\ ledger'[o] \notin Terminal \cup {Unknown}
           Excused(o) ==
             \/ ledger[o] = "CANCELLED" /\ reports # <<>> /\ Head(reports).order = o
             \/ post[o] = "accepted" /\ post'[o] = "done"
<1>1. ASSUME SInv, [Next]_vars, NEW o \in Orders, Undone(o) PROVE Excused(o)
  <2>1. CASE Reconcile
    <3>1. ledger' = Reconciled(ledger, recovery.ids)
      BY <2>1 DEF Reconcile
    <3>2. ledger'[o] = ledger[o]
      BY <1>1, <3>1 DEF Reconciled, OpenOrders, Terminal, Unknown
    <3>3. QED
      BY <1>1, <3>2
  <2>2. CASE Crash \/ StartupFails
    BY <1>1, <2>2 DEF Crash, StartupFails, Die, EmptyLedger
  <2>3. ASSUME NEW x \in Orders, PostReturns(x) PROVE Excused(o)
    BY <1>1, <2>3 DEF PostReturns, RecordSubmitted, SInv, Types, Ledgers
  <2>4. CASE Deliver
    <3>1. reports # <<>> /\ Head(reports).order = o /\ Head(reports).state \notin Terminal
      BY <1>1, <2>4 DEF Deliver, Transition, SInv, Types, Ledgers
    <3>2. Reported(o)
      <4>1. Len(reports) \in Nat \ {0} /\ Head(reports) = reports[1]
        BY <3>1, EmptySeq DEF SInv, Types
      <4>2. QED
        BY <3>1, <4>1 DEF Reported
    <3>3. QED
      BY <1>1, <3>1, <3>2 DEF SInv, FinalByReport
  <2>5. CASE \/ Start \/ Migrate \/ RunMigrate \/ Recover \/ RecoverAgain \/ Answer
             \/ RecoveryFails \/ Connect \/ Drop \/ Heartbeat \/ Exchange \/ UNCHANGED vars
             \/ \E x \in Orders : Post(x)
    <3>1. ledger' = ledger
      BY <2>5 DEF Start, Migrate, RunMigrate, Recover, RecoverAgain, Answer, RecoveryFails,
         Connect, Drop, Heartbeat, Exchange, PlatformCancelsAll, Accept, PartlyFill, Close,
         CloseOrders, Post, vars, client
    <3>2. QED
      BY <1>1, <3>1
  <2>6. QED
    BY <1>1, <2>1, <2>2, <2>3, <2>4, <2>5 DEF Next
<1>2. SInv /\ [Next]_vars => [\A o \in Orders : Undone(o) => Excused(o)]_vars
  BY <1>1
<1>3. QED
  BY <1>2, SInvHolds, PTL DEF Spec, OnlyRecoveryIsUndone

-----------------------------------------------------------------------------
\* The migrations.  At(v) are the runs between the script and its row.
Applied(v) == {i \in 1..Len(scripts) : scripts[i] = v}
At(v) == {r \in Runners : runner[r].at = "row" /\ Current(r) = v}

Places == {"off", "reading", "script", "row", "done", "raised"}

MTypes ==
  /\ scripts \in Seq(Versions) /\ recorded \subseteq Versions
  /\ runner \in [Runners -> [at : Places, pending : SUBSET Versions]]
  /\ torn \in [Versions -> Nat]
  /\ \A r \in Runners : runner[r].at \in {"script", "row"} <=> runner[r].pending # {}

Accounted ==
  \A v \in Versions :
    Cardinality(Applied(v)) =
      torn[v] + (IF v \in recorded THEN 1 ELSE 0) + Cardinality(At(v))

\* What a run has not seen recorded it still has before it.
Covered ==
  \A r \in Runners :
    /\ runner[r].at \in {"script", "row"} => Versions \ recorded \subseteq runner[r].pending
    /\ runner[r].at = "done" => Versions \subseteq recorded

\* The bot's run is over when the startup goes on, and gone when the bot is; recover()
\* runs in a startup that has come to it, or in a bot that is up.
BotRun ==
  /\ boot = "down" => runner["bot"].at = "off"
  /\ boot \in {"recovering", "up"} => runner["bot"].at = "done"
  /\ boot = "recovering" => recovery.at # "none"
  /\ recovery.at # "none" => boot \in {"recovering", "up"}

MInv == MTypes /\ Accounted /\ Covered /\ BotRun

LEMMA CurrentIsPending ==
  ASSUME MTypes, NEW r \in Runners, runner[r].pending # {}
  PROVE  Current(r) \in runner[r].pending
<1> DEFINE P == runner[r].pending
<1>1. P \subseteq Nat
  BY VersionsAssumption DEF MTypes
<1> DEFINE Less == {ss \in Nat \X Nat : ss[1] < ss[2]}
<1>2. IsWellFoundedOn(Less, Nat)
  BY NatLessThanWellFounded, Zenon DEF OpToRel
<1> HIDE DEF P, Less
<1>3. \E x \in P : \A y \in P : <<y, x>> \notin Less
  BY <1>1, <1>2, WFMin DEF P
<1>4. PICK x \in P : \A y \in P : <<y, x>> \notin Less
  BY <1>3
<1>5. ASSUME NEW y \in P PROVE x <= y
  <2>1. x \in Nat /\ y \in Nat
    BY <1>1 DEF P
  <2>2. ~(y < x)
    BY <1>4, <2>1 DEF Less
  <2>3. QED
    BY <2>1, <2>2
<1>6. QED
  BY <1>4, <1>5 DEF Current, Min, P

LEMMA FinitelyMany ==
  ASSUME MTypes
  PROVE  \A v : /\ IsFiniteSet(At(v)) /\ Cardinality(At(v)) \in Nat
                /\ IsFiniteSet(Applied(v)) /\ Cardinality(Applied(v)) \in Nat
<1> SUFFICES ASSUME NEW v
             PROVE  /\ IsFiniteSet(At(v)) /\ Cardinality(At(v)) \in Nat
                    /\ IsFiniteSet(Applied(v)) /\ Cardinality(Applied(v)) \in Nat
  OBVIOUS
<1>1. IsFiniteSet(Runners)
  <2>1. IsFiniteSet({} \cup {"bot"})
    BY FS_EmptySet, FS_AddElement
  <2>2. IsFiniteSet(({} \cup {"bot"}) \cup {"migrate"})
    BY <2>1, FS_AddElement
  <2>3. Runners = ({} \cup {"bot"}) \cup {"migrate"}
    BY DEF Runners
  <2>4. QED
    BY <2>2, <2>3
<1>2. IsFiniteSet(At(v))
  BY <1>1, FS_Subset DEF At
<1>3. IsFiniteSet(1..Len(scripts))
  BY FS_Interval, LenProperties DEF MTypes
<1>4. IsFiniteSet(Applied(v))
  BY <1>3, FS_Subset DEF Applied
<1>5. QED
  BY <1>2, <1>4, FS_CardinalityType

LEMMA StartRunnerKeeps ==
  ASSUME MTypes, Accounted, Covered, NEW r \in Runners, runner[r].at # "row",
         StartRunner(r), UNCHANGED <<scripts, recorded, torn>>
  PROVE  MTypes' /\ Accounted' /\ Covered'
<1>1. /\ runner'[r] = [at |-> "reading", pending |-> {}]
      /\ \A q \in Runners \ {r} : runner'[q] = runner[q]
      /\ \A v : At(v)' = At(v)
  <2> DEFINE to == [at |-> "reading", pending |-> {}]
  <2>1. runner' = [runner EXCEPT ![r] = to]
    BY DEF StartRunner
  <2>2. runner'[r] = to /\ \A q \in Runners \ {r} : runner'[q] = runner[q]
    BY <2>1 DEF MTypes
  <2>3. \A v : At(v)' = At(v) \ {r} /\ r \notin At(v)
    BY <2>2 DEF At, Current
  <2>4. QED
    BY <2>2, <2>3
<1>2. MTypes'
  BY <1>1 DEF MTypes, StartRunner, Places
<1>3. Accounted'
  BY <1>1 DEF Accounted, Applied
<1>4. Covered'
  BY <1>1 DEF Covered
<1>5. QED
  BY <1>2, <1>3, <1>4

LEMMA RunEndsKeeps ==
  ASSUME MTypes, Accounted, Covered, NEW r \in Runners, NEW how \in {"off", "raised"},
         RunEnds(r, how), UNCHANGED <<scripts, recorded>>
  PROVE  MTypes' /\ Accounted' /\ Covered' /\ runner'[r].at = how
<1>1. /\ runner'[r] = [at |-> how, pending |-> {}]
      /\ \A q \in Runners \ {r} : runner'[q] = runner[q]
      /\ \A v : At(v)' = At(v) \ {r}
  <2> DEFINE to == [at |-> how, pending |-> {}]
  <2>1. runner' = [runner EXCEPT ![r] = to]
    BY DEF RunEnds
  <2>2. runner'[r] = to /\ \A q \in Runners \ {r} : runner'[q] = runner[q]
    BY <2>1 DEF MTypes
  <2>3. \A v : At(v)' = At(v) \ {r}
    BY <2>2 DEF At, Current
  <2>4. QED
    BY <2>2, <2>3
<1>2. runner[r].at = "row" => Current(r) \in Versions
  BY CurrentIsPending DEF MTypes
<1>3. MTypes'
  BY <1>1, <1>2 DEF MTypes, RunEnds, Places
<1>4. ASSUME NEW v \in Versions
      PROVE  /\ torn'[v] + Cardinality(At(v)') = torn[v] + Cardinality(At(v))
             /\ Cardinality(At(v)') \in Nat
  <2>1. /\ IsFiniteSet(At(v)) /\ Cardinality(At(v)) \in Nat
        /\ Cardinality(At(v) \ {r}) =
             IF r \in At(v) THEN Cardinality(At(v)) - 1 ELSE Cardinality(At(v))
    BY FinitelyMany, FS_RemoveElement
  <2>2. torn'[v] = IF r \in At(v) THEN torn[v] + 1 ELSE torn[v]
    BY <1>2 DEF RunEnds, MTypes, At
  <2>3. Cardinality(At(v)') = Cardinality(At(v) \ {r})
    BY <1>1
  <2>4. torn[v] \in Nat
    BY DEF MTypes
  <2>5. r \in At(v) => Cardinality(At(v)) # 0
    BY <2>1, FS_EmptySet
  <2>6. QED
    BY <2>1, <2>2, <2>3, <2>4, <2>5
<1>5. Accounted'
  <2> SUFFICES ASSUME NEW v \in Versions
               PROVE  Cardinality(Applied(v)) =
                        torn'[v] + (IF v \in recorded THEN 1 ELSE 0) + Cardinality(At(v)')
    BY DEF Accounted, Applied
  <2>1. Cardinality(At(v)) \in Nat /\ torn[v] \in Nat /\ torn'[v] \in Nat
    BY FinitelyMany, <1>3 DEF MTypes
  <2>2. QED
    BY <1>4, <2>1 DEF Accounted
<1>6. Covered'
  BY <1>1 DEF Covered
<1>7. QED
  BY <1>1, <1>3, <1>5, <1>6

LEMMA ReadVersionsKeeps ==
  ASSUME MTypes, Accounted, Covered, NEW r \in Runners, ReadVersions(r)
  PROVE  MTypes' /\ Accounted' /\ Covered'
<1> DEFINE left == Versions \ recorded
           to == [at |-> IF left = {} THEN "done" ELSE "script", pending |-> left]
<1>1. runner[r].at = "reading" /\ UNCHANGED <<scripts, recorded, torn>>
      /\ runner' = [runner EXCEPT ![r] = to]
  BY DEF ReadVersions
<1>2. runner'[r] = to /\ \A q \in Runners \ {r} : runner'[q] = runner[q]
  BY <1>1 DEF MTypes
<1>3. \A v : At(v)' = At(v)
  BY <1>1, <1>2 DEF At, Current
<1>4. MTypes'
  BY <1>1, <1>2 DEF MTypes, Places
<1>5. Accounted'
  BY <1>1, <1>3 DEF Accounted, Applied
<1>6. Covered'
  BY <1>1, <1>2 DEF Covered
<1>7. QED
  BY <1>4, <1>5, <1>6

LEMMA RunScriptKeeps ==
  ASSUME MTypes, Accounted, Covered, NEW r \in Runners, RunScript(r)
  PROVE  MTypes' /\ Accounted' /\ Covered'
<1> DEFINE n == Len(scripts)
<1>1. runner[r].at = "script" /\ UNCHANGED <<recorded, torn>>
      /\ scripts' = Append(scripts, Current(r))
      /\ runner' = [runner EXCEPT ![r].at = "row"]
  BY DEF RunScript
<1>2. /\ runner'[r] = [at |-> "row", pending |-> runner[r].pending]
      /\ \A q \in Runners \ {r} : runner'[q] = runner[q]
  BY <1>1 DEF MTypes
<1>3. Current(r) \in Versions
  BY <1>1, CurrentIsPending DEF MTypes
<1>4. MTypes'
  <2>1. scripts' \in Seq(Versions)
    BY <1>1, <1>3, AppendProperties DEF MTypes
  <2>2. QED
    BY <1>1, <1>2, <2>1 DEF MTypes, Places
<1>5. Covered'
  BY <1>1, <1>2 DEF Covered
<1>6. ASSUME NEW v \in Versions
      PROVE  Cardinality(Applied(v)') - Cardinality(At(v)')
               = Cardinality(Applied(v)) - Cardinality(At(v))
             /\ Cardinality(At(v)') \in Nat /\ Cardinality(Applied(v)') \in Nat
  <2>1. /\ n \in Nat /\ Len(scripts') = n + 1 /\ scripts'[n + 1] = Current(r)
        /\ \A i \in 1..n : scripts'[i] = scripts[i]
    BY <1>1, <1>3, AppendProperties, LenProperties DEF MTypes
  <2> HIDE DEF n
  <2>2. n + 1 \notin 1..n /\ 1..(n + 1) = (1..n) \cup {n + 1}
    BY <2>1
  <2>3. CASE v = Current(r)
    <3>1. At(v)' = At(v) \cup {r} /\ r \notin At(v)
      BY <1>1, <1>2, <2>3 DEF At, Current
    <3>2. Applied(v)' = Applied(v) \cup {n + 1} /\ n + 1 \notin Applied(v)
      BY <2>1, <2>2, <2>3 DEF Applied, n
    <3>3. /\ Cardinality(At(v)') = Cardinality(At(v)) + 1
          /\ Cardinality(Applied(v)') = Cardinality(Applied(v)) + 1
      <4>1. /\ Cardinality(At(v) \cup {r}) = Cardinality(At(v)) + 1
            /\ Cardinality(Applied(v) \cup {n + 1}) = Cardinality(Applied(v)) + 1
        BY <3>1, <3>2, FinitelyMany, FS_AddElement
      <4>2. QED
        BY <3>1, <3>2, <4>1
    <3>4. QED
      BY <3>3, FinitelyMany
  <2>4. CASE v # Current(r)
    <3>1. At(v)' = At(v)
      BY <1>1, <1>2, <2>4 DEF At, Current
    <3>2. Applied(v)' = Applied(v)
      BY <2>1, <2>2, <2>4 DEF Applied, n
    <3>3. /\ Cardinality(At(v)') = Cardinality(At(v))
          /\ Cardinality(Applied(v)') = Cardinality(Applied(v))
      BY <3>1, <3>2
    <3>4. QED
      BY <3>3, FinitelyMany
  <2>5. QED
    BY <2>3, <2>4
<1>7. Accounted'
  <2> SUFFICES ASSUME NEW v \in Versions
               PROVE  Cardinality(Applied(v)') =
                        torn[v] + (IF v \in recorded THEN 1 ELSE 0) + Cardinality(At(v)')
    BY <1>1 DEF Accounted
  <2>1. Cardinality(At(v)) \in Nat /\ Cardinality(Applied(v)) \in Nat /\ torn[v] \in Nat
    BY FinitelyMany DEF MTypes
  <2>2. QED
    BY <1>6, <2>1 DEF Accounted
<1>8. QED
  BY <1>4, <1>5, <1>7

\* The row is written: the run goes on, or is done if the last file was this.
LEMMA RecordVersionKeeps ==
  ASSUME MTypes, Accounted, Covered, NEW r \in Runners, RecordVersion(r)
  PROVE  MTypes' /\ Accounted' /\ Covered'
<1> DEFINE c == Current(r)
           left == runner[r].pending \ {c}
           to == [at |-> IF left = {} THEN "done" ELSE "script", pending |-> left]
<1>1. CASE c \in recorded
  <2>1. RunEnds(r, "raised") /\ UNCHANGED <<scripts, recorded>>
    BY <1>1 DEF RecordVersion
  <2>2. QED
    BY <2>1, RunEndsKeeps
<1>2. CASE c \notin recorded
  <2>1. runner[r].at = "row" /\ UNCHANGED <<scripts, torn>>
        /\ recorded' = recorded \cup {c} /\ runner' = [runner EXCEPT ![r] = to]
    BY <1>2 DEF RecordVersion
  <2>2. runner'[r] = to /\ \A q \in Runners \ {r} : runner'[q] = runner[q]
    BY <2>1 DEF MTypes
  <2>3. c \in runner[r].pending /\ c \in Versions
    BY <2>1, CurrentIsPending DEF MTypes
  <2>4. MTypes'
    BY <2>1, <2>2, <2>3 DEF MTypes, Places
  <2>5. Covered'
    BY <2>1, <2>2, <2>3 DEF Covered
  <2>6. ASSUME NEW v \in Versions
        PROVE  Cardinality(Applied(v)) =
                 torn[v] + (IF v \in recorded' THEN 1 ELSE 0) + Cardinality(At(v)')
    <3>1. /\ At(v)' = At(v) \ {r}
          /\ r \in At(v) <=> v = c
      BY <2>1, <2>2 DEF At, Current
    <3>2. /\ IsFiniteSet(At(v)) /\ Cardinality(At(v)) \in Nat
          /\ Cardinality(At(v) \ {r}) =
               IF r \in At(v) THEN Cardinality(At(v)) - 1 ELSE Cardinality(At(v))
      BY FinitelyMany, FS_RemoveElement
    <3>3. Cardinality(At(v)') = Cardinality(At(v) \ {r})
      BY <3>1
    <3>4. torn[v] \in Nat
      BY DEF MTypes
    <3>5. v \in recorded' <=> v \in recorded \/ v = c
      BY <2>1
    <3>6. Cardinality(Applied(v)) =
            torn[v] + (IF v \in recorded THEN 1 ELSE 0) + Cardinality(At(v))
      BY DEF Accounted
    <3> HIDE DEF c
    <3>7. QED
      BY <1>2, <3>1, <3>2, <3>3, <3>4, <3>5, <3>6
  <2>7. Accounted'
    BY <2>1, <2>6 DEF Accounted, Applied
  <2>8. QED
    BY <2>4, <2>5, <2>7
<1>3. QED
  BY <1>1, <1>2

-----------------------------------------------------------------------------
LEMMA MInvInit == Init => MInv
<1> SUFFICES ASSUME Init PROVE MInv
  OBVIOUS
<1>1. /\ boot = "down" /\ scripts = <<>> /\ recorded = {}
      /\ runner = [r \in Runners |-> [at |-> "off", pending |-> {}]]
      /\ torn = [v \in Versions |-> 0] /\ recovery.at = "none"
  BY DEF Init, MigrationsInit, Off, Idle
<1>2. MTypes
  <2>1. scripts \in Seq(Versions)
    BY <1>1, EmptySeq
  <2>2. QED
    BY <1>1, <2>1 DEF MTypes, Places
<1>3. \A v : At(v) = {} /\ Applied(v) = {}
  BY <1>1 DEF At, Applied
<1>4. Cardinality({}) = 0
  BY FS_EmptySet
<1>5. Accounted
  <2> SUFFICES ASSUME NEW v \in Versions
               PROVE  Cardinality(Applied(v)) =
                        torn[v] + (IF v \in recorded THEN 1 ELSE 0) + Cardinality(At(v))
    BY DEF Accounted
  <2>1. Cardinality(Applied(v)) = 0 /\ Cardinality(At(v)) = 0
    BY <1>3, <1>4
  <2>2. QED
    BY <1>1, <2>1
<1>6. Covered /\ BotRun
  BY <1>1 DEF Covered, BotRun, Runners
<1>7. QED
  BY <1>2, <1>5, <1>6 DEF MInv

LEMMA MInvNext == MInv /\ [Next]_vars => MInv'
<1> SUFFICES ASSUME MInv, [Next]_vars PROVE MInv'
  OBVIOUS
<1>1. MTypes /\ Accounted /\ Covered /\ BotRun /\ "bot" \in Runners /\ "migrate" \in Runners
  BY DEF MInv, Runners
<1>2. CASE Start
  <2>1. /\ StartRunner("bot") /\ boot = "down" /\ boot' = "migrating" /\ recovery' = recovery
        /\ UNCHANGED <<scripts, recorded, torn>>
    BY <1>2 DEF Start
  <2>2. MTypes' /\ Accounted' /\ Covered'
    BY <1>1, <2>1, StartRunnerKeeps DEF BotRun
  <2>3. QED
    BY <1>1, <2>1, <2>2 DEF MInv, BotRun
<1>3. CASE RunMigrate
  <2>1. /\ StartRunner("migrate") /\ runner["migrate"].at = "off"
        /\ UNCHANGED <<scripts, recorded, torn, boot, recovery>>
    BY <1>3 DEF RunMigrate, client
  <2>2. MTypes' /\ Accounted' /\ Covered'
    BY <1>1, <2>1, StartRunnerKeeps
  <2>3. runner'["bot"] = runner["bot"]
    BY <1>1, <2>1 DEF StartRunner, MTypes
  <2>4. QED
    BY <1>1, <2>1, <2>2, <2>3 DEF MInv, BotRun
<1>4. CASE Migrate
  <2>1. PICK r \in Runners : MigrationStep(r)
    BY <1>4 DEF Migrate
  <2>2. MTypes' /\ Accounted' /\ Covered'
    <3>1. CASE StatementFails(r)
      <4>1. RunEnds(r, "raised") /\ UNCHANGED <<scripts, recorded>>
        BY <3>1 DEF StatementFails
      <4>2. QED
        BY <1>1, <4>1, RunEndsKeeps
    <3>2. QED
      BY <1>1, <2>1, <3>1, ReadVersionsKeeps, RunScriptKeeps, RecordVersionKeeps
      DEF MigrationStep
  <2>3. UNCHANGED <<boot, recovery>>
    BY <1>4 DEF Migrate, client
  <2>4. runner[r].at \in {"reading", "script", "row"}
        /\ \A q \in Runners \ {r} : runner'[q] = runner[q]
    BY <1>1, <2>1 DEF MigrationStep, ReadVersions, RunScript, RecordVersion, StatementFails,
       RunEnds, MTypes
  <2>5. BotRun'
    BY <1>1, <2>3, <2>4 DEF BotRun
  <2>6. QED
    BY <2>2, <2>5 DEF MInv
<1>5. CASE Crash \/ StartupFails
  <2>1. RunEnds("bot", "off") /\ UNCHANGED <<scripts, recorded>> /\ boot' = "down"
        /\ recovery'.at = "none"
    BY <1>5 DEF Crash, StartupFails, Die, Idle
  <2>2. QED
    BY <1>1, <2>1, RunEndsKeeps DEF MInv, BotRun
<1>6. ASSUME UNCHANGED <<scripts, recorded, torn, runner>>, BotRun' PROVE MInv'
  BY <1>1, <1>6 DEF MInv, MTypes, Accounted, Covered, Applied, At, Current
<1>7. CASE Recover \/ Reconcile \/ RecoverAgain \/ Answer \/ RecoveryFails
  <2>1. UNCHANGED <<scripts, recorded, torn, runner>>
    BY <1>7 DEF Recover, Reconcile, RecoverAgain, Answer, RecoveryFails, schema
  <2>2. BotRun'
    BY <1>1, <1>7, <2>1 DEF Recover, Reconcile, RecoverAgain, Answer, RecoveryFails, BotRun, Idle
  <2>3. QED
    BY <1>6, <2>1, <2>2
<1>8. CASE \/ Deliver \/ Connect \/ Drop \/ Heartbeat \/ Exchange \/ UNCHANGED vars
           \/ \E o \in Orders : Post(o) \/ PostReturns(o)
  <2>1. UNCHANGED <<scripts, recorded, torn, runner, boot, recovery>>
    BY <1>8 DEF Deliver, Connect, Drop, Heartbeat, Exchange, PlatformCancelsAll, Accept,
       PartlyFill, Close, CloseOrders, Post, PostReturns, vars, schema, client
  <2>2. QED
    BY <1>1, <1>6, <2>1 DEF BotRun
<1>9. QED
  BY <1>2, <1>3, <1>4, <1>5, <1>7, <1>8 DEF Next

LEMMA MInvHolds == Spec => []MInv
  BY MInvInit, MInvNext, PTL DEF Spec

LEMMA RunsAreApplied == ASSUME MTypes PROVE \A v : Runs(v) = Cardinality(Applied(v))
<1>1. DOMAIN scripts = 1..Len(scripts)
  BY LenProperties DEF MTypes
<1>2. QED
  BY <1>1 DEF Runs, Applied

\* storage/postgres_client.py:72: every application of a script has its row, or a run that
\* is about to write it or ended before it could.
THEOREM RunsAccountedHolds == Spec => []RunsAccounted
<1>1. MInv => RunsAccounted
  BY RunsAreApplied DEF MInv, Accounted, RunsAccounted, At
<1>2. QED
  BY <1>1, MInvHolds, PTL

-----------------------------------------------------------------------------
Beat ==
  /\ beat \in {"off", "ok", "missed", "dead"}
  /\ beat = "off" <=> boot # "up"

LEMMA BeatNext == Beat /\ MInv /\ [Next]_vars => Beat'
<1> SUFFICES ASSUME Beat, MInv, [Next]_vars PROVE Beat'
  OBVIOUS
<1>1. CASE Start \/ Recover \/ RecoverAgain \/ Answer \/ Reconcile \/ RecoveryFails \/ Heartbeat
  BY <1>1 DEF Beat, MInv, BotRun, Start, Recover, RecoverAgain, Answer, Reconcile,
     RecoveryFails, Heartbeat
<1>2. CASE Crash \/ StartupFails
  BY <1>2 DEF Beat, Crash, StartupFails, Die
<1>3. CASE \/ Migrate \/ RunMigrate \/ Deliver \/ Connect \/ Drop \/ Exchange \/ UNCHANGED vars
           \/ \E o \in Orders : Post(o) \/ PostReturns(o)
  <2>1. UNCHANGED <<boot, beat>>
    BY <1>3 DEF Migrate, RunMigrate, Deliver, Connect, Drop, Exchange, PlatformCancelsAll,
       Accept, PartlyFill, Close, CloseOrders, Post, PostReturns, vars, client
  <2>2. QED
    BY <2>1 DEF Beat
<1>4. QED
  BY <1>1, <1>2, <1>3 DEF Next

\* core/orchestrator.py:119-184 (steps 6 to 11): the bot is past its migrations only with
\* every one of them applied and recorded, and the parts of a life hold together.
THEOREM TypeCorrect == Spec => []TypeOK
<1>1. SInv /\ MInv /\ Beat => TypeOK
  <2> SUFFICES ASSUME SInv, MInv, Beat PROVE TypeOK
    OBVIOUS
  <2>1. MigrationsTypeOK
    BY DEF MInv, MTypes, MigrationsTypeOK, Places
  <2>2. ASSUME boot \in {"recovering", "up"}, NEW v \in Versions
        PROVE  v \in recorded /\ Runs(v) > 0
    <3>1. v \in recorded
      BY <2>2 DEF MInv, BotRun, Covered, Runners
    <3>2. Cardinality(At(v)) \in Nat /\ torn[v] \in Nat
      BY FinitelyMany DEF MInv, MTypes
    <3>3. Runs(v) = torn[v] + 1 + Cardinality(At(v))
      BY <3>1, RunsAreApplied DEF MInv, Accounted
    <3>4. QED
      BY <3>1, <3>2, <3>3
  <2>3. \A i \in DOMAIN reports : reports[i].order \in Orders /\ reports[i].state \in OrderState
    <3>1. \A i \in DOMAIN reports : reports[i] \in Reports
      BY ElementOfSeq, LenProperties DEF SInv, Types
    <3>2. QED
      BY <3>1 DEF Reports
  <2>4. connected => boot = "up"
    BY DEF SInv, BeforeUp
  <2>5. QED
    BY <2>1, <2>2, <2>3, <2>4
    DEF TypeOK, SchemaReady, SInv, Types, Posts, MInv, BotRun, Beat
<1>2. Init => Beat
  BY DEF Init, Beat
<1>3. QED
  BY <1>1, <1>2, BeatNext, SInvHolds, MInvInit, MInvNext, PTL DEF Spec
=============================================================================
