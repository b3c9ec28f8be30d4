-------------------------- MODULE CatalogueProofs --------------------------
(***************************************************************************)
(* For any tokens, rates, listings, page sizes and bounds: a fee rate that *)
(* is served was charged not long ago, registered tokens have one, every   *)
(* registered token is subscribed, and a scan that nothing disturbed finds *)
(* the best of the listing.                                                *)
(***************************************************************************)
EXTENDS Catalogue, FiniteSetTheorems, SequenceTheorems, TLAPS

-----------------------------------------------------------------------------
(* Types. *)

RequestSet == [by : {"scan", "refresh", "fill"}, token : Tokens, age : 0..MaxRequest]
EntrySet == [token : Tokens, reward : Nat, accepting : BOOLEAN]
MarketSet == [tokens : SUBSET Tokens, reward : Nat, accepting : BOOLEAN]

\* Cached, charged and past rates, and the requests under way.
FeeTypeOK ==
  /\ now \in Nat
  /\ entries \in [Tokens -> [bps : Int, expires : Int]]
  /\ requests \subseteq RequestSet
  /\ rate \in [Tokens -> Rates]
  /\ past \subseteq [token : Tokens, bps : Rates, until : Nat]

ScanTypeOK ==
  /\ listing \in Listings
  /\ scan \in [at : {"asleep", "paging", "update", "warming"}, offset : Nat, pages : Nat,
                found : SUBSET EntrySet, fresh : SUBSET Tokens]
  /\ markets \subseteq Tokens
  /\ refresh \in [at : {"asleep", "cycle"}, wake : Nat, left : SUBSET Tokens]
  /\ faithful \in BOOLEAN /\ late \in BOOLEAN /\ scans \in Nat

CTypeOK == FeeTypeOK /\ ScanTypeOK

LEMMA CTypeInit == Init => CTypeOK
<1> SUFFICES ASSUME Init PROVE CTypeOK
  OBVIOUS
<1>1. RefreshEvery \in Nat
  BY FeeCacheAssumption, CatalogueAssumption
<1>2. ScanTypeOK
  BY <1>1 DEF Init, Idle, ScanTypeOK
<1>3. entries \in [Tokens -> [bps : Int, expires : Int]]
  BY DEF Init, FeeInit, None, NoEntry
<1>4. FeeTypeOK
  BY <1>3 DEF Init, FeeInit, FeeTypeOK
<1>5. QED
  BY <1>2, <1>4 DEF CTypeOK

\* Requests grow by one of age 0, or lose one.
LEMMA AskingIsRequest ==
  ASSUME NEW by \in {"scan", "refresh", "fill"}, NEW t \in Tokens
  PROVE  Asking(by, t) \in RequestSet
  BY FeeCacheAssumption DEF Asking, RequestSet

LEMMA TickKeepsType ==
  ASSUME CTypeOK, Tick
  PROVE  CTypeOK'
<1>1. requests' \subseteq RequestSet
  <2> SUFFICES ASSUME NEW r \in requests PROVE [r EXCEPT !.age = @ + 1] \in RequestSet
    BY DEF Tick, TimePasses
  <2>1. r \in RequestSet /\ r.age < MaxRequest
    BY DEF Tick, TimePasses, CTypeOK, FeeTypeOK
  <2>2. r.age \in Nat /\ r.age + 1 \in 0..MaxRequest
    BY <2>1, FeeCacheAssumption DEF RequestSet
  <2>3. QED
    BY <2>1, <2>2 DEF RequestSet
<1>2. QED
  BY <1>1 DEF Tick, TimePasses, bounds, CTypeOK, FeeTypeOK, ScanTypeOK

\* An answer is a rate the exchange charges or charged.
LEMMA AnswersAreRates ==
  ASSUME FeeTypeOK, NEW r \in requests, NEW bps \in Answers(r)
  PROVE  bps \in Rates /\ bps \in Nat
<1>1. r.token \in Tokens
  BY DEF FeeTypeOK, RequestSet
<1>2. bps \in Rates
  BY <1>1 DEF Answers, FeeTypeOK
<1>3. QED
  BY <1>2, FeeCacheAssumption

LEMMA ReturnsKeepsType ==
  ASSUME CTypeOK, NEW r \in requests, FetchReturns(r)
  PROVE  CTypeOK'
<1>1. PICK bps \in Answers(r) : Set(r.token, bps)
  BY DEF FetchReturns, Returns
<1>2. r.token \in Tokens /\ bps \in Int /\ now + TTL \in Int
  BY AnswersAreRates, FeeCacheAssumption DEF CTypeOK, FeeTypeOK, RequestSet
<1>3. entries' \in [Tokens -> [bps : Int, expires : Int]]
  BY <1>1, <1>2 DEF Set, CTypeOK, FeeTypeOK
<1>4. QED
  BY <1>3 DEF FetchReturns, bounds, CTypeOK, FeeTypeOK, ScanTypeOK

LEMMA RepricesKeepsType ==
  ASSUME CTypeOK, NEW t \in Tokens, ExchangeReprices(t)
  PROVE  CTypeOK'
<1>1. PICK bps \in Rates : rate' = [rate EXCEPT ![t] = bps]
  BY DEF ExchangeReprices, RateChanges
<1>2. past' = past \cup {[token |-> t, bps |-> rate[t], until |-> now]}
  BY DEF ExchangeReprices, RateChanges
<1>3. rate' \in [Tokens -> Rates] /\ past' \subseteq [token : Tokens, bps : Rates, until : Nat]
  BY <1>1, <1>2 DEF CTypeOK, FeeTypeOK
<1>4. QED
  BY <1>3 DEF ExchangeReprices, RateChanges, history, CTypeOK, FeeTypeOK, ScanTypeOK

\* The entries of a page are entries of tokens.
LEMMA FlattenedType ==
  ASSUME NEW page \in Seq(MarketSet)
  PROVE  Flattened(page) \subseteq EntrySet
<1> SUFFICES ASSUME NEW i \in DOMAIN page, NEW t \in page[i].tokens
             PROVE  Enriched(page[i], t) \in EntrySet
  BY DEF Flattened
<1>1. page[i] \in MarketSet
  BY ElementOfSeq, LenProperties
<1>2. QED
  BY <1>1 DEF MarketSet, EntrySet, Enriched

LEMMA ListingIsSeq ==
  ASSUME ScanTypeOK
  PROVE  /\ listing \in Seq(MarketSet)
         /\ \A i, j \in DOMAIN listing : i # j => listing[i].tokens \cap listing[j].tokens = {}
  BY ListingsAssumption DEF ScanTypeOK, MarketSet

\* The scanner task's state is the record that its steps update.
ScanFields == scan = [at |-> scan.at, offset |-> scan.offset, pages |-> scan.pages,
                      found |-> scan.found, fresh |-> scan.fresh]

CInv == ScanFields /\ RegisteredAreSubscribed

-----------------------------------------------------------------------------
LEMMA CInvInit == Init => CInv
  BY DEF Init, Idle, CInv, ScanFields, RegisteredAreSubscribed

\* Steps that leave the registry, the subscriptions and the scanner's state alone.
LEMMA OthersKeepCInv ==
  ASSUME CInv, UNCHANGED <<scan, markets, subscribed>>
  PROVE  CInv'
  BY DEF CInv, ScanFields, RegisteredAreSubscribed

\* The scan's own steps before the update: the last warm-up is over.
LEMMA PagingKeepsCInv ==
  ASSUME CInv, StartScan \/ PageArrives \/ PageFails
  PROVE  CInv'
<1>1. /\ scan.at # "warming" /\ UNCHANGED <<markets, subscribed>>
      /\ ScanFields'
  BY DEF CInv, ScanFields, StartScan, PageArrives, PageFails, Idle
<1>2. QED
  BY <1>1 DEF CInv, RegisteredAreSubscribed

\* Every token the update adds to the registry is one of the tokens to subscribe.
LEMMA UpdateKeepsCInv ==
  ASSUME CInv, Update
  PROVE  CInv'
<1>1. PICK s \in Selections :
        /\ markets' = TokensIn(s)
        /\ scan' = IF TokensIn(s) \ markets = {} THEN Idle
                   ELSE [Idle EXCEPT !.at = "warming", !.fresh = TokensIn(s) \ markets]
  BY DEF Update
<1>2. markets \subseteq subscribed /\ subscribed' = subscribed
  BY DEF Update, CInv, RegisteredAreSubscribed
<1>3. CASE TokensIn(s) \ markets = {}
  BY <1>1, <1>2, <1>3 DEF CInv, ScanFields, Idle, RegisteredAreSubscribed
<1>4. CASE TokensIn(s) \ markets # {}
  <2>1. scan' = [at |-> "warming", offset |-> 0, pages |-> 0, found |-> {},
                 fresh |-> TokensIn(s) \ markets]
    BY <1>1, <1>4 DEF Idle
  <2>2. QED
    BY <1>1, <1>2, <2>1 DEF CInv, ScanFields, RegisteredAreSubscribed
<1>5. QED
  BY <1>3, <1>4

LEMMA SubscribeKeepsCInv ==
  ASSUME CInv, Subscribe
  PROVE  CInv'
  BY DEF Subscribe, CInv, ScanFields, Idle, RegisteredAreSubscribed

LEMMA CInvNext == CInv /\ [Next]_vars => CInv'
<1> SUFFICES ASSUME CInv, [Next]_vars PROVE CInv'
  OBVIOUS
<1>1. CASE StartScan \/ PageArrives \/ PageFails
  BY <1>1, PagingKeepsCInv
<1>2. CASE Update
  BY <1>2, UpdateKeepsCInv
<1>3. CASE Subscribe
  BY <1>3, SubscribeKeepsCInv
<1>4. CASE \/ Relist \/ Wake \/ SleepAgain \/ Tick \/ UNCHANGED vars
           \/ \E t \in Tokens : RefreshNext(t) \/ Fill(t) \/ ExchangeReprices(t)
           \/ \E r \in requests : FetchReturns(r) \/ FetchFails(r)
  <2>1. UNCHANGED <<scan, markets, subscribed>>
    BY <1>4 DEF Relist, Wake, SleepAgain, Tick, vars, catalogueVars, RefreshNext, Fill,
                ExchangeReprices, FetchReturns, FetchFails
  <2>2. QED
    BY <2>1, OthersKeepCInv
<1>5. QED
  BY <1>1, <1>2, <1>3, <1>4 DEF Next

-----------------------------------------------------------------------------
(* What a scan sees: the entries of the listed markets at a set of positions. *)

EntriesAt(l, P) == UNION {{Enriched(l[i], t) : t \in l[i].tokens} : i \in P}

LEMMA MinOfTwo ==
  ASSUME NEW a \in Int, NEW b \in Int
  PROVE  Min({a, b}) = IF a <= b THEN a ELSE b
<1>1. CASE a <= b
  <2>1. \A x \in {a, b} : (\A y \in {a, b} : x <= y) <=> x = a
    BY <1>1
  <2>2. QED
    BY <1>1, <2>1 DEF Min
<1>2. CASE ~(a <= b)
  <2>1. \A x \in {a, b} : (\A y \in {a, b} : x <= y) <=> x = b
    BY <1>2
  <2>2. QED
    BY <1>2, <2>1 DEF Min
<1>3. QED
  BY <1>1, <1>2

LEMMA FlattenedSubSeq ==
  ASSUME ScanTypeOK, NEW m \in Nat \ {0}, NEW n \in Int, n <= Len(listing)
  PROVE  /\ SubSeq(listing, m, n) \in Seq(MarketSet)
         /\ Len(SubSeq(listing, m, n)) = IF m <= n THEN n - m + 1 ELSE 0
         /\ Flattened(SubSeq(listing, m, n)) = EntriesAt(listing, m..n)
<1> DEFINE part == SubSeq(listing, m, n)
<1>1. listing \in Seq(MarketSet)
  BY ListingIsSeq
<1>2. \A i \in m..n : listing[i] \in MarketSet
  BY <1>1, ElementOfSeq
<1>3. /\ part \in Seq(MarketSet)
      /\ Len(part) = IF m <= n THEN n - m + 1 ELSE 0
      /\ \A i \in 1..n - m + 1 : part[i] = listing[m + i - 1]
  BY <1>2, SubSeqProperties
<1>4. DOMAIN part = 1..n - m + 1
  <2>1. DOMAIN part = 1..Len(part)
    BY <1>3, LenProperties
  <2>2. QED
    BY <1>3, <2>1
<1> HIDE DEF part
<1>5. ASSUME NEW e PROVE e \in Flattened(part) <=> e \in EntriesAt(listing, m..n)
  <2>1. e \in Flattened(part) <=>
          \E i \in 1..n - m + 1 : \E t \in part[i].tokens : e = Enriched(part[i], t)
    BY <1>4 DEF Flattened
  <2>2. e \in EntriesAt(listing, m..n) <=>
          \E j \in m..n : \E t \in listing[j].tokens : e = Enriched(listing[j], t)
    BY DEF EntriesAt
  <2>3. ASSUME NEW i \in 1..n - m + 1 PROVE m + i - 1 \in m..n /\ part[i] = listing[m + i - 1]
    BY <1>3
  <2>4. ASSUME NEW j \in m..n PROVE j - m + 1 \in 1..n - m + 1 /\ part[j - m + 1] = listing[j]
    <3>1. j - m + 1 \in 1..n - m + 1 /\ m + (j - m + 1) - 1 = j
      OBVIOUS
    <3>2. QED
      BY <3>1, <1>3
  <2>5. QED
    BY <2>1, <2>2, <2>3, <2>4
<1>6. QED
  BY <1>3, <1>5 DEF part

\* The page that arrives holds the listing's next positions; it is the last one
\* when nothing that a scan can see follows it.
LEMMA PageIsNext ==
  ASSUME ScanTypeOK
  PROVE  /\ Flattened(Page) = EntriesAt(listing, (scan.offset + 1 .. scan.offset + PageSize) \cap DOMAIN listing)
         /\ Flattened(Page) \subseteq EntrySet
         /\ Len(Page) < PageSize => scan.offset + PageSize >= Len(listing)
<1> DEFINE to == Min({scan.offset + PageSize, Len(listing)})
<1>1. listing \in Seq(MarketSet) /\ Len(listing) \in Nat /\ DOMAIN listing = 1..Len(listing)
  BY ListingIsSeq, LenProperties
<1>2. PICK o \in Nat : o = scan.offset
  BY DEF ScanTypeOK
<1>3. PICK p \in Nat \ {0} : p = PageSize
  BY CatalogueAssumption
<1>4. PICK l \in Nat : l = Len(listing)
  BY <1>1
<1>5. to = IF o + p <= l THEN o + p ELSE l
  BY <1>2, <1>3, <1>4, MinOfTwo
<1> HIDE DEF to
<1>6. to \in Int /\ to <= l /\ (o + 1) .. to = (o + 1 .. o + p) \cap (1..l)
  <2>1. to \in Int /\ to <= l
    BY <1>5
  <2>2. \A i \in Int : i \in (o + 1) .. to <=> i \in (o + 1 .. o + p) /\ i \in 1..l
    BY <1>5
  <2>3. QED
    BY <2>1, <2>2
<1>7. /\ SubSeq(listing, o + 1, to) \in Seq(MarketSet)
      /\ Len(SubSeq(listing, o + 1, to)) = IF o + 1 <= to THEN to - (o + 1) + 1 ELSE 0
      /\ Flattened(SubSeq(listing, o + 1, to)) = EntriesAt(listing, o + 1 .. to)
  BY <1>4, <1>6, FlattenedSubSeq
<1>8. Page = SubSeq(listing, o + 1, to)
  BY <1>2 DEF Page, to
<1>9. Flattened(Page) \subseteq EntrySet
  BY <1>7, <1>8, FlattenedType
<1>10. Len(Page) < p => o + p >= l
  BY <1>5, <1>7, <1>8
<1>11. QED
  BY <1>1, <1>2, <1>3, <1>4, <1>6, <1>7, <1>8, <1>9, <1>10

LEMMA ListedIs ==
  ASSUME ScanTypeOK
  PROVE  Listed = EntriesAt(listing, (1..MaxPages * PageSize) \cap DOMAIN listing)
<1> DEFINE to == Min({MaxPages * PageSize, Len(listing)})
<1>1. listing \in Seq(MarketSet) /\ Len(listing) \in Nat /\ DOMAIN listing = 1..Len(listing)
  BY ListingIsSeq, LenProperties
<1>2. PICK p \in Nat : p = MaxPages * PageSize
  BY CatalogueAssumption
<1>3. PICK l \in Nat : l = Len(listing)
  BY <1>1
<1>4. to = IF p <= l THEN p ELSE l
  BY <1>2, <1>3, MinOfTwo
<1> HIDE DEF to
<1>5. to \in Int /\ to <= l /\ 1..to = (1..p) \cap (1..l)
  <2>1. to \in Int /\ to <= l
    BY <1>4
  <2>2. \A i \in Int : i \in 1..to <=> i \in 1..p /\ i \in 1..l
    BY <1>4
  <2>3. QED
    BY <2>1, <2>2
<1>6. Flattened(SubSeq(listing, 1, to)) = EntriesAt(listing, 1..to)
  BY <1>3, <1>5, FlattenedSubSeq
<1>7. QED
  BY <1>1, <1>2, <1>3, <1>5, <1>6 DEF Listed, to

\* As a token belongs to one market, the entries of other positions replace none.
LEMMA MergedIsUnion ==
  ASSUME ScanTypeOK, NEW P \in SUBSET DOMAIN listing, NEW Q \in SUBSET DOMAIN listing,
         P \cap Q = {}
  PROVE  Merged(EntriesAt(listing, P), EntriesAt(listing, Q)) = EntriesAt(listing, P \cup Q)
<1>1. EntriesAt(listing, P \cup Q) = EntriesAt(listing, P) \cup EntriesAt(listing, Q)
  BY DEF EntriesAt
<1>2. ASSUME NEW e \in EntriesAt(listing, P), NEW new \in EntriesAt(listing, Q) PROVE new.token # e.token
  <2>1. PICK i \in P : \E t \in listing[i].tokens : e = Enriched(listing[i], t)
    BY DEF EntriesAt
  <2>2. PICK j \in Q : \E t \in listing[j].tokens : new = Enriched(listing[j], t)
    BY DEF EntriesAt
  <2>3. e.token \in listing[i].tokens /\ new.token \in listing[j].tokens
    BY <2>1, <2>2 DEF Enriched
  <2>4. i # j /\ i \in DOMAIN listing /\ j \in DOMAIN listing
    OBVIOUS
  <2>5. QED
    BY <2>3, <2>4, ListingIsSeq
<1>3. QED
  BY <1>1, <1>2 DEF Merged

\* A token has at most one entry.
LEMMA OneEntryPerToken ==
  ASSUME ScanTypeOK, NEW P \in SUBSET DOMAIN listing,
         NEW a \in EntriesAt(listing, P), NEW b \in EntriesAt(listing, P), a.token = b.token
  PROVE  a = b
<1>1. PICK i \in P : \E t \in listing[i].tokens : a = Enriched(listing[i], t)
  BY DEF EntriesAt
<1>2. PICK j \in P : \E t \in listing[j].tokens : b = Enriched(listing[j], t)
  BY DEF EntriesAt
<1>3. a.token \in listing[i].tokens /\ b.token \in listing[j].tokens
  BY <1>1, <1>2 DEF Enriched
<1>4. i = j
  BY <1>3, ListingIsSeq
<1>5. QED
  BY <1>1, <1>2, <1>4 DEF Enriched

\* Entries are counted by their tokens.
LEMMA CountByToken ==
  ASSUME ScanTypeOK, NEW P \in SUBSET DOMAIN listing, NEW s \in SUBSET EntriesAt(listing, P),
         EntriesAt(listing, P) \subseteq EntrySet
  PROVE  /\ IsFiniteSet(s) /\ IsFiniteSet(TokensIn(s))
         /\ Cardinality(TokensIn(s)) = Cardinality(s)
<1> DEFINE f == [e \in s |-> e.token]
<1>1. f \in [s -> Tokens] /\ f \in [s -> TokensIn(s)]
  BY DEF EntrySet, TokensIn
<1>2. \A a, b \in s : f[a] = f[b] => a = b
  BY OneEntryPerToken
<1>3. \A t \in TokensIn(s) : \E e \in s : f[e] = t
  BY DEF TokensIn
<1>4. f \in Injection(s, Tokens)
  BY <1>1, <1>2 DEF Injection, IsInjective
<1>5. f \in Bijection(s, TokensIn(s))
  BY <1>1, <1>2, <1>3 DEF Bijection, Injection, IsInjective, Surjection
<1> HIDE DEF f
<1>6. IsFiniteSet(s)
  BY <1>4, FS_Injection, ListingsAssumption
<1>7. QED
  BY <1>5, <1>6, FS_Bijection DEF ExistsBijection

\* The selection of a scan that saw all there is to see.
LEMMA SelectionIsBest ==
  ASSUME ScanTypeOK, scan.found = Listed, NEW s \in Selections
  PROVE  LET eligible == {e \in Listed : e.accepting}
             chosen == {e \in eligible : e.token \in TokensIn(s)} IN
         /\ TokensIn(s) = TokensIn(chosen)
         /\ Cardinality(TokensIn(s)) = MaxMarkets \/ chosen = eligible
         /\ \A a \in chosen, b \in eligible \ chosen : a.reward >= b.reward
<1> DEFINE eligible == {e \in Listed : e.accepting}
           chosen == {e \in eligible : e.token \in TokensIn(s)}
           P == (1..MaxPages * PageSize) \cap DOMAIN listing
<1>1. Listed = EntriesAt(listing, P) /\ P \in SUBSET DOMAIN listing
  BY ListedIs
<1>2. Listed \subseteq EntrySet
  BY <1>1 DEF ScanTypeOK
<1>3. Candidates = eligible
  BY DEF Candidates
<1>4. /\ s \subseteq eligible
      /\ Cardinality(s) = Min({Cardinality(eligible), MaxMarkets})
      /\ \A a \in s, b \in eligible \ s : ~Before(b, a)
  BY <1>3 DEF Selections
<1>5. chosen = s
  <2>1. ASSUME NEW e \in chosen PROVE e \in s
    <3>1. PICK d \in s : d.token = e.token
      BY DEF TokensIn
    <3>2. d \in EntriesAt(listing, P) /\ e \in EntriesAt(listing, P)
      BY <1>1, <1>4
    <3> HIDE DEF P
    <3>3. QED
      BY <1>1, <3>1, <3>2, OneEntryPerToken
  <2>2. s \subseteq chosen
    BY <1>4 DEF TokensIn
  <2>3. QED
    BY <2>1, <2>2
<1> HIDE DEF chosen, P
<1>6. /\ IsFiniteSet(eligible)
      /\ Cardinality(TokensIn(s)) = Cardinality(s)
  BY <1>1, <1>2, <1>4, CountByToken
<1> DEFINE Best == /\ Cardinality(TokensIn(s)) = MaxMarkets \/ chosen = eligible
                   /\ \A a \in chosen, b \in eligible \ chosen : a.reward >= b.reward
<1>7. ASSUME Cardinality(eligible) <= MaxMarkets PROVE Best
  <2>1. Cardinality(s) = Cardinality(eligible)
    BY <1>4, <1>6, <1>7, MinOfTwo, FS_CardinalityType, CatalogueAssumption
  <2>2. s = eligible
    BY <1>4, <1>6, <2>1, FS_Subset
  <2>3. QED
    BY <1>4, <1>5, <2>2
<1>8. ASSUME ~(Cardinality(eligible) <= MaxMarkets) PROVE Best
  <2>1. Cardinality(s) = MaxMarkets
    BY <1>4, <1>6, <1>8, MinOfTwo, FS_CardinalityType, CatalogueAssumption
  <2>2. ASSUME NEW a \in chosen, NEW b \in eligible \ chosen PROVE a.reward >= b.reward
    <3>1. a.reward \in Nat /\ b.reward \in Nat
      BY <1>2, <1>4, <1>5 DEF EntrySet
    <3>2. ~Before(b, a)
      BY <1>4, <1>5
    <3>3. QED
      BY <3>1, <3>2 DEF Before
  <2>3. QED
    BY <1>5, <1>6, <2>1, <2>2
<1>9. TokensIn(s) = TokensIn(chosen) /\ Best
  BY <1>5, <1>7, <1>8
<1>10. QED
  BY <1>9 DEF chosen

-----------------------------------------------------------------------------
(* Every step keeps the types. *)

LEMMA ScanStepKeepsType ==
  ASSUME CTypeOK, StartScan \/ PageArrives \/ PageFails \/ Relist \/ Subscribe
  PROVE  CTypeOK'
<1>1. UNCHANGED feeVars => FeeTypeOK'
  BY DEF feeVars, CTypeOK, FeeTypeOK
<1>2. ASSUME StartScan PROVE ScanTypeOK'
  BY <1>2 DEF StartScan, Idle, CTypeOK, ScanTypeOK
<1>3. ASSUME PageArrives PROVE ScanTypeOK'
  <2>1. Flattened(Page) \subseteq EntrySet
    BY PageIsNext DEF CTypeOK
  <2>2. Merged(scan.found, Flattened(Page)) \in SUBSET EntrySet
    BY <2>1 DEF Merged, CTypeOK, ScanTypeOK
  <2>3. scan.offset + PageSize \in Nat /\ scan.pages + 1 \in Nat
    BY CatalogueAssumption DEF CTypeOK, ScanTypeOK
  <2>4. scan' \in [at : {"asleep", "paging", "update", "warming"}, offset : Nat, pages : Nat,
                   found : SUBSET EntrySet, fresh : SUBSET Tokens]
    BY <1>3, <2>2, <2>3 DEF PageArrives, CTypeOK, ScanTypeOK
  <2>5. QED
    BY <1>3, <2>4 DEF PageArrives, history, bounds, CTypeOK, ScanTypeOK
<1>4. ASSUME PageFails PROVE ScanTypeOK'
  BY <1>4 DEF PageFails, CTypeOK, ScanTypeOK
<1>5. ASSUME Relist PROVE ScanTypeOK'
  BY <1>5 DEF Relist, CTypeOK, ScanTypeOK
<1>6. ASSUME Subscribe PROVE ScanTypeOK'
  BY <1>6 DEF Subscribe, Idle, history, bounds, CTypeOK, ScanTypeOK
<1>7. UNCHANGED feeVars
  BY DEF StartScan, PageArrives, PageFails, Relist, Subscribe
<1>8. QED
  BY <1>1, <1>2, <1>3, <1>4, <1>5, <1>6, <1>7 DEF CTypeOK

\* Selected tokens are tokens.
LEMMA SelectedAreTokens ==
  ASSUME ScanTypeOK, NEW s \in Selections
  PROVE  TokensIn(s) \subseteq Tokens
  BY DEF Selections, Candidates, TokensIn, ScanTypeOK, EntrySet

LEMMA UpdateKeepsType ==
  ASSUME CTypeOK, Update
  PROVE  CTypeOK'
<1>1. PICK s \in Selections :
        /\ markets' = TokensIn(s)
        /\ requests' = requests \cup {Asking("scan", t) : t \in TokensIn(s) \ markets}
        /\ scan' = IF TokensIn(s) \ markets = {} THEN Idle
                   ELSE [Idle EXCEPT !.at = "warming", !.fresh = TokensIn(s) \ markets]
  BY DEF Update
<1>2. TokensIn(s) \subseteq Tokens
  BY SelectedAreTokens DEF CTypeOK
<1>3. requests' \subseteq RequestSet
  BY <1>1, <1>2, AskingIsRequest DEF CTypeOK, FeeTypeOK
<1>4. scan' \in [at : {"asleep", "paging", "update", "warming"}, offset : Nat, pages : Nat,
                 found : SUBSET EntrySet, fresh : SUBSET Tokens]
  BY <1>1, <1>2 DEF Idle
<1>5. QED
  BY <1>1, <1>2, <1>3, <1>4 DEF Update, history, bounds, CTypeOK, FeeTypeOK, ScanTypeOK

LEMMA RefreshStepKeepsType ==
  ASSUME CTypeOK, Wake \/ SleepAgain \/ \E t \in Tokens : RefreshNext(t) \/ Fill(t)
  PROVE  CTypeOK'
<1>1. CASE Wake
  BY <1>1 DEF Wake, feeVars, history, bounds, CTypeOK, FeeTypeOK, ScanTypeOK
<1>2. CASE SleepAgain
  <2>1. now + RefreshEvery \in Nat
    BY FeeCacheAssumption, CatalogueAssumption DEF CTypeOK, FeeTypeOK
  <2>2. QED
    BY <1>2, <2>1 DEF SleepAgain, feeVars, history, bounds, CTypeOK, FeeTypeOK, ScanTypeOK
<1>3. ASSUME NEW t \in Tokens, RefreshNext(t) PROVE CTypeOK'
  BY <1>3, AskingIsRequest
  DEF RefreshNext, history, bounds, CTypeOK, FeeTypeOK, ScanTypeOK
<1>4. ASSUME NEW t \in Tokens, Fill(t) PROVE CTypeOK'
  BY <1>4, AskingIsRequest DEF Fill, history, CTypeOK, FeeTypeOK, ScanTypeOK
<1>5. QED
  BY <1>1, <1>2, <1>3, <1>4

LEMMA CTypeNext ==
  ASSUME CTypeOK, [Next]_vars
  PROVE  CTypeOK'
<1>1. ASSUME NEW r \in requests, FetchFails(r) PROVE CTypeOK'
  BY <1>1 DEF FetchFails, Fails, CTypeOK, FeeTypeOK, ScanTypeOK
<1>2. CASE UNCHANGED vars
  BY <1>2 DEF vars, feeVars, catalogueVars, history, bounds, CTypeOK, FeeTypeOK, ScanTypeOK
<1>3. QED
  BY <1>1, <1>2, ScanStepKeepsType, UpdateKeepsType, RefreshStepKeepsType, TickKeepsType,
     ReturnsKeepsType, RepricesKeepsType DEF Next

-----------------------------------------------------------------------------
(* The age of the rates served. *)

\* An entry holds the rate charged now, or one charged until at most MaxRequest
\* ticks before the entry was made.
EntriesInv ==
  \A t \in Tokens : entries[t].bps # None =>
    /\ entries[t].expires <= now + TTL
    /\ \/ entries[t].bps = rate[t]
       \/ \E p \in past : /\ p.token = t /\ p.bps = entries[t].bps
                          /\ entries[t].expires - p.until <= TTL + MaxRequest

LEMMA EntriesInit == Init => EntriesInv
  BY DEF Init, FeeInit, NoEntry, EntriesInv

LEMMA ReturnsKeepsEntries ==
  ASSUME CTypeOK, EntriesInv, NEW r \in requests, FetchReturns(r)
  PROVE  EntriesInv'
<1>1. PICK bps \in Answers(r) : Set(r.token, bps)
  BY DEF FetchReturns, Returns
<1>2. UNCHANGED <<now, rate, past>>
  BY DEF FetchReturns
<1> SUFFICES ASSUME NEW t \in Tokens, entries'[t].bps # None
             PROVE  /\ entries'[t].expires <= now + TTL
                    /\ \/ entries'[t].bps = rate[t]
                       \/ \E p \in past : /\ p.token = t /\ p.bps = entries'[t].bps
                                          /\ entries'[t].expires - p.until <= TTL + MaxRequest
  BY <1>2 DEF EntriesInv
<1>3. CASE t # r.token
  BY <1>1, <1>3 DEF Set, EntriesInv, CTypeOK, FeeTypeOK
<1>4. CASE t = r.token
  <2>1. entries'[t].bps = bps /\ entries'[t].expires = now + TTL
    BY <1>1, <1>4 DEF Set, CTypeOK, FeeTypeOK
  <2>2. PICK age \in 0..MaxRequest : age = r.age
    BY DEF CTypeOK, FeeTypeOK, RequestSet
  <2>3. now \in Nat /\ TTL \in Nat /\ MaxRequest \in Nat
    BY FeeCacheAssumption DEF CTypeOK, FeeTypeOK
  <2>4. ASSUME NEW p \in past, p.token = t, p.bps = bps, p.until >= now - age
        PROVE  now + TTL - p.until <= TTL + MaxRequest
    <3>1. PICK until \in Nat : until = p.until
      BY DEF CTypeOK, FeeTypeOK
    <3>2. QED
      BY <2>3, <2>4, <3>1
  <2>5. bps = rate[t] \/ \E p \in past : p.token = t /\ p.bps = bps /\ p.until >= now - age
    BY <1>4, <2>2 DEF Answers
  <2>6. entries'[t].expires <= now + TTL
    BY <2>1, <2>3
  <2>7. CASE \E p \in past : p.token = t /\ p.bps = bps /\ p.until >= now - age
    <3>1. PICK p \in past : p.token = t /\ p.bps = bps /\ p.until >= now - age
      BY <2>7
    <3>2. now + TTL - p.until <= TTL + MaxRequest
      BY <2>4, <3>1
    <3>3. PICK until \in Nat : until = p.until
      BY DEF CTypeOK, FeeTypeOK
    <3>4. entries'[t].expires - p.until <= TTL + MaxRequest /\ p.bps = entries'[t].bps
      BY <2>1, <2>3, <3>1, <3>2, <3>3
    <3>5. QED
      BY <2>6, <3>1, <3>4
  <2>8. QED
    BY <2>1, <2>5, <2>6, <2>7
<1>5. QED
  BY <1>3, <1>4

\* A rate that changes now was charged until now.
LEMMA RepricesKeepsEntries ==
  ASSUME CTypeOK, EntriesInv, NEW u \in Tokens, ExchangeReprices(u)
  PROVE  EntriesInv'
<1>1. PICK new \in Rates : rate' = [rate EXCEPT ![u] = new]
  BY DEF ExchangeReprices, RateChanges
<1>2. /\ past' = past \cup {[token |-> u, bps |-> rate[u], until |-> now]}
      /\ UNCHANGED <<now, entries>>
  BY DEF ExchangeReprices, RateChanges
<1> SUFFICES ASSUME NEW t \in Tokens, entries[t].bps # None
             PROVE  /\ entries[t].expires <= now + TTL
                    /\ \/ entries[t].bps = rate'[t]
                       \/ \E p \in past' : /\ p.token = t /\ p.bps = entries[t].bps
                                           /\ entries[t].expires - p.until <= TTL + MaxRequest
  BY <1>2 DEF EntriesInv
<1>3. /\ entries[t].expires <= now + TTL
      /\ \/ entries[t].bps = rate[t]
         \/ \E p \in past : /\ p.token = t /\ p.bps = entries[t].bps
                            /\ entries[t].expires - p.until <= TTL + MaxRequest
  BY DEF EntriesInv
<1>4. CASE entries[t].bps = rate[t] /\ t = u
  <2> DEFINE p == [token |-> u, bps |-> rate[u], until |-> now]
  <2>1. p \in past' /\ p.token = t /\ p.bps = entries[t].bps /\ p.until = now
    BY <1>2, <1>4
  <2>2. PICK e \in Int : e = entries[t].expires
    BY DEF CTypeOK, FeeTypeOK
  <2>3. e - now <= TTL + MaxRequest
    BY <1>3, <2>2, FeeCacheAssumption DEF CTypeOK, FeeTypeOK
  <2> HIDE DEF p
  <2>4. QED
    BY <1>3, <2>1, <2>2, <2>3
<1>5. CASE entries[t].bps = rate[t] /\ t # u
  BY <1>1, <1>3, <1>5 DEF CTypeOK, FeeTypeOK
<1>6. CASE entries[t].bps # rate[t]
  BY <1>2, <1>3, <1>6
<1>7. QED
  BY <1>4, <1>5, <1>6

LEMMA EntriesNext ==
  ASSUME CTypeOK, EntriesInv, [Next]_vars
  PROVE  EntriesInv'
<1>1. CASE Tick
  <2>1. UNCHANGED <<entries, rate, past>> /\ now' = now + 1
    BY <1>1 DEF Tick, TimePasses
  <2>2. now \in Nat /\ TTL \in Nat /\ \A t \in Tokens : entries[t].expires \in Int
    BY FeeCacheAssumption DEF CTypeOK, FeeTypeOK
  <2>3. ASSUME NEW t \in Tokens, entries[t].expires <= now + TTL
        PROVE  entries[t].expires <= now + 1 + TTL
    <3>1. PICK e \in Int : e = entries[t].expires
      BY <2>2
    <3>2. QED
      BY <2>2, <2>3, <3>1
  <2>4. QED
    BY <2>1, <2>3 DEF EntriesInv
<1>2. CASE UNCHANGED <<now, entries, rate, past>>
  BY <1>2 DEF EntriesInv
<1>3. ASSUME NEW r \in requests, FetchFails(r) PROVE UNCHANGED <<now, entries, rate, past>>
  BY <1>3 DEF FetchFails, Fails
<1>4. ASSUME \/ StartScan \/ PageArrives \/ PageFails \/ Relist \/ Update \/ Subscribe
             \/ Wake \/ SleepAgain \/ UNCHANGED vars
             \/ \E t \in Tokens : RefreshNext(t) \/ Fill(t)
      PROVE  UNCHANGED <<now, entries, rate, past>>
  BY <1>4 DEF StartScan, PageArrives, PageFails, Relist, Update, Subscribe, Wake, SleepAgain,
              vars, feeVars, RefreshNext, Fill
<1>5. QED
  BY <1>1, <1>2, <1>3, <1>4, ReturnsKeepsEntries, RepricesKeepsEntries DEF Next

LEMMA EntriesImplyServed ==
  ASSUME CTypeOK, EntriesInv
  PROVE  ServedRateWasCharged
<1> SUFFICES ASSUME NEW t \in Tokens, Get(t) # None
             PROVE  \/ Get(t) = rate[t]
                    \/ \E p \in past : /\ p.token = t /\ p.bps = Get(t)
                                       /\ now - p.until <= TTL + MaxRequest
  BY DEF ServedRateWasCharged
<1>1. ~(now > entries[t].expires) /\ Get(t) = entries[t].bps
  BY DEF Get
<1>2. PICK e \in Int : e = entries[t].expires
  BY DEF CTypeOK, FeeTypeOK
<1>3. now <= e /\ now \in Nat
  BY <1>1, <1>2 DEF CTypeOK, FeeTypeOK
<1>4. ASSUME NEW p \in past, e - p.until <= TTL + MaxRequest
      PROVE  now - p.until <= TTL + MaxRequest
  <2>1. PICK until \in Nat : until = p.until
    BY DEF CTypeOK, FeeTypeOK
  <2>2. QED
    BY <1>3, <1>4, <2>1, FeeCacheAssumption
<1>5. QED
  BY <1>1, <1>2, <1>4 DEF EntriesInv

-----------------------------------------------------------------------------
(* Every registered token has a rate. *)

Asked(by, t) == \E r \in requests : r.by = by /\ r.token = t

\* The token's rate outlives the sleep of the refresh loop, or the loop is up and
\* comes to it, or is done with it for this cycle and the next sleep.
Covered(t) ==
  \/ t \in failed \/ Asked("scan", t)
  \/ /\ entries[t].bps # None
     /\ refresh.at = "asleep" => refresh.wake <= entries[t].expires
     /\ refresh.at = "cycle" =>
          /\ now <= entries[t].expires
          /\ t \in refresh.left \/ Asked("refresh", t) \/ now + RefreshEvery <= entries[t].expires

RatesInv ==
  /\ refresh.at = "asleep" => now <= refresh.wake /\ refresh.wake <= now + RefreshEvery
  /\ ~late => \A t \in markets : Covered(t)

LEMMA RatesInit == Init => RatesInv
  BY FeeCacheAssumption, CatalogueAssumption DEF Init, FeeInit, RatesInv

LEMMA AskingIsAsked ==
  ASSUME NEW by, NEW t, Asking(by, t) \in requests'
  PROVE  Asked(by, t)'
<1>1. Asking(by, t).by = by /\ Asking(by, t).token = t
  BY DEF Asking
<1>2. QED
  BY <1>1 DEF Asked

\* Steps that leave the rates and the refresh loop alone and take no request away.
LEMMA OthersKeepRates ==
  ASSUME RatesInv, UNCHANGED <<now, entries, refresh, failed, late>>,
         requests \subseteq requests',
         \A t \in markets' \ markets : Asked("scan", t)'
  PROVE  RatesInv'
<1>1. \A by, t : Asked(by, t) => Asked(by, t)'
  BY DEF Asked
<1>2. QED
  BY <1>1 DEF RatesInv, Covered

LEMMA UpdateKeepsRates ==
  ASSUME RatesInv, Update
  PROVE  RatesInv'
<1>1. PICK s \in Selections :
        /\ markets' = TokensIn(s)
        /\ requests' = requests \cup {Asking("scan", t) : t \in TokensIn(s) \ markets}
  BY DEF Update
<1>2. \A t \in markets' \ markets : Asked("scan", t)'
  BY <1>1, AskingIsAsked
<1>3. QED
  BY <1>1, <1>2, OthersKeepRates DEF Update, history

LEMMA WakeKeepsRates ==
  ASSUME CTypeOK, RatesInv, Wake
  PROVE  RatesInv'
<1>1. /\ refresh.at = "asleep" /\ now >= refresh.wake
      /\ refresh'.at = "cycle" /\ refresh'.left = markets
      /\ UNCHANGED <<now, entries, requests, failed, late, markets>>
  BY DEF Wake, feeVars, history
<1>2. \A by, t : Asked(by, t)' <=> Asked(by, t)
  BY <1>1 DEF Asked
<1>3. now \in Nat /\ refresh.wake \in Nat
  BY DEF CTypeOK, FeeTypeOK, ScanTypeOK
<1>4. ASSUME NEW t \in markets, Covered(t) PROVE Covered(t)'
  <2>1. t \in Tokens
    BY DEF CTypeOK, ScanTypeOK
  <2>2. PICK e \in Int : e = entries[t].expires
    BY <2>1 DEF CTypeOK, FeeTypeOK
  <2>3. refresh.wake <= e => now <= e
    BY <1>1, <1>3 DEF RatesInv
  <2>4. QED
    BY <1>1, <1>2, <1>4, <2>2, <2>3 DEF Covered
<1>5. QED
  BY <1>1, <1>4 DEF RatesInv

LEMMA SleepKeepsRates ==
  ASSUME CTypeOK, RatesInv, SleepAgain
  PROVE  RatesInv'
<1>1. /\ refresh.at = "cycle" /\ refresh.left = {} /\ ~Waiting("refresh")
      /\ refresh'.at = "asleep" /\ refresh'.wake = now + RefreshEvery
      /\ UNCHANGED <<now, entries, requests, failed, late, markets>>
  BY DEF SleepAgain, feeVars, history, CTypeOK, ScanTypeOK
<1>2. \A t : /\ Asked("scan", t)' <=> Asked("scan", t)
            /\ ~Asked("refresh", t)
  BY <1>1 DEF Asked, Waiting
<1>3. now \in Nat /\ RefreshEvery \in Nat
  BY FeeCacheAssumption, CatalogueAssumption DEF CTypeOK, FeeTypeOK
<1>4. ASSUME NEW t \in markets, Covered(t) PROVE Covered(t)'
  BY <1>1, <1>2, <1>4 DEF Covered
<1>5. QED
  BY <1>1, <1>3, <1>4 DEF RatesInv

LEMMA RefreshNextKeepsRates ==
  ASSUME CTypeOK, RatesInv, NEW u \in Tokens, RefreshNext(u)
  PROVE  RatesInv'
<1>1. /\ refresh.at = "cycle" /\ refresh'.at = "cycle" /\ refresh'.left = refresh.left \ {u}
      /\ requests' = requests \cup {Asking("refresh", u)}
      /\ UNCHANGED <<now, entries, failed, late, markets>>
  BY DEF RefreshNext, history, CTypeOK, ScanTypeOK
<1>2. \A by, t : Asked(by, t) => Asked(by, t)'
  BY <1>1 DEF Asked
<1>3. Asked("refresh", u)'
  BY <1>1, AskingIsAsked
<1>4. ASSUME NEW t \in markets, Covered(t) PROVE Covered(t)'
  BY <1>1, <1>2, <1>3, <1>4 DEF Covered
<1>5. QED
  BY <1>1, <1>4 DEF RatesInv

\* Time passes only in the loop's sleep, as long as its cycles take no time.
LEMMA TickKeepsRates ==
  ASSUME CTypeOK, RatesInv, Tick
  PROVE  RatesInv'
<1>1. /\ now' = now + 1
      /\ refresh.at = "asleep" => now < refresh.wake
      /\ late' = (late \/ refresh.at = "cycle")
      /\ UNCHANGED <<entries, failed, refresh, markets>>
      /\ requests' = {[r EXCEPT !.age = @ + 1] : r \in requests}
  BY DEF Tick, TimePasses
<1>2. now \in Nat /\ refresh.wake \in Nat /\ RefreshEvery \in Nat
  BY FeeCacheAssumption, CatalogueAssumption DEF CTypeOK, FeeTypeOK, ScanTypeOK
<1>3. \A t : Asked("scan", t) => Asked("scan", t)'
  <2> SUFFICES ASSUME NEW r \in requests
               PROVE  [r EXCEPT !.age = @ + 1].by = r.by /\ [r EXCEPT !.age = @ + 1].token = r.token
    BY <1>1 DEF Asked
  <2>1. r \in RequestSet
    BY DEF CTypeOK, FeeTypeOK
  <2>2. QED
    BY <2>1 DEF RequestSet
<1>4. ASSUME NEW t \in markets, Covered(t), ~late' PROVE Covered(t)'
  <2>1. refresh.at = "asleep"
    BY <1>1, <1>4 DEF CTypeOK, ScanTypeOK
  <2>2. QED
    BY <1>1, <1>3, <1>4, <2>1 DEF Covered
<1>5. refresh'.at = "asleep" => now' <= refresh'.wake /\ refresh'.wake <= now' + RefreshEvery
  BY <1>1, <1>2 DEF RatesInv
<1>6. ~late' => ~late
  BY <1>1
<1>7. QED
  BY <1>1, <1>4, <1>5, <1>6 DEF RatesInv

\* An answer sets an entry that lives for TTL ticks.
LEMMA ReturnsKeepsRates ==
  ASSUME CTypeOK, RatesInv, NEW r \in requests, FetchReturns(r)
  PROVE  RatesInv'
<1>1. PICK bps \in Answers(r) : Set(r.token, bps)
  BY DEF FetchReturns, Returns
<1>2. /\ requests' = requests \ {r} /\ failed' = failed \ {r.token}
      /\ UNCHANGED <<now, late, refresh, markets>>
  BY DEF FetchReturns
<1>3. now \in Nat /\ RefreshEvery \in Nat /\ TTL \in Nat /\ RefreshEvery <= TTL /\ bps # None
  BY AnswersAreRates, FeeCacheAssumption, CatalogueAssumption DEF CTypeOK, FeeTypeOK, None
<1>4. ASSUME NEW t \in markets, Covered(t) PROVE Covered(t)'
  <2>1. CASE t # r.token
    <3>1. entries'[t] = entries[t]
      BY <1>1, <2>1 DEF Set, CTypeOK, FeeTypeOK
    <3>2. \A by : Asked(by, t)' <=> Asked(by, t)
      BY <1>2, <2>1 DEF Asked
    <3>3. QED
      BY <1>2, <1>4, <2>1, <3>1, <3>2 DEF Covered
  <2>2. CASE t = r.token
    <3>1. t \in Tokens
      BY DEF CTypeOK, ScanTypeOK
    <3>2. entries'[t].bps = bps /\ entries'[t].expires = now + TTL
      BY <1>1, <2>2, <3>1 DEF Set, CTypeOK, FeeTypeOK
    <3>3. refresh.at = "asleep" => refresh.wake <= now + TTL
      <4>1. refresh.wake \in Nat
        BY DEF CTypeOK, ScanTypeOK
      <4>2. QED
        BY <1>3, <4>1 DEF RatesInv
    <3>4. now <= now + TTL /\ now + RefreshEvery <= now + TTL
      BY <1>3
    <3>5. QED
      BY <1>2, <1>3, <3>2, <3>3, <3>4 DEF Covered
  <2>3. QED
    BY <2>1, <2>2
<1>5. QED
  BY <1>2, <1>4 DEF RatesInv

LEMMA FailsKeepsRates ==
  ASSUME RatesInv, NEW r \in requests, FetchFails(r)
  PROVE  RatesInv'
<1>1. /\ requests' = requests \ {r} /\ failed' = failed \cup {r.token}
      /\ UNCHANGED <<now, entries, late, refresh, markets>>
  BY DEF FetchFails, Fails
<1>2. ASSUME NEW t \in markets, Covered(t) PROVE Covered(t)'
  <2>1. CASE t = r.token
    BY <1>1, <2>1 DEF Covered
  <2>2. CASE t # r.token
    <3>1. \A by : Asked(by, t)' <=> Asked(by, t)
      BY <1>1, <2>2 DEF Asked
    <3>2. QED
      BY <1>1, <1>2, <2>2, <3>1 DEF Covered
  <2>3. QED
    BY <2>1, <2>2
<1>3. QED
  BY <1>1, <1>2 DEF RatesInv

LEMMA RatesNext ==
  ASSUME CTypeOK, RatesInv, [Next]_vars
  PROVE  RatesInv'
<1>1. ASSUME \/ StartScan \/ PageArrives \/ PageFails \/ Relist \/ Subscribe \/ UNCHANGED vars
             \/ \E t \in Tokens : ExchangeReprices(t)
      PROVE  UNCHANGED <<now, entries, requests, refresh, failed, late, markets>>
  BY <1>1 DEF StartScan, PageArrives, PageFails, Relist, Subscribe, vars, feeVars,
              catalogueVars, history, ExchangeReprices, RateChanges
<1>2. ASSUME NEW t \in Tokens, Fill(t)
      PROVE  /\ UNCHANGED <<now, entries, refresh, failed, late, markets>>
             /\ requests \subseteq requests'
  BY <1>2 DEF Fill, history
<1>3. CASE \/ StartScan \/ PageArrives \/ PageFails \/ Relist \/ Subscribe \/ UNCHANGED vars
           \/ \E t \in Tokens : ExchangeReprices(t) \/ Fill(t)
  BY <1>1, <1>2, <1>3, OthersKeepRates
<1>4. QED
  BY <1>3, UpdateKeepsRates, WakeKeepsRates, SleepKeepsRates, RefreshNextKeepsRates,
     TickKeepsRates, ReturnsKeepsRates, FailsKeepsRates DEF Next

LEMMA RatesImplyRegistered ==
  ASSUME CTypeOK, RatesInv
  PROVE  RegisteredHaveRates
<1> SUFFICES ASSUME NEW t \in markets, Covered(t), t \notin failed, ~Asked("scan", t)
             PROVE  Get(t) # None
  BY DEF RatesInv, RegisteredHaveRates, Asked
<1>1. now \in Nat /\ refresh.wake \in Nat /\ refresh.at \in {"asleep", "cycle"} /\ t \in Tokens
  BY DEF CTypeOK, FeeTypeOK, ScanTypeOK
<1>2. PICK e \in Int : e = entries[t].expires
  BY <1>1 DEF CTypeOK, FeeTypeOK
<1>3. now <= e
  BY <1>1, <1>2 DEF Covered, RatesInv
<1>4. QED
  BY <1>1, <1>2, <1>3 DEF Covered, Get

-----------------------------------------------------------------------------
(* What a scan finds. *)

\* An undisturbed scan holds the entries of the positions it has gone through, and
\* in the end those of all it can see.
BestInv ==
  /\ scan.at = "paging" => scan.pages < MaxPages /\ scan.offset = scan.pages * PageSize
  /\ faithful /\ scan.at = "paging" =>
       scan.found = EntriesAt(listing, (1..scan.offset) \cap DOMAIN listing)
  /\ faithful /\ scan.at = "update" => scan.found = Listed
  /\ RegistryIsBest

LEMMA BestInit == Init => BestInv
  BY CatalogueAssumption DEF Init, Idle, BestInv, RegistryIsBest

\* Nothing but the listing, the registry and the scan is looked at.
LEMMA OthersKeepBest ==
  ASSUME BestInv, UNCHANGED <<listing, scan, markets, faithful, scans>>
  PROVE  BestInv'
<1>1. Listed' = Listed
  BY DEF Listed
<1>2. QED
  BY <1>1 DEF BestInv, RegistryIsBest

LEMMA StartKeepsBest ==
  ASSUME StartScan
  PROVE  BestInv'
<1>1. scan' = [at |-> "paging", offset |-> 0, pages |-> 0, found |-> {}, fresh |-> {}]
  BY DEF StartScan, Idle
<1>2. 0 < MaxPages /\ 0 = 0 * PageSize
  BY CatalogueAssumption
<1>3. (1..0) \cap DOMAIN listing' = {} /\ EntriesAt(listing', {}) = {}
  BY DEF EntriesAt
<1>4. QED
  BY <1>1, <1>2, <1>3 DEF BestInv, RegistryIsBest

\* A failed page or a listing that changes: nothing is claimed any more.
LEMMA DisturbedKeepsBest ==
  ASSUME CTypeOK, BestInv, PageFails \/ Relist
  PROVE  BestInv'
<1>1. ~faithful' /\ (scan'.at = "paging" => scan' = scan)
  BY DEF PageFails, Relist, CTypeOK, ScanTypeOK
<1>2. QED
  BY <1>1 DEF BestInv, RegistryIsBest

LEMMA PagesAdd ==
  ASSUME NEW n \in Nat, NEW m \in Nat, NEW p \in Nat, n < m
  PROVE  (n + 1) * p <= m * p
<1>1. m - n - 1 \in Nat /\ m = (n + 1) + (m - n - 1)
  OBVIOUS
<1>2. \A a, b \in Nat : (a + b) * p = a * p + b * p /\ a * p \in Nat /\ b * p \in Nat
  OBVIOUS
<1>3. QED
  BY <1>1, <1>2

LEMMA PageKeepsBest ==
  ASSUME CTypeOK, BestInv, PageArrives
  PROVE  BestInv'
<1> DEFINE seen == (1..scan.offset) \cap DOMAIN listing
           next == (scan.offset + 1 .. scan.offset + PageSize) \cap DOMAIN listing
           visible == (1..MaxPages * PageSize) \cap DOMAIN listing
<1>1. /\ scan.at = "paging"
      /\ scan'.found = Merged(scan.found, Flattened(Page))
      /\ scan'.offset = scan.offset + PageSize /\ scan'.pages = scan.pages + 1
      /\ scan'.at = IF LastPage(Page) THEN "update" ELSE "paging"
      /\ UNCHANGED <<listing, markets, faithful, scans>>
  BY DEF PageArrives, history, bounds, CTypeOK, ScanTypeOK
<1>2. ScanTypeOK
  BY DEF CTypeOK
<1>3. Flattened(Page) = EntriesAt(listing, next) /\ (Len(Page) < PageSize => scan.offset + PageSize >= Len(listing))
  BY <1>2, PageIsNext
<1>4. PICK o \in Nat, n \in Nat, p \in Nat \ {0}, m \in Nat \ {0}, l \in Nat :
        o = scan.offset /\ n = scan.pages /\ p = PageSize /\ m = MaxPages /\ l = Len(listing)
  BY <1>2, ListingIsSeq, LenProperties, CatalogueAssumption DEF ScanTypeOK
<1>5. n < m /\ o = n * p /\ o + p = (n + 1) * p
  BY <1>1, <1>4 DEF BestInv
<1>6. DOMAIN listing = 1..l
  BY <1>2, <1>4, ListingIsSeq, LenProperties
<1>7. seen \cap next = {} /\ seen \cup next = (1 .. o + p) \cap DOMAIN listing
  BY <1>4, <1>6
<1>8. LastPage(Page) => visible = seen \cup next
  <2> SUFFICES ASSUME LastPage(Page) PROVE visible = (1 .. o + p) \cap DOMAIN listing
    BY <1>7
  <2>1. o + p >= l \/ n + 1 = m
    BY <1>3, <1>4 DEF LastPage
  <2>2. o + p <= m * p
    <3>1. (n + 1) * p <= m * p
      BY <1>5, PagesAdd
    <3>2. QED
      BY <1>5, <3>1
  <2>3. n + 1 = m => o + p = m * p
    BY <1>5
  <2>4. PICK mp \in Nat : mp = m * p
    BY <1>4
  <2>5. visible = (1..mp) \cap (1..l)
    BY <1>4, <1>6, <2>4
  <2>6. QED
    BY <1>4, <1>6, <2>1, <2>2, <2>3, <2>4, <2>5
<1>9. faithful => scan'.found = EntriesAt(listing, seen \cup next)
  BY <1>1, <1>2, <1>3, <1>7, MergedIsUnion DEF BestInv
<1>10. /\ scan'.at = "paging" => scan'.pages < MaxPages /\ scan'.offset = scan'.pages * PageSize
       /\ faithful' /\ scan'.at = "paging" =>
            scan'.found = EntriesAt(listing', (1..scan'.offset) \cap DOMAIN listing')
  <2>1. n + 1 # m => n + 1 < m
    BY <1>4, <1>5
  <2>2. scan'.at = "paging" => n + 1 # m
    BY <1>1, <1>4 DEF LastPage
  <2>3. EntriesAt(listing', (1..scan'.offset) \cap DOMAIN listing') = EntriesAt(listing, seen \cup next)
    BY <1>1, <1>4, <1>7
  <2>4. QED
    BY <1>1, <1>4, <1>5, <1>9, <2>1, <2>2, <2>3
<1>11. faithful' /\ scan'.at = "update" => scan'.found = Listed'
  <2>1. Listed' = Listed
    BY <1>1 DEF Listed
  <2>2. Listed = EntriesAt(listing, visible)
    BY <1>2, ListedIs
  <2>3. scan'.at = "update" => LastPage(Page)
    BY <1>1
  <2>4. QED
    BY <1>1, <1>8, <1>9, <2>1, <2>2, <2>3
<1>12. RegistryIsBest'
  BY <1>1 DEF RegistryIsBest
<1>13. QED
  BY <1>10, <1>11, <1>12 DEF BestInv

LEMMA UpdateKeepsBest ==
  ASSUME CTypeOK, BestInv, Update
  PROVE  BestInv'
<1>1. scan.at = "update" /\ UNCHANGED <<listing, faithful, scans>>
  BY DEF Update, history, bounds
<1>2. PICK s \in Selections :
        /\ markets' = TokensIn(s)
        /\ scan' = IF TokensIn(s) \ markets = {} THEN Idle
                   ELSE [Idle EXCEPT !.at = "warming", !.fresh = TokensIn(s) \ markets]
  BY DEF Update
<1>3. scan'.at \in {"warming", "asleep"}
  BY <1>2 DEF Idle
<1>4. Listed' = Listed
  BY <1>1 DEF Listed
<1>5. faithful => RegistryIsBest'
  <2>1. ASSUME faithful PROVE scan.found = Listed
    BY <1>1, <2>1 DEF BestInv
  <2>2. ASSUME faithful
        PROVE  LET eligible == {e \in Listed : e.accepting}
                   chosen == {e \in eligible : e.token \in TokensIn(s)} IN
               /\ TokensIn(s) = TokensIn(chosen)
               /\ Cardinality(TokensIn(s)) = MaxMarkets \/ chosen = eligible
               /\ \A a \in chosen, b \in eligible \ chosen : a.reward >= b.reward
    BY <1>2, <2>1, <2>2, SelectionIsBest DEF CTypeOK
  <2>3. QED
    BY <1>2, <1>4, <2>2 DEF RegistryIsBest
<1>6. QED
  BY <1>1, <1>3, <1>5 DEF BestInv, RegistryIsBest

LEMMA SubscribeKeepsBest ==
  ASSUME BestInv, Subscribe
  PROVE  BestInv'
<1>1. /\ scan.at = "warming" /\ scan'.at = "asleep"
      /\ UNCHANGED <<listing, markets, faithful, scans>>
  BY DEF Subscribe, Idle, history, bounds
<1>2. QED
  BY <1>1 DEF BestInv, RegistryIsBest, Listed

LEMMA BestNext ==
  ASSUME CTypeOK, BestInv, [Next]_vars
  PROVE  BestInv'
<1>1. ASSUME \/ Wake \/ SleepAgain \/ Tick \/ UNCHANGED vars
             \/ \E t \in Tokens : RefreshNext(t) \/ Fill(t) \/ ExchangeReprices(t)
             \/ \E r \in requests : FetchReturns(r) \/ FetchFails(r)
      PROVE  UNCHANGED <<listing, scan, markets, faithful, scans>>
  BY <1>1 DEF Wake, SleepAgain, Tick, vars, catalogueVars, history, bounds, RefreshNext, Fill,
              ExchangeReprices, FetchReturns, FetchFails
<1>2. QED
  BY <1>1, OthersKeepBest, StartKeepsBest, DisturbedKeepsBest, PageKeepsBest, UpdateKeepsBest,
     SubscribeKeepsBest DEF Next

-----------------------------------------------------------------------------
(* The theorems. *)

\* orchestrator.py:386-409, market_stream.py:91-98: every token of the registry is
\* subscribed to, or the update that brought it is about to subscribe it.
THEOREM RegisteredAreSubscribedHolds == Spec => []RegisteredAreSubscribed
<1>1. CInv => RegisteredAreSubscribed
  BY DEF CInv
<1>2. QED
  BY <1>1, CInvInit, CInvNext, PTL DEF Spec

\* The types of the caches, the requests and the scan.
THEOREM CTypeCorrect == Spec => []CTypeOK
<1>1. CTypeOK /\ [Next]_vars => CTypeOK'
  BY CTypeNext
<1>2. QED
  BY CTypeInit, <1>1, PTL DEF Spec

\* fees/cache.py:36-58: the rate that get() serves is the exchange's, or was so at
\* most the time to live and the length of a request ago.
THEOREM ServedRateWasChargedHolds == Spec => []ServedRateWasCharged
<1>1. CTypeOK /\ EntriesInv /\ [Next]_vars => EntriesInv'
  BY EntriesNext
<1>2. CTypeOK /\ EntriesInv => ServedRateWasCharged
  BY EntriesImplyServed
<1>3. QED
  BY EntriesInit, <1>1, <1>2, CTypeCorrect, PTL DEF Spec

\* orchestrator.py:386-397, :411-433: with a refresh interval of at most the time to
\* live, no registered token whose fetches succeed loses its rate.
THEOREM RegisteredHaveRatesHolds == Spec => []RegisteredHaveRates
<1>1. CTypeOK /\ RatesInv /\ [Next]_vars => RatesInv'
  BY RatesNext
<1>2. CTypeOK /\ RatesInv => RegisteredHaveRates
  BY RatesImplyRegistered
<1>3. QED
  BY RatesInit, <1>1, <1>2, CTypeCorrect, PTL DEF Spec

\* universe_scanner.py:170-233, orchestrator.py:371-384: a scan that nothing disturbed
\* leaves the tokens of the highest rewards in the registry.
THEOREM RegistryIsBestHolds == Spec => []RegistryIsBest
<1>1. CTypeOK /\ BestInv /\ [Next]_vars => BestInv'
  BY BestNext
<1>2. BestInv => RegistryIsBest
  BY DEF BestInv
<1>3. QED
  BY BestInit, <1>1, <1>2, CTypeCorrect, PTL DEF Spec
=============================================================================
