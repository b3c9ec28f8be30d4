--------------------------- MODULE UserStreamProofs ---------------------------
(***************************************************************************)
(* For any frames, capacity and bounds, through any number of lost         *)
(* connections: no fill is lost on a connection that holds, duplicated or  *)
(* overtaken on its way to the position ledger, so that the ledger gets a  *)
(* FillFeed.                                                               *)
(*                                                                         *)
(* The argument follows the stations of Way.  Every step of the tasks      *)
(* moves the first event of a station to the end of the next one, removes  *)
(* an empty station or drops an event that is no fill; the exchange adds a *)
(* station of larger numbers; a lost connection removes stations at the    *)
(* end.                                                                    *)
(***************************************************************************)
EXTENDS UserStream, SequenceTheorems, TLAPS

Events == [kind : Kinds, n : Nat \ {0}]
Fills  == {e \in Events : e.kind = "fill"}

InOrder(W) ==
  \A s, r \in DOMAIN W : \A i \in DOMAIN W[s], j \in DOMAIN W[r] :
    s < r \/ (s = r /\ i < j) => W[s][i].n < W[r][j].n

On(W, e) == \E s \in DOMAIN W : e \in ToSet(W[s])

UpTo(W, n) == \A s \in DOMAIN W : \A i \in DOMAIN W[s] : W[s][i].n <= n

Within(W, S) == \A s \in DOMAIN W : \A i \in DOMAIN W[s] : W[s][i] \in S

Types ==
  /\ wire \in Seq(Seq(Events)) /\ pending \in Seq(Events)
  /\ queue \in [Queues -> Seq(Events)] /\ queue["fill"] \in Seq(Fills)
  /\ consumer \in Fills \cup {Idle}
  /\ handled \in Seq(Events) /\ sent \in Seq(Events)
  /\ lost \in Nat

\* What is on the way is in order, was sent, and on a connection that held so far it
\* is every fill.
Inv ==
  /\ Types
  /\ InOrder(Way)
  /\ Within(Way, ToSet(sent))
  /\ \A k \in DOMAIN sent : sent[k].n = k
  /\ lost = 0 => \A k \in DOMAIN sent : sent[k].kind = "fill" => On(Way, sent[k])

-----------------------------------------------------------------------------
LEMMA Headed ==
  ASSUME NEW S, NEW s \in Seq(S), s # <<>>
  PROVE  /\ Tail(s) \in Seq(S) /\ Len(s) \in Nat \ {0} /\ Len(Tail(s)) = Len(s) - 1
         /\ Head(s) = s[1] /\ s[1] \in S
         /\ \A i \in 1..(Len(s) - 1) : Tail(s)[i] = s[i + 1]
  OBVIOUS

LEMMA Appended ==
  ASSUME NEW S, NEW s \in Seq(S), NEW e \in S
  PROVE  /\ Append(s, e) \in Seq(S) /\ Len(Append(s, e)) = Len(s) + 1
         /\ \A i \in 1..Len(s) : Append(s, e)[i] = s[i]
         /\ Append(s, e)[Len(s) + 1] = e
  OBVIOUS

LEMMA Numbers ==
  ASSUME NEW W \in Seq(Seq(Events))
  PROVE  /\ Len(W) \in Nat /\ DOMAIN W = 1..Len(W)
         /\ \A s \in DOMAIN W :
              /\ W[s] \in Seq(Events) /\ Len(W[s]) \in Nat /\ DOMAIN W[s] = 1..Len(W[s])
              /\ s \in Nat /\ s >= 1
              /\ \A i \in DOMAIN W[s] :
                   i \in Nat /\ i >= 1 /\ W[s][i] \in Events /\ W[s][i].n \in Nat
<1>1. Len(W) \in Nat /\ DOMAIN W = 1..Len(W)
  OBVIOUS
<1>2. ASSUME NEW s \in DOMAIN W
      PROVE  /\ W[s] \in Seq(Events) /\ Len(W[s]) \in Nat /\ DOMAIN W[s] = 1..Len(W[s])
             /\ s \in Nat /\ s >= 1
             /\ \A i \in DOMAIN W[s] :
                  i \in Nat /\ i >= 1 /\ W[s][i] \in Events /\ W[s][i].n \in Nat
  <2>1. W[s] \in Seq(Events) /\ s \in Nat /\ s >= 1
    BY <1>1
  <2>2. \A x \in Seq(Events) :
          /\ Len(x) \in Nat /\ DOMAIN x = 1..Len(x)
          /\ \A i \in DOMAIN x : i \in Nat /\ i >= 1 /\ x[i] \in Events
    OBVIOUS
  <2>3. \A e \in Events : e.n \in Nat
    BY DEF Events
  <2>4. QED
    BY <2>1, <2>2, <2>3
<1>3. QED
  BY <1>1, <1>2

LEMMA Shifts ==
  \A l \in Nat : /\ \A i \in 1..(l - 1) : i + 1 \in 1..l
                 /\ \A i \in 1..l : i # 1 => i - 1 \in 1..(l - 1) /\ (i - 1) + 1 = i
  OBVIOUS

\* Where the i-th event of station s was before the first event of station r + 1 moved
\* behind the l events of station r.
MovedFrom(r, l, s, i) == IF s = r + 1 \/ (s = r /\ i = l + 1) THEN r + 1 ELSE s
MovedAt(r, l, s, i) == IF s = r + 1 THEN i + 1 ELSE IF s = r /\ i = l + 1 THEN 1 ELSE i

LEMMA MovedBefore ==
  ASSUME NEW r \in Nat, NEW l \in Nat, NEW s \in Nat, NEW t \in Nat, NEW i \in Nat, NEW j \in Nat,
         i >= 1, j >= 1, s = r => i <= l + 1, t = r => j <= l + 1,
         s < t \/ (s = t /\ i < j)
  PROVE  \/ MovedFrom(r, l, s, i) < MovedFrom(r, l, t, j)
         \/ /\ MovedFrom(r, l, s, i) = MovedFrom(r, l, t, j)
            /\ MovedAt(r, l, s, i) < MovedAt(r, l, t, j)
<1>1. CASE s = r + 1 \/ (s = r /\ i = l + 1)
  BY <1>1 DEF MovedFrom, MovedAt
<1>2. CASE s # r + 1 /\ ~(s = r /\ i = l + 1)
  BY <1>2 DEF MovedFrom, MovedAt
<1>3. QED
  BY <1>1, <1>2

\* Moving the first event of a station to the end of the one before it.
LEMMA Moved ==
  ASSUME NEW W \in Seq(Seq(Events)), NEW V \in Seq(Seq(Events)), NEW r \in Nat \ {0},
         r + 1 <= Len(W), W[r + 1] # <<>>, Len(V) = Len(W),
         V[r] = Append(W[r], Head(W[r + 1])), V[r + 1] = Tail(W[r + 1]),
         \A s \in 1..Len(W) : s # r /\ s # r + 1 => V[s] = W[s]
  PROVE  /\ InOrder(W) => InOrder(V)
         /\ \A S : Within(W, S) => Within(V, S)
         /\ \A e : On(W, e) => On(V, e)
<1> DEFINE a == W[r]  b == W[r + 1]
           from(s, i) == MovedFrom(r, Len(a), s, i)
           at(s, i) == MovedAt(r, Len(a), s, i)
<1>1. /\ a \in Seq(Events) /\ b \in Seq(Events) /\ b # <<>>
      /\ Len(W) \in Nat /\ DOMAIN W = 1..Len(W) /\ DOMAIN V = 1..Len(W)
      /\ \A s \in 1..Len(W) : W[s] \in Seq(Events)
  OBVIOUS
<1>2. /\ Len(b) \in Nat \ {0} /\ Len(V[r + 1]) = Len(b) - 1 /\ Head(b) = b[1] /\ b[1] \in Events
      /\ \A i \in 1..(Len(b) - 1) : V[r + 1][i] = b[i + 1]
      /\ V[r + 1] \in Seq(Events)
  BY <1>1, Headed
<1>9. DOMAIN V[r + 1] = 1..(Len(b) - 1) /\ DOMAIN b = 1..Len(b) /\ b = W[r + 1]
  <2>1. \A x \in Seq(Events) : DOMAIN x = 1..Len(x)
    OBVIOUS
  <2>2. QED
    BY <1>1, <1>2, <2>1
<1>3. /\ Len(V[r]) = Len(a) + 1 /\ V[r][Len(a) + 1] = b[1] /\ Len(a) \in Nat
      /\ \A i \in 1..Len(a) : V[r][i] = a[i]
      /\ V[r] \in Seq(Events)
  BY <1>1, <1>2, Appended
<1>10. DOMAIN V[r] = 1..(Len(a) + 1) /\ DOMAIN a = 1..Len(a) /\ a = W[r] /\ r # r + 1
  <2>1. DOMAIN V[r] = 1..Len(V[r])
    BY <1>3
  <2>2. QED
    BY <1>1, <1>3, <2>1
<1>11. r \in DOMAIN W /\ r + 1 \in DOMAIN W
  BY <1>1
<1> HIDE DEF a, b
<1>4. ASSUME NEW s \in DOMAIN V, NEW i \in DOMAIN V[s]
      PROVE  /\ from(s, i) \in DOMAIN W /\ at(s, i) \in DOMAIN W[from(s, i)]
             /\ V[s][i] = W[from(s, i)][at(s, i)]
  <2>1. CASE s = r
    <3>1. i \in 1..(Len(a) + 1) /\ V[s][i] = V[r][i]
      BY <1>10, <2>1
    <3>2. CASE i = Len(a) + 1
      <4>1. from(s, i) = r + 1 /\ at(s, i) = 1 /\ V[s][i] = b[1]
        BY <1>3, <1>10, <2>1, <3>1, <3>2 DEF MovedFrom, MovedAt
      <4>2. 1 \in DOMAIN b
        BY <1>2, <1>9
      <4>3. QED
        BY <1>9, <1>11, <4>1, <4>2
    <3>3. CASE i # Len(a) + 1
      <4>1. i \in 1..Len(a) /\ from(s, i) = r /\ at(s, i) = i
        BY <1>3, <1>10, <2>1, <3>1, <3>3 DEF MovedFrom, MovedAt
      <4>2. V[s][i] = a[i]
        BY <1>3, <3>1, <4>1
      <4>3. QED
        BY <1>10, <1>11, <4>1, <4>2
    <3>4. QED
      BY <3>2, <3>3
  <2>2. CASE s = r + 1
    <3>1. i \in 1..(Len(b) - 1) /\ V[s][i] = V[r + 1][i]
      BY <1>9, <2>2
    <3>2. from(s, i) = r + 1 /\ at(s, i) = i + 1
      BY <2>2 DEF MovedFrom, MovedAt
    <3>3. V[s][i] = b[i + 1]
      BY <1>2, <3>1
    <3>5. i + 1 \in DOMAIN b
      <4>1. PICK l \in Nat : l = Len(b)
        BY <1>2
      <4>2. i \in 1..(l - 1)
        BY <3>1, <4>1
      <4>3. i + 1 \in 1..l
        BY <4>2, Shifts
      <4>4. QED
        BY <1>9, <4>1, <4>3
    <3>4. QED
      BY <1>9, <1>11, <3>2, <3>3, <3>5
  <2>3. CASE s # r /\ s # r + 1
    BY <1>1, <2>3 DEF MovedFrom, MovedAt
  <2>4. QED
    BY <2>1, <2>2, <2>3
<1>5. ASSUME InOrder(W) PROVE InOrder(V)
  <2> SUFFICES ASSUME NEW s \in DOMAIN V, NEW t \in DOMAIN V,
                      NEW i \in DOMAIN V[s], NEW j \in DOMAIN V[t],
                      s < t \/ (s = t /\ i < j)
               PROVE  V[s][i].n < V[t][j].n
    BY DEF InOrder
  <2>1. /\ V[s][i] = W[from(s, i)][at(s, i)] /\ V[t][j] = W[from(t, j)][at(t, j)]
        /\ from(s, i) \in DOMAIN W /\ at(s, i) \in DOMAIN W[from(s, i)]
        /\ from(t, j) \in DOMAIN W /\ at(t, j) \in DOMAIN W[from(t, j)]
    BY <1>4
  <2>2. s \in Nat /\ t \in Nat /\ i \in Nat /\ j \in Nat /\ i >= 1 /\ j >= 1
    BY Numbers
  <2>3. s = r => i <= Len(a) + 1
    BY <1>3, SMTT(20)
  <2>4. t = r => j <= Len(a) + 1
    BY <1>3, SMTT(20)
  <2>5. from(s, i) < from(t, j) \/ (from(s, i) = from(t, j) /\ at(s, i) < at(t, j))
    <3>1. Len(a) \in Nat
      BY <1>3
    <3>2. QED
      BY <2>2, <2>3, <2>4, <3>1, MovedBefore
  <2> HIDE DEF from, at
  <2>6. QED
    BY <1>5, <2>1, <2>5 DEF InOrder
<1>6. ASSUME NEW S, Within(W, S) PROVE Within(V, S)
  <2> HIDE DEF from, at
  <2>1. QED
    BY <1>4, <1>6 DEF Within
<1>7. ASSUME NEW e, On(W, e) PROVE On(V, e)
  <2>1. PICK s \in DOMAIN W : \E i \in DOMAIN W[s] : e = W[s][i]
    BY <1>7 DEF On, ToSet
  <2>2. PICK i \in DOMAIN W[s] : e = W[s][i]
    BY <2>1
  <2>3. CASE s # r /\ s # r + 1
    BY <1>1, <2>2, <2>3 DEF On, ToSet
  <2>4. CASE s = r
    <3>1. i \in DOMAIN V[r] /\ V[r][i] = e
      BY <1>1, <1>3, <2>2, <2>4, SMTT(20)
    <3>2. QED
      BY <1>1, <2>4, <3>1 DEF On, ToSet
  <2>5. CASE s = r + 1 /\ i = 1
    <3>1. Len(a) + 1 \in DOMAIN V[r] /\ V[r][Len(a) + 1] = e
      BY <1>1, <1>2, <1>3, <2>2, <2>5
    <3>2. r \in DOMAIN V
      BY <1>1
    <3>3. QED
      BY <3>1, <3>2 DEF On, ToSet
  <2>6. CASE s = r + 1 /\ i # 1
    <3>1. i \in 1..Len(b) /\ e = b[i]
      BY <1>9, <2>2, <2>6
    <3>2. i - 1 \in 1..(Len(b) - 1) /\ (i - 1) + 1 = i
      <4>1. PICK l \in Nat : l = Len(b)
        BY <1>2
      <4>2. i \in 1..l /\ i # 1
        BY <2>6, <3>1, <4>1
      <4>3. i - 1 \in 1..(l - 1) /\ (i - 1) + 1 = i
        BY <4>2
      <4>4. QED
        BY <4>1, <4>3
    <3>3. i - 1 \in DOMAIN V[r + 1] /\ V[r + 1][i - 1] = e
      BY <1>2, <1>9, <3>1, <3>2
    <3>4. r + 1 \in DOMAIN V
      BY <1>1, <1>11
    <3>5. QED
      BY <3>3, <3>4 DEF On, ToSet
  <2>7. QED
    BY <2>3, <2>4, <2>5, <2>6
<1>8. QED
  BY <1>5, <1>6, <1>7

\* Dropping the first event of a station.
LEMMA Dropped ==
  ASSUME NEW W \in Seq(Seq(Events)), NEW V \in Seq(Seq(Events)), NEW r \in DOMAIN W,
         W[r] # <<>>, Len(V) = Len(W), V[r] = Tail(W[r]),
         \A s \in 1..Len(W) : s # r => V[s] = W[s]
  PROVE  /\ InOrder(W) => InOrder(V)
         /\ \A S : Within(W, S) => Within(V, S)
         /\ \A e : On(W, e) /\ e # Head(W[r]) => On(V, e)
<1> DEFINE b == W[r]
           at(s, i) == IF s = r THEN i + 1 ELSE i
<1>1. /\ b \in Seq(Events) /\ b # <<>>
      /\ Len(W) \in Nat /\ DOMAIN W = 1..Len(W) /\ DOMAIN V = 1..Len(W)
      /\ \A s \in 1..Len(W) : W[s] \in Seq(Events) /\ V[s] \in Seq(Events)
  OBVIOUS
<1>2. /\ Len(b) \in Nat \ {0} /\ Len(V[r]) = Len(b) - 1 /\ Head(b) = b[1]
      /\ \A i \in 1..(Len(b) - 1) : V[r][i] = b[i + 1]
  BY <1>1, Headed
<1>3. ASSUME NEW s \in DOMAIN V, NEW i \in DOMAIN V[s]
      PROVE  s \in DOMAIN W /\ at(s, i) \in DOMAIN W[s] /\ V[s][i] = W[s][at(s, i)]
  <2>1. CASE s = r
    <3>1. i \in 1..(Len(b) - 1) /\ DOMAIN b = 1..Len(b) /\ at(s, i) = i + 1
      BY <1>1, <1>2, <2>1
    <3>2. V[s][i] = b[i + 1] /\ i + 1 \in DOMAIN b
      BY <1>2, <2>1, <3>1
    <3>3. QED
      BY <1>1, <2>1, <3>1, <3>2
  <2>2. CASE s # r
    BY <1>1, <2>2
  <2>3. QED
    BY <2>1, <2>2
<1>4. ASSUME InOrder(W) PROVE InOrder(V)
  <2> SUFFICES ASSUME NEW s \in DOMAIN V, NEW t \in DOMAIN V,
                      NEW i \in DOMAIN V[s], NEW j \in DOMAIN V[t],
                      s < t \/ (s = t /\ i < j)
               PROVE  V[s][i].n < V[t][j].n
    BY DEF InOrder
  <2>1. i \in Nat /\ j \in Nat
    BY Numbers
  <2>2. s < t \/ (s = t /\ at(s, i) < at(t, j))
    BY <2>1
  <2>3. /\ V[s][i] = W[s][at(s, i)] /\ V[t][j] = W[t][at(t, j)]
        /\ s \in DOMAIN W /\ at(s, i) \in DOMAIN W[s]
        /\ t \in DOMAIN W /\ at(t, j) \in DOMAIN W[t]
    BY <1>3
  <2> HIDE DEF at
  <2>4. QED
    BY <1>4, <2>2, <2>3 DEF InOrder
<1>5. ASSUME NEW S, Within(W, S) PROVE Within(V, S)
  <2> HIDE DEF at
  <2>1. QED
    BY <1>3, <1>5 DEF Within
<1>6. ASSUME NEW e, On(W, e), e # Head(W[r]) PROVE On(V, e)
  <2>1. PICK s \in DOMAIN W : \E i \in DOMAIN W[s] : e = W[s][i]
    BY <1>6 DEF On, ToSet
  <2>2. PICK i \in DOMAIN W[s] : e = W[s][i]
    BY <2>1
  <2>3. CASE s # r
    BY <1>1, <2>2, <2>3 DEF On, ToSet
  <2>4. CASE s = r
    <3>1. i \in 1..Len(b) /\ i # 1
      BY <1>1, <1>2, <1>6, <2>2, <2>4
    <3>2. i - 1 \in 1..(Len(b) - 1) /\ (i - 1) + 1 = i
      <4>1. PICK l \in Nat : l = Len(b)
        BY <1>2
      <4>2. i \in 1..l /\ i # 1
        BY <3>1, <4>1
      <4>3. i - 1 \in 1..(l - 1) /\ (i - 1) + 1 = i
        BY <4>2
      <4>4. QED
        BY <4>1, <4>3
    <3>5. DOMAIN V[r] = 1..(Len(b) - 1)
      BY <1>1, <1>2
    <3>3. V[r][i - 1] = e /\ i - 1 \in DOMAIN V[r]
      BY <1>2, <2>2, <2>4, <3>2, <3>5
    <3>4. QED
      BY <1>1, <3>3 DEF On, ToSet
  <2>5. QED
    BY <2>3, <2>4
<1>7. QED
  BY <1>4, <1>5, <1>6

\* Where the s-th station was before the r-th was removed.
Before(r, s) == IF s < r THEN s ELSE s + 1

LEMMA InSequence ==
  \A m, r, s, t \in Nat :
    s \in 1..m /\ t \in 1..m /\ s < t => /\ Before(r, s) \in 1..(m + 1)
                                       /\ Before(r, t) \in 1..(m + 1)
                                       /\ Before(r, s) < Before(r, t)
BY DEF Before

\* Removing an empty station.
LEMMA Removed ==
  ASSUME NEW W \in Seq(Seq(Events)), NEW V \in Seq(Seq(Events)),
         NEW m \in Nat, NEW r \in 1..(m + 1), Len(W) = m + 1, Len(V) = m, Len(W[r]) = 0,
         \A s \in 1..Len(V) : V[s] = IF s < r THEN W[s] ELSE W[s + 1]
  PROVE  /\ InOrder(W) => InOrder(V)
         /\ \A S : Within(W, S) => Within(V, S)
         /\ \A e : On(W, e) => On(V, e)
<1> DEFINE from(s) == IF s < r THEN s ELSE s + 1
<1>1. DOMAIN W = 1..(m + 1) /\ DOMAIN V = 1..m
  BY Numbers
<1>2. ASSUME NEW s \in DOMAIN V PROVE from(s) \in DOMAIN W /\ V[s] = W[from(s)]
  <2>1. s \in 1..m /\ V[s] = IF s < r THEN W[s] ELSE W[s + 1]
    BY <1>1
  <2>2. from(s) \in 1..(m + 1)
    BY <2>1, SMTT(20)
  <2>3. QED
    BY <1>1, <2>1, <2>2
<1>3. ASSUME NEW s \in DOMAIN V, NEW t \in DOMAIN V, s < t PROVE from(s) < from(t)
  <2>1. s \in 1..m /\ t \in 1..m
    BY <1>1
  <2>2. m \in Nat /\ r \in Nat /\ s \in Nat /\ t \in Nat
    BY <2>1, SMTT(20)
  <2>3. Before(r, s) < Before(r, t)
    BY <1>3, <2>1, <2>2, InSequence, Zenon
  <2>4. QED
    BY <2>3 DEF Before
<1>4. ASSUME NEW s \in DOMAIN W, s # r PROVE \E t \in DOMAIN V : V[t] = W[s]
  <2>1. s \in 1..(m + 1)
    BY <1>1
  <2>2. CASE s < r
    <3>1. s \in 1..m
      BY <2>1, <2>2
    <3>2. V[s] = W[s]
      BY <2>2, <3>1
    <3>3. QED
      BY <1>1, <3>1, <3>2
  <2>3. CASE s > r
    <3>1. PICK t \in Nat : s = t + 1
      <4>1. s - 1 \in Nat /\ s = (s - 1) + 1
        BY <2>1
      <4>2. QED
        BY <4>1
    <3>2. t \in 1..m /\ ~(t < r)
      BY <2>1, <2>3, <3>1
    <3>3. V[t] = W[t + 1]
      BY <1>1, <3>2
    <3>4. QED
      BY <1>1, <3>1, <3>2, <3>3
  <2>4. QED
    BY <1>4, <2>1, <2>2, <2>3
<1> HIDE DEF from
<1>5. ASSUME InOrder(W) PROVE InOrder(V)
  <2> SUFFICES ASSUME NEW s \in DOMAIN V, NEW t \in DOMAIN V,
                      NEW i \in DOMAIN V[s], NEW j \in DOMAIN V[t],
                      s < t \/ (s = t /\ i < j)
               PROVE  V[s][i].n < V[t][j].n
    BY DEF InOrder
  <2>1. /\ from(s) \in DOMAIN W /\ V[s] = W[from(s)]
        /\ from(t) \in DOMAIN W /\ V[t] = W[from(t)]
    BY <1>2
  <2>2. from(s) < from(t) \/ (from(s) = from(t) /\ i < j)
    BY <1>3
  <2>3. QED
    BY <1>5, <2>1, <2>2 DEF InOrder
<1>6. ASSUME NEW S, Within(W, S) PROVE Within(V, S)
  BY <1>2, <1>6 DEF Within
<1>7. ASSUME NEW e, On(W, e) PROVE On(V, e)
  <2>1. PICK s \in DOMAIN W : e \in ToSet(W[s])
    BY <1>7 DEF On
  <2>2. s # r
    <3>1. W[r] \in Seq(Events)
      OBVIOUS
    <3>2. DOMAIN W[r] = {}
      BY <3>1
    <3>3. QED
      BY <2>1, <3>2 DEF ToSet
  <2>3. PICK t \in DOMAIN V : V[t] = W[s]
    BY <1>4, <2>2
  <2>4. QED
    BY <2>1, <2>3 DEF On
<1>8. QED
  BY <1>5, <1>6, <1>7

\* Cutting stations off at the end.
LEMMA CutOff ==
  ASSUME NEW W \in Seq(Seq(Events)), NEW V \in Seq(Seq(Events)), Len(V) <= Len(W),
         \A s \in 1..Len(V) : V[s] = W[s]
  PROVE  /\ InOrder(W) => InOrder(V)
         /\ \A S : Within(W, S) => Within(V, S)
<1>1. DOMAIN V \subseteq DOMAIN W /\ \A s \in DOMAIN V : V[s] = W[s]
  BY Numbers, SMTT(20)
<1>2. QED
  BY <1>1 DEF InOrder, Within

\* A new station of larger numbers at the end.
LEMMA Added ==
  ASSUME NEW W \in Seq(Seq(Events)), NEW V \in Seq(Seq(Events)), NEW f \in Seq(Events),
         NEW n \in Nat, UpTo(W, n), InOrder(W),
         NEW l \in Nat, Len(W) = l, Len(V) = l + 1, \A s \in 1..l : V[s] = W[s], V[l + 1] = f,
         \A i \in DOMAIN f : f[i].n = n + i
  PROVE  /\ InOrder(V)
         /\ \A S : Within(W, S) => Within(V, S \cup ToSet(f))
         /\ \A e : On(W, e) \/ e \in ToSet(f) => On(V, e)
<1> DEFINE m == l + 1
<1>1. /\ DOMAIN W = 1..l /\ DOMAIN V = 1..m
      /\ DOMAIN f = 1..Len(f) /\ Len(f) \in Nat
      /\ \A s \in 1..l : V[s] = W[s]
      /\ V[m] = f
  OBVIOUS
<1>2. \A s \in DOMAIN W : \A i \in DOMAIN W[s] : W[s][i].n \in Nat /\ W[s][i].n <= n
  BY Numbers DEF UpTo
<1>3. InOrder(V)
  <2> SUFFICES ASSUME NEW s \in DOMAIN V, NEW t \in DOMAIN V,
                      NEW i \in DOMAIN V[s], NEW j \in DOMAIN V[t],
                      s < t \/ (s = t /\ i < j)
               PROVE  V[s][i].n < V[t][j].n
    BY DEF InOrder
  <2>1. CASE t # m
    <3>1. s \in DOMAIN W /\ t \in DOMAIN W /\ V[s] = W[s] /\ V[t] = W[t]
      BY <1>1, <2>1
    <3>2. QED
      BY <3>1 DEF InOrder
  <2>2. CASE t = m /\ s # m
    <3>1. s \in DOMAIN W /\ V[s] = W[s] /\ V[t] = f
      BY <1>1, <2>2
    <3>2. V[s][i].n \in Nat /\ V[s][i].n <= n
      BY <1>2, <3>1
    <3>3. V[t][j].n = n + j /\ j \in Nat /\ j >= 1
      BY <1>1, <3>1
    <3>4. QED
      BY <3>2, <3>3
  <2>3. CASE t = m /\ s = m
    <3>1. V[s] = f /\ V[t] = f
      BY <1>1, <2>3
    <3>2. i \in 1..Len(f) /\ j \in 1..Len(f) /\ V[s][i].n = n + i /\ V[t][j].n = n + j
      BY <1>1, <3>1
    <3>3. QED
      BY <2>3, <3>2
  <2>4. QED
    BY <2>1, <2>2, <2>3
<1>4. ASSUME NEW S, Within(W, S) PROVE Within(V, S \cup ToSet(f))
  <2> SUFFICES ASSUME NEW s \in DOMAIN V, NEW i \in DOMAIN V[s]
               PROVE  V[s][i] \in S \cup ToSet(f)
    BY DEF Within
  <2>1. CASE s = m
    BY <1>1, <2>1 DEF ToSet
  <2>2. CASE s # m
    <3>1. s \in DOMAIN W /\ V[s] = W[s]
      BY <1>1, <2>2
    <3>2. QED
      BY <1>4, <3>1 DEF Within
  <2>3. QED
    BY <2>1, <2>2
<1>5. \A e : On(W, e) \/ e \in ToSet(f) => On(V, e)
  <2>1. \A s \in DOMAIN W : s \in DOMAIN V /\ V[s] = W[s]
    BY <1>1
  <2>2. m \in DOMAIN V /\ V[m] = f
    BY <1>1
  <2>3. QED
    BY <2>1, <2>2 DEF On
<1>6. QED
  BY <1>3, <1>4, <1>5

-----------------------------------------------------------------------------
LEMMA FillsAreEvents == Fills \subseteq Events /\ Seq(Fills) \subseteq Seq(Events) /\ Idle \notin Fills
  BY DEF Fills, Idle, Event

\* The stations by their numbers.
IsWay(W, h, c, q, p, w) ==
  /\ W \in Seq(Seq(Events)) /\ Len(W) = 4 + Len(w)
  /\ W[1] = h /\ W[2] = (IF c = Idle THEN <<>> ELSE <<c>>) /\ W[3] = q /\ W[4] = p
  /\ \A s \in 1..Len(w) : W[s + 4] = w[s]

LEMMA Stations ==
  ASSUME NEW h \in Seq(Events), NEW c \in Fills \cup {Idle}, NEW q \in Seq(Events),
         NEW p \in Seq(Events), NEW w \in Seq(Seq(Events))
  PROVE  IsWay(<<h, IF c = Idle THEN <<>> ELSE <<c>>, q, p>> \o w, h, c, q, p, w)
<1> DEFINE b == IF c = Idle THEN <<>> ELSE <<c>>
<1>1. b \in Seq(Events)
  BY FillsAreEvents
<1>2. b = IF c = Idle THEN <<>> ELSE <<c>>
  OBVIOUS
<1> HIDE DEF b
<1>3. LET W == <<h, b, q, p>> \o w IN
      /\ W \in Seq(Seq(Events)) /\ Len(W) = 4 + Len(w)
      /\ W[1] = h /\ W[2] = b /\ W[3] = q /\ W[4] = p
      /\ \A s \in 1..Len(w) : W[s + 4] = w[s]
  BY <1>1
<1>4. QED
  BY <1>2, <1>3 DEF IsWay

LEMMA WayNow ==
  ASSUME Types
  PROVE  IsWay(Way, handled, consumer, queue["fill"], pending, wire)
<1>1. queue["fill"] \in Seq(Events)
  BY DEF Types, Queues
<1>2. QED
  BY <1>1, Stations DEF Types, Way

LEMMA WayNext ==
  ASSUME Types'
  PROVE  IsWay(Way', handled', consumer', queue'["fill"], pending', wire')
<1>1. queue'["fill"] \in Seq(Events)
  BY DEF Types, Queues
<1>2. QED
  BY <1>1, Stations DEF Types, Way

LEMMA InvInit == Init => Inv
<1> SUFFICES ASSUME Init PROVE Inv
  OBVIOUS
<1>1. Types
  <2>1. queue \in [Queues -> Seq(Events)]
    BY DEF Init
  <2>2. queue["fill"] \in Seq(Fills)
    BY DEF Init, Queues
  <2>3. QED
    BY <2>1, <2>2 DEF Init, Types
<1>2. /\ Way \in Seq(Seq(Events)) /\ Len(Way) = 4
      /\ Way[1] = <<>> /\ Way[2] = <<>> /\ Way[3] = <<>> /\ Way[4] = <<>>
  BY <1>1, WayNow DEF IsWay, Init, Queues
<1>3. \A s \in DOMAIN Way : DOMAIN Way[s] = {}
  <2> SUFFICES ASSUME NEW s \in DOMAIN Way PROVE DOMAIN Way[s] = {}
    OBVIOUS
  <2>1. s \in 1..4
    BY <1>2
  <2>2. s = 1 \/ s = 2 \/ s = 3 \/ s = 4
    BY <2>1
  <2>3. Way[s] = <<>>
    BY <1>2, <2>2
  <2>4. QED
    BY <2>3
<1>4. DOMAIN sent = {}
  BY DEF Init
<1>5. InOrder(Way) /\ Within(Way, ToSet(sent))
  BY <1>3 DEF InOrder, Within
<1>6. QED
  BY <1>1, <1>4, <1>5 DEF Inv

\* What a step has to show when the exchange sends nothing: a fill that is on the way
\* stays there, unless the connection is lost.
LEMMA StillInv ==
  ASSUME Inv, Types', sent' = sent, lost' \in Nat,
         InOrder(Way) => InOrder(Way'),
         \A S : Within(Way, S) => Within(Way', S),
         lost' > 0 \/ (lost' = lost /\ \A e \in Fills : On(Way, e) => On(Way', e))
  PROVE  Inv'
<1>1. Len(sent) \in Nat /\ sent \in Seq(Events)
  BY DEF Inv, Types
<1>2. InOrder(Way') /\ Within(Way', ToSet(sent))
  BY <1>1 DEF Inv
<1>3. ASSUME lost' = 0, NEW k \in DOMAIN sent, sent[k].kind = "fill" PROVE On(Way', sent[k])
  <2>1. lost = 0 /\ (\A e \in Fills : On(Way, e) => On(Way', e))
    BY <1>3
  <2>2. sent[k] \in Fills
    BY <1>1, <1>3 DEF Fills
  <2>3. On(Way, sent[k])
    BY <1>3, <2>1 DEF Inv
  <2>4. QED
    BY <2>1, <2>2, <2>3
<1>4. QED
  BY <1>2, <1>3 DEF Inv

LEMMA SendKeepsInv ==
  ASSUME Inv, NEW kinds \in Frames, Send(kinds)
  PROVE  Inv'
<1> DEFINE f == Numbered(kinds)
<1>1. kinds \in Seq(Kinds)
  BY StreamAssumption
<1>2. Types /\ Len(sent) \in Nat
  BY DEF Inv, Types
<1>3. /\ f \in Seq(Events) /\ DOMAIN f = DOMAIN kinds
      /\ \A i \in DOMAIN f : f[i].n = Len(sent) + i
  <2>1. \A i \in DOMAIN kinds : Event(kinds[i], Len(sent) + i) \in Events
    BY <1>1, <1>2 DEF Event, Events
  <2>2. f \in [1..Len(kinds) -> Events] /\ Len(kinds) \in Nat
    BY <1>1, <2>1 DEF Numbered
  <2>3. f \in Seq(Events)
    BY <2>2
  <2>4. QED
    BY <2>3 DEF Numbered, Event
<1> HIDE DEF f
<1>4. wire' = Append(wire, f) /\ sent' = sent \o f
  BY DEF Send, f
<1>5. /\ wire' \in Seq(Seq(Events)) /\ Len(wire') = Len(wire) + 1
      /\ \A s \in 1..Len(wire) : wire'[s] = wire[s]
      /\ wire'[Len(wire) + 1] = f
  BY <1>2, <1>3, <1>4, Appended DEF Types
<1>6. Types'
  BY <1>2, <1>3, <1>4, <1>5 DEF Send, Types
<1>7. /\ Way \in Seq(Seq(Events)) /\ Way' \in Seq(Seq(Events)) /\ Len(Way') = Len(Way) + 1
      /\ \A s \in 1..Len(Way) : Way'[s] = Way[s]
      /\ Way'[Len(Way) + 1] = f
  <2>1. IsWay(Way, handled, consumer, queue["fill"], pending, wire)
    BY <1>2, WayNow
  <2>2. IsWay(Way', handled, consumer, queue["fill"], pending, wire')
    BY <1>6, WayNext DEF Send
  <2>3. ASSUME NEW s \in 1..Len(Way) PROVE Way'[s] = Way[s]
    <3>1. CASE s > 4
      <4>1. PICK l \in Nat : l = Len(wire)
        BY <1>2 DEF Types
      <4>2. s \in 1..(4 + l)
        BY <2>1, <4>1 DEF IsWay
      <4>3. s - 4 \in 1..l /\ (s - 4) + 4 = s /\ s - 4 \in 1..(l + 1)
        BY <3>1, <4>2
      <4>4. Way[s] = wire[s - 4] /\ Way'[s] = wire'[s - 4]
        BY <1>5, <2>1, <2>2, <4>1, <4>3 DEF IsWay
      <4>5. QED
        BY <1>5, <4>1, <4>3, <4>4
    <3>2. CASE ~(s > 4)
      <4>1. s = 1 \/ s = 2 \/ s = 3 \/ s = 4
        BY <3>2
      <4>2. QED
        BY <2>1, <2>2, <4>1 DEF IsWay
    <3>3. QED
      BY <3>1, <3>2
  <2>4. QED
    <3>1. PICK l \in Nat : l = Len(wire)
      BY <1>2 DEF Types
    <3>2. Len(Way) = 4 + l /\ Len(Way') = 4 + (l + 1)
      BY <1>5, <2>1, <2>2, <3>1 DEF IsWay
    <3>3. \A s \in 1..(l + 1) : Way'[s + 4] = wire'[s]
      BY <1>5, <2>2, <3>1 DEF IsWay
    <3>4. PICK k \in Nat : k = l + 1
      OBVIOUS
    <3>5. Way'[(4 + l) + 1] = wire'[l + 1]
      <4>1. k \in 1..(l + 1)
        BY <3>4
      <4>2. Way'[k + 4] = wire'[k]
        BY <3>3, <4>1
      <4>3. k + 4 = (4 + l) + 1
        BY <3>4
      <4>4. QED
        BY <3>4, <4>2, <4>3
    <3>6. wire'[l + 1] = f
      BY <1>5, <3>1
    <3>7. Way \in Seq(Seq(Events)) /\ Way' \in Seq(Seq(Events))
      BY <2>1, <2>2 DEF IsWay
    <3>8. Len(Way') = Len(Way) + 1 /\ Len(Way) + 1 = (4 + l) + 1
      BY <3>2
    <3>9. QED
      BY <2>3, <3>5, <3>6, <3>7, <3>8
<1>8. InOrder(Way) /\ Within(Way, ToSet(sent))
  BY DEF Inv
<1>13. UpTo(Way, Len(sent))
  <2>1. \A e \in ToSet(sent) : e.n <= Len(sent)
    BY <1>2 DEF Inv, Types, ToSet
  <2>2. QED
    BY <1>8, <2>1 DEF UpTo, Within
<1>9. /\ InOrder(Way') /\ Within(Way', ToSet(sent) \cup ToSet(f))
      /\ \A e : On(Way, e) \/ e \in ToSet(f) => On(Way', e)
  <2>1. PICK n \in Nat : n = Len(sent)
    BY <1>2
  <2>2. PICK l \in Nat : l = Len(Way)
    BY <1>7
  <2>3. /\ Len(Way') = l + 1 /\ (\A s \in 1..l : Way'[s] = Way[s]) /\ Way'[l + 1] = f
    BY <1>7, <2>2
  <2>4. UpTo(Way, n) /\ \A i \in DOMAIN f : f[i].n = n + i
    BY <1>3, <1>13, <2>1
  <2> DEFINE W == Way  V == Way'
  <2>5. W \in Seq(Seq(Events)) /\ V \in Seq(Seq(Events)) /\ InOrder(W) /\ UpTo(W, n)
        /\ Len(W) = l /\ Len(V) = l + 1 /\ (\A s \in 1..l : V[s] = W[s]) /\ V[l + 1] = f
    BY <1>7, <1>8, <2>2, <2>3, <2>4
  <2> HIDE DEF W, V
  <2>6. /\ InOrder(V) /\ \A S : Within(W, S) => Within(V, S \cup ToSet(f))
        /\ \A e : On(W, e) \/ e \in ToSet(f) => On(V, e)
    BY <1>3, <2>4, <2>5, Added
  <2>7. QED
    BY <1>8, <2>6 DEF W, V
<1>10. /\ sent \in Seq(Events) /\ Len(sent') = Len(sent) + Len(f) /\ sent' \in Seq(Events)
       /\ \A k \in 1..Len(sent') :
            sent'[k] = IF k <= Len(sent) THEN sent[k] ELSE f[k - Len(sent)]
  BY <1>2, <1>3, <1>4 DEF Types
<1>14. PICK l \in Nat, m \in Nat : l = Len(sent) /\ m = Len(f)
  BY <1>2, <1>3
<1>15. /\ DOMAIN sent = 1..l /\ DOMAIN f = 1..m /\ DOMAIN sent' = 1..(l + m)
       /\ \A k \in 1..(l + m) : sent'[k] = IF k <= l THEN sent[k] ELSE f[k - l]
  <2>1. \A x \in Seq(Events) : DOMAIN x = 1..Len(x)
    OBVIOUS
  <2>2. DOMAIN sent = 1..l /\ DOMAIN f = 1..m /\ DOMAIN sent' = 1..(l + m)
    BY <1>3, <1>10, <1>14, <2>1
  <2>3. QED
    BY <1>10, <1>14, <2>2
<1>16. ASSUME NEW k \in DOMAIN sent'
       PROVE  \/ k \in DOMAIN sent /\ sent'[k] = sent[k]
              \/ k - l \in DOMAIN f /\ sent'[k] = f[k - l] /\ l + (k - l) = k
  <2>1. k \in 1..(l + m)
    BY <1>15
  <2>2. CASE k <= l
    BY <1>15, <2>1, <2>2
  <2>3. CASE ~(k <= l)
    <3>1. k - l \in 1..m /\ l + (k - l) = k
      BY <2>1, <2>3
    <3>2. QED
      BY <1>15, <2>1, <2>3, <3>1
  <2>4. QED
    BY <2>2, <2>3
<1>17. \A k \in DOMAIN sent' : sent'[k].n = k
  BY <1>3, <1>14, <1>16 DEF Inv
<1>18. ToSet(sent) \cup ToSet(f) \subseteq ToSet(sent')
  <2>1. ASSUME NEW k \in DOMAIN sent PROVE sent[k] \in ToSet(sent')
    <3>1. k \in 1..(l + m) /\ k <= l
      BY <1>15
    <3>2. QED
      BY <1>15, <3>1 DEF ToSet
  <2>2. ASSUME NEW i \in DOMAIN f PROVE f[i] \in ToSet(sent')
    <3>1. i \in 1..m
      BY <1>15
    <3>2. l + i \in 1..(l + m) /\ ~(l + i <= l) /\ (l + i) - l = i
      BY <3>1
    <3>3. sent'[l + i] = f[i] /\ l + i \in DOMAIN sent'
      BY <1>15, <3>2
    <3>4. QED
      BY <3>3 DEF ToSet
  <2>3. QED
    BY <2>1, <2>2 DEF ToSet
<1>19. Within(Way', ToSet(sent'))
  BY <1>9, <1>18 DEF Within
<1>11. ASSUME lost' = 0, NEW k \in DOMAIN sent', sent'[k].kind = "fill" PROVE On(Way', sent'[k])
  <2>1. CASE k \in DOMAIN sent /\ sent'[k] = sent[k]
    <3>1. lost = 0
      BY <1>11 DEF Send
    <3>2. QED
      BY <1>9, <1>11, <2>1, <3>1 DEF Inv
  <2>2. CASE k - l \in DOMAIN f /\ sent'[k] = f[k - l]
    BY <1>9, <2>2 DEF ToSet
  <2>3. QED
    BY <1>16, <2>1, <2>2
<1>12. QED
  BY <1>6, <1>9, <1>11, <1>17, <1>19 DEF Inv

\* The next frame becomes the station that has run empty.
LEMMA ReceiveKeepsInv ==
  ASSUME Inv, Receive
  PROVE  Inv'
<1>1. Types /\ wire # <<>> /\ pending = <<>> /\ wire \in Seq(Seq(Events))
  BY DEF Inv, Types, Receive
<1>2. /\ wire' \in Seq(Seq(Events)) /\ pending' \in Seq(Events) /\ pending' = wire[1]
      /\ Len(wire) \in Nat \ {0} /\ Len(wire') = Len(wire) - 1
      /\ \A i \in 1..(Len(wire) - 1) : wire'[i] = wire[i + 1]
  BY <1>1, Headed DEF Receive
<1>3. Types'
  BY <1>1, <1>2 DEF Receive, Types
<1>4. IsWay(Way, handled, consumer, queue["fill"], pending, wire)
  BY <1>1, WayNow
<1>5. IsWay(Way', handled, consumer, queue["fill"], pending', wire')
  BY <1>3, WayNext DEF Receive
<1>6. PICK l \in Nat : Len(wire) = l + 1
  <2>1. PICK k \in Nat \ {0} : k = Len(wire)
    BY <1>2
  <2>2. k - 1 \in Nat /\ k = (k - 1) + 1
    OBVIOUS
  <2>3. QED
    BY <2>1, <2>2
<1>12. Len(wire') = l /\ \A i \in 1..l : wire'[i] = wire[i + 1]
  <2>1. (l + 1) - 1 = l
    OBVIOUS
  <2>2. QED
    BY <1>2, <1>6, <2>1
<1>13. /\ \A s \in 1..(l + 1) : Way[s + 4] = wire[s]
       /\ \A s \in 1..l : Way'[s + 4] = wire'[s]
  BY <1>4, <1>5, <1>6, <1>12 DEF IsWay
<1> DEFINE m == l + 4
<1>7. m \in Nat /\ Len(Way) = m + 1 /\ Len(Way') = m /\ Len(Way[4]) = 0 /\ 4 \in 1..(m + 1)
  <2>1. Len(Way) = 4 + (l + 1) /\ Len(Way') = 4 + l /\ Way[4] = <<>>
    BY <1>1, <1>4, <1>5, <1>6, <1>12 DEF IsWay
  <2>2. 4 + (l + 1) = (l + 4) + 1 /\ 4 + l = l + 4 /\ Len(<<>>) = 0 /\ 4 \in 1..((l + 4) + 1)
    OBVIOUS
  <2>3. QED
    BY <2>1, <2>2
<1>8. ASSUME NEW s \in 1..m PROVE Way'[s] = IF s < 4 THEN Way[s] ELSE Way[s + 1]
  <2>1. CASE s < 4
    <3>1. s = 1 \/ s = 2 \/ s = 3
      BY <2>1
    <3>2. Way'[1] = Way[1] /\ Way'[2] = Way[2] /\ Way'[3] = Way[3]
      BY <1>4, <1>5 DEF IsWay
    <3>3. Way'[s] = Way[s]
      BY <3>1, <3>2
    <3>4. QED
      BY <2>1, <3>3
  <2>2. CASE s = 4
    <3>1. Way'[4] = wire[1]
      BY <1>2, <1>5 DEF IsWay
    <3>2. Way[1 + 4] = wire[1]
      BY <1>2, <1>4 DEF IsWay
    <3>3. QED
      BY <2>2, <3>1, <3>2
  <2>3. CASE s > 4
    <3>1. /\ s - 4 \in 1..l /\ (s - 4) + 4 = s
          /\ (s - 4) + 1 \in 1..(l + 1) /\ ((s - 4) + 1) + 4 = s + 1
      BY <2>3
    <3>2. Way'[s] = wire'[s - 4]
      BY <1>13, <3>1
    <3>3. Way[s + 1] = wire[(s - 4) + 1]
      BY <1>13, <3>1
    <3>4. wire'[s - 4] = wire[(s - 4) + 1]
      BY <1>12, <3>1
    <3>5. QED
      BY <2>3, <3>2, <3>3, <3>4
  <2>4. QED
    BY <2>1, <2>2, <2>3
<1>9. Way \in Seq(Seq(Events)) /\ Way' \in Seq(Seq(Events))
  BY <1>4, <1>5 DEF IsWay
<1> HIDE DEF m
<1>10. /\ InOrder(Way) => InOrder(Way')
       /\ \A S : Within(Way, S) => Within(Way', S)
       /\ \A e : On(Way, e) => On(Way', e)
  BY <1>7, <1>8, <1>9, Removed
<1>11. QED
  BY <1>1, <1>3, <1>10, StillInv DEF Receive, Types

\* The stations but those of the wire, when a step leaves the wire alone.
LEMMA SameWire ==
  ASSUME NEW W, NEW V, NEW h, NEW c, NEW q, NEW p, NEW h2, NEW c2, NEW q2, NEW p2,
         NEW w \in Seq(Seq(Events)),
         IsWay(W, h, c, q, p, w), IsWay(V, h2, c2, q2, p2, w)
  PROVE  /\ W \in Seq(Seq(Events)) /\ V \in Seq(Seq(Events)) /\ Len(V) = Len(W) /\ Len(W) >= 4
         /\ \A s \in 1..Len(W) : s > 4 => V[s] = W[s]
<1>1. PICK l \in Nat : l = Len(w)
  OBVIOUS
<1>2. Len(W) = 4 + l /\ Len(V) = 4 + l
  BY <1>1 DEF IsWay
<1>3. ASSUME NEW s \in 1..(4 + l), s > 4 PROVE V[s] = W[s]
  <2>1. s - 4 \in 1..l /\ (s - 4) + 4 = s
    BY <1>3
  <2>2. QED
    BY <1>1, <2>1 DEF IsWay
<1>4. QED
  BY <1>2, <1>3 DEF IsWay

LEMMA TakeFillKeepsInv ==
  ASSUME Inv, TakeFill
  PROVE  Inv'
<1>1. Types /\ queue["fill"] \in Seq(Fills) /\ queue["fill"] # <<>> /\ consumer = Idle
  BY DEF Inv, Types, TakeFill
<1>2. /\ Tail(queue["fill"]) \in Seq(Fills) /\ Head(queue["fill"]) \in Fills
  BY <1>1, Headed
<1>3. /\ queue'["fill"] = Tail(queue["fill"]) /\ consumer' = Head(queue["fill"])
      /\ queue' \in [Queues -> Seq(Events)]
  BY <1>1, <1>2, FillsAreEvents DEF TakeFill, Types, Queues
<1>4. Types'
  BY <1>1, <1>2, <1>3 DEF TakeFill, Types
<1>5. IsWay(Way, handled, consumer, queue["fill"], pending, wire)
  BY <1>1, WayNow
<1>6. IsWay(Way', handled, consumer', queue'["fill"], pending, wire)
  BY <1>4, WayNext DEF TakeFill
<1>7. /\ Way \in Seq(Seq(Events)) /\ Way' \in Seq(Seq(Events)) /\ Len(Way') = Len(Way)
      /\ Len(Way) >= 4 /\ \A s \in 1..Len(Way) : s > 4 => Way'[s] = Way[s]
  BY <1>1, <1>5, <1>6, SameWire DEF Types
<1>8. Way'[2] = Append(Way[2], Head(Way[3])) /\ Way'[3] = Tail(Way[3]) /\ Way[3] # <<>>
  <2>1. Way[2] = <<>> /\ Way[3] = queue["fill"] /\ Way'[3] = Tail(queue["fill"])
    BY <1>1, <1>3, <1>5, <1>6 DEF IsWay
  <2>2. Way'[2] = <<Head(queue["fill"])>>
    BY <1>2, <1>3, <1>6, FillsAreEvents DEF IsWay
  <2>3. QED
    BY <1>1, <2>1, <2>2
<1>9. ASSUME NEW s \in 1..Len(Way), s # 2, s # 3 PROVE Way'[s] = Way[s]
  <2>1. s = 1 \/ s = 4 \/ s > 4
    BY <1>9
  <2>2. QED
    BY <1>5, <1>6, <1>7, <1>9, <2>1 DEF IsWay
<1>10. /\ InOrder(Way) => InOrder(Way')
       /\ \A S : Within(Way, S) => Within(Way', S)
       /\ \A e : On(Way, e) => On(Way', e)
  <2>1. 2 \in Nat \ {0} /\ 2 + 1 = 3 /\ 2 + 1 <= Len(Way)
    BY <1>7
  <2>2. QED
    BY <1>7, <1>8, <1>9, <2>1, Moved
<1>11. QED
  BY <1>1, <1>4, <1>10, StillInv DEF TakeFill, Types

LEMMA FillHandledKeepsInv ==
  ASSUME Inv, FillHandled
  PROVE  Inv'
<1>1. Types /\ consumer \in Fills /\ consumer # Idle /\ consumer \in Events
  BY FillsAreEvents DEF Inv, Types, FillHandled
<1>2. handled' = Append(handled, consumer) /\ handled' \in Seq(Events) /\ consumer' = Idle
  BY <1>1, Appended DEF FillHandled, Types
<1>4. Types'
  BY <1>1, <1>2 DEF FillHandled, Types
<1>5. IsWay(Way, handled, consumer, queue["fill"], pending, wire)
  BY <1>1, WayNow
<1>6. IsWay(Way', handled', consumer', queue["fill"], pending, wire)
  BY <1>4, WayNext DEF FillHandled
<1>7. /\ Way \in Seq(Seq(Events)) /\ Way' \in Seq(Seq(Events)) /\ Len(Way') = Len(Way)
      /\ Len(Way) >= 4 /\ \A s \in 1..Len(Way) : s > 4 => Way'[s] = Way[s]
  BY <1>1, <1>5, <1>6, SameWire DEF Types
<1>8. Way'[1] = Append(Way[1], Head(Way[2])) /\ Way'[2] = Tail(Way[2]) /\ Way[2] # <<>>
  <2>1. Way[1] = handled /\ Way[2] = <<consumer>> /\ Way'[1] = handled' /\ Way'[2] = <<>>
    BY <1>1, <1>2, <1>5, <1>6 DEF IsWay
  <2>2. QED
    BY <1>2, <2>1
<1>9. ASSUME NEW s \in 1..Len(Way), s # 1, s # 2 PROVE Way'[s] = Way[s]
  <2>1. s = 3 \/ s = 4 \/ s > 4
    BY <1>9
  <2>2. QED
    BY <1>5, <1>6, <1>7, <1>9, <2>1 DEF IsWay
<1>10. /\ InOrder(Way) => InOrder(Way')
       /\ \A S : Within(Way, S) => Within(Way', S)
       /\ \A e : On(Way, e) => On(Way', e)
  <2>1. 1 \in Nat \ {0} /\ 1 + 1 = 2 /\ 1 + 1 <= Len(Way)
    BY <1>7
  <2>2. QED
    BY <1>7, <1>8, <1>9, <2>1, Moved
<1>11. QED
  BY <1>1, <1>4, <1>10, StillInv DEF FillHandled, Types

\* A fill moves to its queue; another event leaves the stations of the fills.
LEMMA EmitKeepsInv ==
  ASSUME Inv, Emit
  PROVE  Inv'
<1> DEFINE e == Head(pending)
<1>1. Types /\ pending # <<>> /\ pending \in Seq(Events)
  BY DEF Inv, Types, Emit
<1>2. e \in Events /\ Tail(pending) \in Seq(Events)
  BY <1>1, Headed
<1> HIDE DEF e
<1>3. pending' = Tail(pending) /\ UNCHANGED <<wire, consumer, handled, sent, lost>>
  BY DEF Emit
<1>4. CASE e.kind = "fill"
  <2>1. e \in Fills
    BY <1>2, <1>4 DEF Fills
  <2>2. queue' = [queue EXCEPT !["fill"] = Append(@, e)]
    BY <1>4 DEF Emit, Put, Queues, e
  <2>3. queue["fill"] \in Seq(Fills) /\ queue'["fill"] = Append(queue["fill"], e)
    BY <1>1, <2>2 DEF Types, Queues
  <2>4. queue'["fill"] \in Seq(Fills)
    BY <2>1, <2>3, Appended
  <2>5. queue' \in [Queues -> Seq(Events)]
    BY <1>1, <2>2, <2>3, <2>4, FillsAreEvents DEF Types, Queues
  <2>6. Types'
    BY <1>1, <1>2, <1>3, <2>4, <2>5 DEF Types
  <2>7. IsWay(Way, handled, consumer, queue["fill"], pending, wire)
    BY <1>1, WayNow
  <2>8. IsWay(Way', handled, consumer, queue'["fill"], pending', wire)
    BY <1>3, <2>6, WayNext
  <2>9. /\ Way \in Seq(Seq(Events)) /\ Way' \in Seq(Seq(Events)) /\ Len(Way') = Len(Way)
        /\ Len(Way) >= 4 /\ \A s \in 1..Len(Way) : s > 4 => Way'[s] = Way[s]
    BY <1>1, <2>7, <2>8, SameWire DEF Types
  <2>10. Way'[3] = Append(Way[3], Head(Way[4])) /\ Way'[4] = Tail(Way[4]) /\ Way[4] # <<>>
    BY <1>1, <1>3, <2>3, <2>7, <2>8 DEF IsWay, e
  <2>11. ASSUME NEW s \in 1..Len(Way), s # 3, s # 4 PROVE Way'[s] = Way[s]
    <3>1. s = 1 \/ s = 2 \/ s > 4
      BY <2>11
    <3>2. QED
      BY <2>7, <2>8, <2>9, <2>11, <3>1 DEF IsWay
  <2>12. /\ InOrder(Way) => InOrder(Way')
         /\ \A S : Within(Way, S) => Within(Way', S)
         /\ \A f : On(Way, f) => On(Way', f)
    <3>1. 3 \in Nat \ {0} /\ 3 + 1 = 4 /\ 3 + 1 <= Len(Way)
      BY <2>9
    <3>2. /\ Way'[3] = Append(Way[3], Head(Way[3 + 1])) /\ Way'[3 + 1] = Tail(Way[3 + 1])
          /\ Way[3 + 1] # <<>>
          /\ \A s \in 1..Len(Way) : s # 3 /\ s # 3 + 1 => Way'[s] = Way[s]
      BY <2>10, <2>11, <3>1
    <3>3. QED
      BY <2>9, <3>1, <3>2, Moved
  <2>13. QED
    BY <1>1, <1>3, <2>6, <2>12, StillInv DEF Types
<1>5. CASE e.kind # "fill"
  <2>1. queue'["fill"] = queue["fill"] /\ queue' \in [Queues -> Seq(Events)]
    <3>1. CASE e.kind \notin Queues
      BY <1>1, <3>1 DEF Emit, Types, e
    <3>2. CASE e.kind \in Queues
      <4>1. queue' = [queue EXCEPT ![e.kind] = Append(@, e)] /\ queue[e.kind] \in Seq(Events)
        BY <1>1, <3>2 DEF Emit, Put, Types, e
      <4>2. Append(queue[e.kind], e) \in Seq(Events)
        BY <1>2, <4>1, Appended
      <4>3. QED
        BY <1>1, <1>5, <3>2, <4>1, <4>2 DEF Types, Queues
    <3>3. QED
      BY <3>1, <3>2
  <2>2. Types'
    BY <1>1, <1>2, <1>3, <2>1 DEF Types
  <2>3. IsWay(Way, handled, consumer, queue["fill"], pending, wire)
    BY <1>1, WayNow
  <2>4. IsWay(Way', handled, consumer, queue["fill"], pending', wire)
    BY <1>3, <2>1, <2>2, WayNext
  <2>5. /\ Way \in Seq(Seq(Events)) /\ Way' \in Seq(Seq(Events)) /\ Len(Way') = Len(Way)
        /\ Len(Way) >= 4 /\ \A s \in 1..Len(Way) : s > 4 => Way'[s] = Way[s]
    BY <1>1, <2>3, <2>4, SameWire DEF Types
  <2>6. Way'[4] = Tail(Way[4]) /\ Way[4] # <<>> /\ Head(Way[4]) = e
    BY <1>1, <1>3, <2>3, <2>4 DEF IsWay, e
  <2>7. ASSUME NEW s \in 1..Len(Way), s # 4 PROVE Way'[s] = Way[s]
    <3>1. s = 1 \/ s = 2 \/ s = 3 \/ s > 4
      BY <2>7
    <3>2. QED
      BY <2>3, <2>4, <2>5, <2>7, <3>1 DEF IsWay
  <2>8. 4 \in DOMAIN Way
    BY <2>5
  <2>9. /\ InOrder(Way) => InOrder(Way')
        /\ \A S : Within(Way, S) => Within(Way', S)
        /\ \A f : On(Way, f) /\ f # Head(Way[4]) => On(Way', f)
    BY <2>5, <2>6, <2>7, <2>8, Dropped
  <2>10. \A f \in Fills : On(Way, f) => On(Way', f)
    BY <1>5, <2>6, <2>9 DEF Fills
  <2>11. QED
    BY <1>1, <1>3, <2>2, <2>9, <2>10, StillInv DEF Types
<1>6. QED
  BY <1>4, <1>5

\* Of what was on the wire, the last frames may be gone.
LEMMA LoseConnectionKeepsInv ==
  ASSUME Inv, LoseConnection
  PROVE  Inv'
<1>1. Types /\ wire \in Seq(Seq(Events)) /\ lost \in Nat
  BY DEF Inv, Types
<1>2. PICK k \in 0..Len(wire) : wire' = SubSeq(wire, 1, k)
  BY DEF LoseConnection
<1>3. /\ wire' \in Seq(Seq(Events)) /\ Len(wire') = k
      /\ \A i \in 1..k : wire'[i] = wire[i]
  <2>1. k \in Nat /\ \A i \in 1..k : wire[i] \in Seq(Events)
    BY <1>1
  <2>2. QED
    BY <1>1, <1>2, <2>1, SubSeqProperties
<1>4. Types' /\ lost' > 0 /\ lost' \in Nat
  BY <1>1, <1>3 DEF LoseConnection, Types
<1>5. IsWay(Way, handled, consumer, queue["fill"], pending, wire)
  BY <1>1, WayNow
<1>6. IsWay(Way', handled, consumer, queue["fill"], pending, wire')
  BY <1>4, WayNext DEF LoseConnection
<1>7. PICK l \in Nat : l = Len(wire) /\ k \in 0..l
  BY <1>1
<1>8. /\ Len(Way) = 4 + l /\ Len(Way') = 4 + k
      /\ \A s \in 1..l : Way[s + 4] = wire[s]
      /\ \A s \in 1..k : Way'[s + 4] = wire'[s]
  BY <1>3, <1>5, <1>6, <1>7 DEF IsWay
<1>9. ASSUME NEW s \in 1..(4 + k) PROVE Way'[s] = Way[s]
  <2>1. CASE s > 4
    <3>1. s - 4 \in 1..k /\ s - 4 \in 1..l /\ (s - 4) + 4 = s
      BY <1>7, <2>1
    <3>2. Way'[s] = wire'[s - 4] /\ Way[s] = wire[s - 4]
      BY <1>8, <3>1
    <3>3. QED
      BY <1>3, <3>1, <3>2
  <2>2. CASE ~(s > 4)
    <3>1. s = 1 \/ s = 2 \/ s = 3 \/ s = 4
      BY <1>7, <2>2
    <3>2. QED
      BY <1>5, <1>6, <3>1 DEF IsWay
  <2>3. QED
    BY <2>1, <2>2
<1>10. Way \in Seq(Seq(Events)) /\ Way' \in Seq(Seq(Events)) /\ Len(Way') <= Len(Way)
  BY <1>5, <1>6, <1>7, <1>8 DEF IsWay
<1>11. \A s \in 1..Len(Way') : Way'[s] = Way[s]
  BY <1>8, <1>9
<1>12. /\ InOrder(Way) => InOrder(Way')
       /\ \A S : Within(Way, S) => Within(Way', S)
  BY <1>10, <1>11, CutOff
<1>13. QED
  BY <1>4, <1>12, StillInv DEF LoseConnection

LEMMA NextKeepsInv == Inv /\ [Next]_vars => Inv'
<1> SUFFICES ASSUME Inv, [Next]_vars PROVE Inv'
  OBVIOUS
<1>1. CASE \E kinds \in Frames : Send(kinds)
  BY <1>1, SendKeepsInv
<1>2. CASE Receive
  BY <1>2, ReceiveKeepsInv
<1>3. CASE Emit
  BY <1>3, EmitKeepsInv
<1>4. CASE Reconnect \/ UNCHANGED vars
  <2>1. UNCHANGED <<wire, pending, queue, consumer, handled, sent, lost>>
    BY <1>4 DEF Reconnect, vars
  <2>2. Types' /\ Way' = Way
    BY <2>1 DEF Inv, Types, Way
  <2>3. QED
    BY <2>1, <2>2 DEF Inv
<1>5. CASE TakeFill
  BY <1>5, TakeFillKeepsInv
<1>6. CASE FillHandled
  BY <1>6, FillHandledKeepsInv
<1>7. CASE LoseConnection
  BY <1>7, LoseConnectionKeepsInv
<1>8. QED
  BY <1>1, <1>2, <1>3, <1>4, <1>5, <1>6, <1>7 DEF Next, Reader, FillConsumer

\* core/execution/user_stream.py with the fill consumer of core/orchestrator.py: every
\* fill is on its way once and in the order of the exchange, and none is missing as
\* long as the connection holds.
THEOREM FillsInOrderHolds == Spec => []FillsInOrder
<1>1. ASSUME Inv PROVE FillsInOrder
  <2>1. \A s \in DOMAIN Way : ToSet(Way[s]) \subseteq ToSet(sent)
    BY <1>1 DEF Inv, Within, ToSet
  <2>2. QED
    BY <1>1, <2>1 DEF Inv, InOrder, On, FillsInOrder
<1>2. QED
  BY <1>1, InvInit, NextKeepsInv, PTL DEF Spec

-----------------------------------------------------------------------------
(***************************************************************************)
(* The refinement: UnderWay is what the stations behind handled hold, and  *)
(* the order of the stations is the order FillFeed wants.                  *)
(***************************************************************************)
Unread(w) == UNION {ToSet(frame) : frame \in ToSet(w)}

LEMMA Held ==
  ASSUME NEW S, NEW s \in Seq(S)
  PROVE  /\ \A e \in S : ToSet(Append(s, e)) = ToSet(s) \cup {e}
         /\ s # <<>> => ToSet(s) = {Head(s)} \cup ToSet(Tail(s))
<1>1. ASSUME NEW e \in S PROVE ToSet(Append(s, e)) = ToSet(s) \cup {e}
  <2>1. PICK l \in Nat : l = Len(s) /\ DOMAIN s = 1..l
    OBVIOUS
  <2>2. /\ DOMAIN Append(s, e) = 1..(l + 1) /\ Append(s, e)[l + 1] = e
        /\ \A i \in 1..l : Append(s, e)[i] = s[i]
    BY <2>1
  <2>3. \A i \in 1..(l + 1) : i \in 1..l \/ i = l + 1
    OBVIOUS
  <2>4. \A i \in 1..l : i \in 1..(l + 1)
    OBVIOUS
  <2>5. l + 1 \in 1..(l + 1)
    OBVIOUS
  <2>6. QED
    BY <2>1, <2>2, <2>3, <2>4, <2>5 DEF ToSet
<1>2. ASSUME s # <<>> PROVE ToSet(s) = {Head(s)} \cup ToSet(Tail(s))
  <2>1. PICK l \in Nat : l = Len(s) /\ l >= 1 /\ DOMAIN s = 1..l
    BY <1>2
  <2>2. /\ Head(s) = s[1] /\ DOMAIN Tail(s) = 1..(l - 1)
        /\ \A i \in 1..(l - 1) : Tail(s)[i] = s[i + 1]
    BY <1>2, <2>1
  <2>3. \A i \in 1..(l - 1) : i + 1 \in 1..l
    BY <2>1, Shifts
  <2>4. \A i \in 1..l : i = 1 \/ (i - 1 \in 1..(l - 1) /\ (i - 1) + 1 = i)
    BY <2>1, Shifts
  <2>5. 1 \in 1..l
    BY <2>1
  <2>6. ASSUME NEW e \in ToSet(s) PROVE e = Head(s) \/ e \in ToSet(Tail(s))
    <3>1. PICK i \in 1..l : e = s[i]
      BY <2>1 DEF ToSet
    <3>2. CASE i = 1
      BY <2>2, <3>1, <3>2
    <3>3. CASE i # 1
      <4>1. PICK j \in 1..(l - 1) : j + 1 = i
        BY <2>4, <3>3
      <4>2. j \in DOMAIN Tail(s) /\ Tail(s)[j] = e
        BY <2>2, <3>1, <4>1
      <4>3. QED
        BY <4>2 DEF ToSet
    <3>4. QED
      BY <3>2, <3>3
  <2>7. ToSet(Tail(s)) \subseteq ToSet(s) /\ Head(s) \in ToSet(s)
    BY <2>1, <2>2, <2>3, <2>5 DEF ToSet
  <2>8. QED
    BY <2>6, <2>7
<1>3. QED
  BY <1>1, <1>2

\* What stands at an earlier station is earlier.
LEMMA Apart ==
  ASSUME NEW W, InOrder(W), NEW s \in DOMAIN W, NEW r \in DOMAIN W, s < r,
         NEW d \in ToSet(W[s]), NEW e \in ToSet(W[r])
  PROVE  d.n < e.n
  BY DEF InOrder, ToSet

\* The order of the stations, by the variables that are the stations.
LEMMA StationOrder ==
  ASSUME Inv
  PROVE  /\ consumer # Idle =>
              \A e \in ToSet(queue["fill"]) \cup ToSet(pending) \cup Unread(wire) :
                consumer.n < e.n
         /\ \A i \in DOMAIN wire : \A e \in ToSet(wire[i]) :
              /\ consumer # Idle => consumer.n < e.n
              /\ \A d \in ToSet(queue["fill"]) \cup ToSet(pending) : d.n < e.n
              /\ \A j \in DOMAIN wire : j < i => \A d \in ToSet(wire[j]) : d.n < e.n
<1>1. InOrder(Way) /\ Types
  BY DEF Inv
<1>2. PICK l \in Nat : l = Len(wire) /\ DOMAIN wire = 1..l
  BY <1>1 DEF Types
<1>3. /\ DOMAIN Way = 1..(4 + l) /\ Way[3] = queue["fill"] /\ Way[4] = pending
      /\ \A i \in 1..l : Way[i + 4] = wire[i]
  BY <1>1, <1>2, WayNow DEF IsWay
<1>4. consumer # Idle => consumer \in ToSet(Way[2])
  <2>1. ASSUME consumer # Idle PROVE consumer \in ToSet(Way[2])
    <3>1. Way[2] = <<consumer>>
      BY <1>1, <2>1, WayNow DEF IsWay
    <3>2. 1 \in DOMAIN <<consumer>> /\ <<consumer>>[1] = consumer
      OBVIOUS
    <3>3. QED
      BY <3>1, <3>2 DEF ToSet
  <2>2. QED
    BY <2>1
<1>5. 2 \in DOMAIN Way /\ 3 \in DOMAIN Way /\ 4 \in DOMAIN Way
  BY <1>3
<1>6. ASSUME NEW i \in DOMAIN wire
      PROVE  i + 4 \in DOMAIN Way /\ 4 < i + 4 /\ 3 < i + 4 /\ 2 < i + 4 /\ i \in Nat
  BY <1>2, <1>3
<1>7. ASSUME NEW i \in DOMAIN wire, NEW e \in ToSet(wire[i])
      PROVE  /\ consumer # Idle => consumer.n < e.n
             /\ \A d \in ToSet(queue["fill"]) \cup ToSet(pending) : d.n < e.n
             /\ \A j \in DOMAIN wire : j < i => \A d \in ToSet(wire[j]) : d.n < e.n
  <2>1. e \in ToSet(Way[i + 4])
    BY <1>2, <1>3
  <2>2. consumer # Idle => consumer.n < e.n
    BY <1>1, <1>4, <1>5, <1>6, <2>1, Apart
  <2>3. \A d \in ToSet(queue["fill"]) \cup ToSet(pending) : d.n < e.n
    BY <1>1, <1>3, <1>5, <1>6, <2>1, Apart
  <2>4. ASSUME NEW j \in DOMAIN wire, j < i, NEW d \in ToSet(wire[j]) PROVE d.n < e.n
    <3>1. d \in ToSet(Way[j + 4]) /\ j + 4 \in DOMAIN Way /\ i + 4 \in DOMAIN Way
      BY <1>2, <1>3, <1>6
    <3>2. j + 4 < i + 4
      BY <1>6, <2>4
    <3>3. QED
      BY <1>1, <2>1, <3>1, <3>2, Apart
  <2>5. QED
    BY <2>2, <2>3, <2>4
<1>8. ASSUME consumer # Idle, NEW e \in ToSet(queue["fill"]) \cup ToSet(pending) \cup Unread(wire)
      PROVE  consumer.n < e.n
  <2>1. CASE e \in ToSet(queue["fill"])
    BY <1>1, <1>3, <1>4, <1>5, <1>8, <2>1, Apart
  <2>2. CASE e \in ToSet(pending)
    BY <1>1, <1>3, <1>4, <1>5, <1>8, <2>2, Apart
  <2>3. CASE e \in Unread(wire)
    BY <1>7, <1>8, <2>3 DEF Unread, ToSet
  <2>4. QED
    BY <1>8, <2>1, <2>2, <2>3
<1>9. QED
  BY <1>7, <1>8

\* What is under way or handled was sent: its number is not above their count.
LEMMA SentBefore ==
  ASSUME Inv, NEW e \in UnderWay \cup ToSet(handled)
  PROVE  e.n \in Nat /\ e.n <= Len(sent)
<1>1. Types /\ InOrder(Way) /\ Within(Way, ToSet(sent))
  BY DEF Inv
<1>2. PICK l \in Nat : l = Len(wire) /\ DOMAIN wire = 1..l
  BY <1>1 DEF Types
<1>3. /\ DOMAIN Way = 1..(4 + l) /\ Way[1] = handled
      /\ Way[3] = queue["fill"] /\ Way[4] = pending
      /\ Way[2] = IF consumer = Idle THEN <<>> ELSE <<consumer>>
      /\ \A i \in 1..l : Way[i + 4] = wire[i]
  BY <1>1, <1>2, WayNow DEF IsWay
<1>4. 1 \in DOMAIN Way /\ 2 \in DOMAIN Way /\ 3 \in DOMAIN Way /\ 4 \in DOMAIN Way
  BY <1>3
<1>5. \E s \in DOMAIN Way : e \in ToSet(Way[s])
  <2>1. CASE e \in ToSet(handled) \cup ToSet(queue["fill"]) \cup ToSet(pending)
    BY <1>3, <1>4, <2>1
  <2>2. CASE e = consumer /\ e.kind = "fill"
    <3>1. Way[2] = <<consumer>>
      BY <1>3, <2>2 DEF Idle, Event
    <3>2. 1 \in DOMAIN <<consumer>> /\ <<consumer>>[1] = consumer
      OBVIOUS
    <3>3. e \in ToSet(Way[2])
      BY <2>2, <3>1, <3>2 DEF ToSet
    <3>4. QED
      BY <1>4, <3>3
  <2>3. CASE e \in Unread(wire)
    <3>1. PICK i \in 1..l : e \in ToSet(wire[i])
      BY <1>2, <2>3 DEF Unread, ToSet
    <3>2. i + 4 \in DOMAIN Way /\ Way[i + 4] = wire[i]
      BY <1>3
    <3>3. QED
      BY <3>1, <3>2
  <2>4. QED
    BY <2>1, <2>2, <2>3 DEF UnderWay, Unread
<1>6. e \in ToSet(sent)
  BY <1>1, <1>5 DEF Within, ToSet
<1>7. PICK k \in DOMAIN sent : e = sent[k]
  BY <1>6 DEF ToSet
<1>8. QED
  BY <1>1, <1>7 DEF Inv, Types

\* The exchange sends a frame: a Report.
LEMMA SendReports ==
  ASSUME Inv, NEW kinds \in Frames, Send(kinds)
  PROVE  Feed!Report
<1> DEFINE f == Numbered(kinds)
<1>1. Types /\ Len(sent) \in Nat
  BY DEF Inv, Types
<1>2. /\ f \in Seq(Events)
      /\ \A i \in DOMAIN f : i \in Nat /\ i >= 1 /\ f[i].n = Len(sent) + i
  <2>1. kinds \in Seq(Kinds)
    BY StreamAssumption
  <2>2. \A i \in DOMAIN kinds : Event(kinds[i], Len(sent) + i) \in Events
    BY <1>1, <2>1 DEF Event, Events
  <2>3. f \in [1..Len(kinds) -> Events] /\ Len(kinds) \in Nat
    BY <2>1, <2>2 DEF Numbered
  <2>4. f \in Seq(Events)
    BY <2>3
  <2>5. \A i \in DOMAIN f : i \in Nat /\ i >= 1
    BY <2>3
  <2>6. \A i \in DOMAIN f : f[i].n = Len(sent) + i
    BY DEF Numbered, Event
  <2>7. QED
    BY <2>4, <2>5, <2>6
<1>3. wire' = Append(wire, f) /\ UNCHANGED <<pending, queue, consumer, handled, lost>>
  BY DEF Send
<1> HIDE DEF f
<1>4. ToSet(wire') = ToSet(wire) \cup {f}
  BY <1>1, <1>2, <1>3, Held DEF Types
<1>5. UnderWay' = UnderWay \cup {e \in ToSet(f) : e.kind = "fill"}
  BY <1>3, <1>4 DEF UnderWay
<1>6. ASSUME NEW e \in UnderWay' \ UnderWay
      PROVE  \E i \in DOMAIN f : e = f[i]
  BY <1>5 DEF ToSet
<1>7. ASSUME NEW d \in UnderWay \cup ToSet(handled), NEW e \in UnderWay' \ UnderWay
      PROVE  d.n < e.n
  <2>1. PICK i \in DOMAIN f : e = f[i]
    BY <1>6
  <2>2. e.n = Len(sent) + i /\ i \in Nat /\ i >= 1
    BY <1>2, <2>1
  <2>3. d.n \in Nat /\ d.n <= Len(sent)
    BY SentBefore
  <2>4. QED
    BY <1>1, <2>2, <2>3
<1>8. ASSUME NEW e \in UnderWay' \ UnderWay, NEW g \in UnderWay' \ UnderWay, e # g
      PROVE  e.n # g.n
  <2>1. PICK i \in DOMAIN f : e = f[i]
    BY <1>6
  <2>2. PICK j \in DOMAIN f : g = f[j]
    BY <1>6
  <2>3. i \in Nat /\ j \in Nat /\ i # j /\ e.n = Len(sent) + i /\ g.n = Len(sent) + j
    BY <1>2, <1>8, <2>1, <2>2
  <2>4. QED
    BY <1>1, <2>3
<1>9. UnderWay \subseteq UnderWay'
  BY <1>5
<1>10. Feed!Earlier(UnderWay \cup ToSet(handled), UnderWay' \ UnderWay)
  BY <1>7 DEF Feed!Earlier
<1>11. Feed!ToSet(handled) = ToSet(handled)
  BY DEF Feed!ToSet, ToSet
<1>12. QED
  BY <1>3, <1>8, <1>9, <1>10, <1>11 DEF Feed!Report

\* The reader, and the consumer at the queue, carry the fills on.
LEMMA CarryingStutters ==
  ASSUME Inv, Receive \/ Emit \/ TakeFill
  PROVE  UNCHANGED <<UnderWay, handled, lost>>
<1>1. Types
  BY DEF Inv
<1>2. CASE Receive
  <2>1. /\ pending = <<>> /\ pending' = Head(wire) /\ wire # <<>> /\ wire' = Tail(wire)
        /\ UNCHANGED <<queue, consumer, handled, lost>>
    BY <1>2 DEF Receive
  <2>2. ToSet(wire) = {pending'} \cup ToSet(wire')
    BY <1>1, <2>1, Held DEF Types
  <2>3. ToSet(pending) = {}
    BY <2>1 DEF ToSet
  <2>4. QED
    BY <2>1, <2>2, <2>3 DEF UnderWay
<1>3. CASE Emit
  <2> DEFINE e == Head(pending)
  <2>1. /\ pending # <<>> /\ pending' = Tail(pending)
        /\ UNCHANGED <<wire, consumer, handled, lost>>
    BY <1>3 DEF Emit
  <2>2. ToSet(pending) = {e} \cup ToSet(pending')
    BY <1>1, <2>1, Held DEF Types
  <2>3. e \in Events
    BY <1>1, <2>1, Headed DEF Types
  <2>4. CASE e.kind = "fill"
    <3>1. queue' = [queue EXCEPT !["fill"] = Append(@, e)]
      BY <1>3, <2>4 DEF Emit, Put, Queues
    <3>2. queue["fill"] \in Seq(Events) /\ queue'["fill"] = Append(queue["fill"], e)
      BY <1>1, <3>1 DEF Types, Queues
    <3>3. ToSet(queue'["fill"]) = ToSet(queue["fill"]) \cup {e}
      BY <2>3, <3>2, Held
    <3>4. QED
      BY <2>1, <2>2, <3>3 DEF UnderWay
  <2>5. CASE e.kind # "fill"
    <3>1. queue'["fill"] = queue["fill"]
      BY <1>1, <1>3, <2>5 DEF Emit, Put, Types, Queues
    <3>2. QED
      BY <2>1, <2>2, <2>5, <3>1 DEF UnderWay
  <2>6. QED
    BY <2>4, <2>5
<1>4. CASE TakeFill
  <2>1. /\ consumer = Idle /\ queue["fill"] # <<>> /\ consumer' = Head(queue["fill"])
        /\ queue'["fill"] = Tail(queue["fill"])
        /\ UNCHANGED <<wire, pending, handled, lost>>
    BY <1>1, <1>4 DEF TakeFill, Types, Queues
  <2>2. ToSet(queue["fill"]) = {consumer'} \cup ToSet(queue'["fill"])
    BY <1>1, <2>1, Held DEF Types
  <2>3. consumer.kind # "fill"
    BY <2>1 DEF Idle, Event
  <2>4. QED
    BY <2>1, <2>2, <2>3 DEF UnderWay
<1>5. QED
  BY <1>2, <1>3, <1>4

\* The consumer is done with its fill, the earliest under way: a Deliver.
LEMMA FillHandledDelivers ==
  ASSUME Inv, FillHandled
  PROVE  Feed!Deliver
<1>1. Types /\ consumer # Idle /\ consumer \in Fills
  BY DEF Inv, Types, FillHandled
<1>2. /\ handled' = Append(handled, consumer) /\ consumer' = Idle
      /\ UNCHANGED <<wire, pending, queue, lost>>
  BY DEF FillHandled
<1> DEFINE rest == ToSet(queue["fill"]) \cup ToSet(pending) \cup Unread(wire)
<1>3. \A e \in rest : consumer.n < e.n
  BY <1>1, StationOrder
<1>4. consumer \notin rest
  <2>1. ~(consumer.n < consumer.n)
    BY <1>1 DEF Fills, Events
  <2>2. QED
    BY <1>3, <2>1
<1>5. UnderWay = {consumer} \cup {e \in rest : e.kind = "fill"}
  BY <1>1 DEF UnderWay, Unread, Fills
<1>6. UnderWay' = {e \in rest : e.kind = "fill"}
  BY <1>2 DEF UnderWay, Unread, Idle, Event
<1> HIDE DEF rest
<1>7. consumer \in UnderWay /\ UnderWay' = UnderWay \ {consumer}
  BY <1>4, <1>5, <1>6
<1>8. Feed!Earlier({consumer}, UnderWay \ {consumer})
  BY <1>3, <1>5 DEF Feed!Earlier
<1>9. QED
  BY <1>2, <1>7, <1>8 DEF Feed!Deliver

\* The last frames are gone, with the latest fills: a Break.
LEMMA LoseConnectionBreaks ==
  ASSUME Inv, LoseConnection
  PROVE  Feed!Break
<1>1. Types /\ UNCHANGED <<pending, queue, consumer, handled>> /\ lost' = lost + 1
  BY DEF Inv, LoseConnection
<1>2. PICK k \in 0..Len(wire) : wire' = SubSeq(wire, 1, k)
  BY DEF LoseConnection
<1>3. PICK l \in Nat : l = Len(wire) /\ DOMAIN wire = 1..l /\ k \in 0..l
  BY <1>1 DEF Types
<1>4. DOMAIN wire' = 1..k /\ \A i \in 1..k : wire'[i] = wire[i]
  <2>1. k \in Nat /\ \A i \in 1..k : wire[i] \in Seq(Events)
    BY <1>1, <1>3 DEF Types
  <2>2. /\ wire' \in Seq(Seq(Events)) /\ Len(wire') = k
        /\ \A i \in 1..k : wire'[i] = wire[i]
    BY <1>1, <1>2, <2>1, SubSeqProperties
  <2>3. \A x \in Seq(Seq(Events)) : DOMAIN x = 1..Len(x)
    OBVIOUS
  <2>4. QED
    BY <2>2, <2>3
<1>5. \A i \in 1..k : i \in 1..l
  BY <1>3
<1>6. ToSet(wire') \subseteq ToSet(wire)
  BY <1>3, <1>4, <1>5 DEF ToSet
<1>7. UnderWay' \subseteq UnderWay
  BY <1>1, <1>6 DEF UnderWay
<1>8. ASSUME NEW e \in UnderWay \ UnderWay'
      PROVE  \E i \in 1..l : i > k /\ e \in ToSet(wire[i])
  <2>1. PICK frame \in ToSet(wire) : e \in ToSet(frame)
    BY <1>1 DEF UnderWay
  <2>2. PICK i \in 1..l : frame = wire[i]
    BY <1>3, <2>1 DEF ToSet
  <2>3. CASE i \in 1..k
    <3>1. frame \in ToSet(wire')
      BY <1>4, <2>2, <2>3 DEF ToSet
    <3>2. e \in UnderWay'
      BY <2>1, <3>1 DEF UnderWay
    <3>3. QED
      BY <3>2
  <2>4. CASE i \notin 1..k
    BY <1>3, <2>1, <2>2, <2>4
  <2>5. QED
    BY <2>3, <2>4
<1>9. ASSUME NEW d \in UnderWay', NEW e \in UnderWay \ UnderWay'
      PROVE  d.n < e.n
  <2>1. PICK i \in 1..l : i > k /\ e \in ToSet(wire[i])
    BY <1>8
  <2>2. i \in DOMAIN wire
    BY <1>3
  <2>3. CASE d \in ToSet(queue["fill"]) \cup ToSet(pending)
    BY <2>1, <2>2, <2>3, StationOrder
  <2>4. CASE d = consumer
    <3>1. consumer # Idle
      BY <1>1, <2>4 DEF UnderWay, Idle, Event
    <3>2. QED
      BY <2>1, <2>2, <2>4, <3>1, StationOrder
  <2>5. CASE d \in Unread(wire')
    <3>1. PICK j \in 1..k : d \in ToSet(wire'[j])
      BY <1>4, <2>5 DEF Unread, ToSet
    <3>2. j \in DOMAIN wire /\ d \in ToSet(wire[j])
      BY <1>3, <1>4, <1>5, <3>1
    <3>3. j < i
      BY <1>3, <2>1, <3>1
    <3>4. QED
      BY <2>1, <2>2, <3>2, <3>3, StationOrder
  <2>6. QED
    BY <1>1, <2>3, <2>4, <2>5 DEF UnderWay, Unread
<1>10. QED
  BY <1>1, <1>7, <1>9 DEF Feed!Break, Feed!Earlier

LEMMA NextFeeds ==
  Inv /\ [Next]_vars => [Feed!Next]_<<UnderWay, handled, lost>>
<1> SUFFICES ASSUME Inv, [Next]_vars
             PROVE  Feed!Next \/ UNCHANGED <<UnderWay, handled, lost>>
  OBVIOUS
<1>1. CASE \E kinds \in Frames : Send(kinds)
  BY <1>1, SendReports DEF Feed!Next
<1>2. CASE Receive \/ Emit \/ TakeFill
  BY <1>2, CarryingStutters
<1>3. CASE FillHandled
  BY <1>3, FillHandledDelivers DEF Feed!Next
<1>4. CASE LoseConnection
  BY <1>4, LoseConnectionBreaks DEF Feed!Next
<1>5. CASE Reconnect \/ UNCHANGED vars
  BY <1>5 DEF Reconnect, vars, UnderWay
<1>6. QED
  BY <1>1, <1>2, <1>3, <1>4, <1>5 DEF Next, Reader, FillConsumer

\* core/execution/user_stream.py with the fill consumer of core/orchestrator.py: for any
\* frames and capacity the position ledger is handed every fill once and the earliest
\* first, and none is given up but the latest ones when a connection breaks.
THEOREM UserStreamImplementsFillFeed == Spec => ImplementsFillFeed
<1>1. Init => Feed!Init
  <2>1. SUFFICES ASSUME Init PROVE UnderWay = {}
    BY DEF Init, Feed!Init
  <2>2. queue["fill"] = <<>> /\ ToSet(<<>>) = {} /\ consumer.kind # "fill"
    BY <2>1 DEF Init, Queues, ToSet, Idle, Event
  <2>3. QED
    BY <2>1, <2>2 DEF Init, UnderWay
<1>2. QED
  BY <1>1, InvInit, NextKeepsInv, NextFeeds, PTL DEF Spec, ImplementsFillFeed, Feed!FeedSpec
===============================================================================
