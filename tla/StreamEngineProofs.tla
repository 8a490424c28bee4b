-------------------------- MODULE StreamEngineProofs --------------------------
(***************************************************************************)
(* What generate_stream promises of every stream, whatever the traders,    *)
(* instruments, counts and draws: its labels are true, deduplication       *)
(* leaves it alone, scenarios keep apart, the training labels are exact,   *)
(* the training features are those of gold, and the detectors alert only   *)
(* the abusers and never contradict themselves.                            *)
(***************************************************************************)
EXTENDS StreamEngine, MedallionProofs

-----------------------------------------------------------------------------
(* Sorting *)

(* The k-th event stays before the l-th.                                    *)
Before(evs, k, l) == evs[k].t < evs[l].t \/ (evs[k].t = evs[l].t /\ k <= l)

(* Times are numbers, so that any two places are ordered.                   *)
Timed(evs, n) == n \in Nat /\ DOMAIN evs = 1..n /\ \A k \in 1..n : evs[k].t \in Nat

(* Places are numbered from the first, in the order of the events.          *)
LEMMA PlacesOrdered ==
    ASSUME NEW evs, NEW n, Timed(evs, n),
           NEW k \in 1..n, NEW l \in 1..n, Before(evs, k, l), k # l
    PROVE  /\ PlaceOf(evs, k) \in 1..n /\ PlaceOf(evs, l) \in 1..n
           /\ PlaceOf(evs, k) < PlaceOf(evs, l)
<1> DEFINE K == {j \in 1..n : Before(evs, j, k)}
           L == {j \in 1..n : Before(evs, j, l)}
<1>0. n \in Nat /\ DOMAIN evs = 1..n /\ \A m \in 1..n : evs[m].t \in Nat
  BY DEF Timed
<1>1. PlaceOf(evs, k) = Cardinality(K) /\ PlaceOf(evs, l) = Cardinality(L)
  BY <1>0 DEF PlaceOf, Before
<1>2. IsFiniteSet(1..n) /\ Cardinality(1..n) = n
  BY <1>0, FS_Interval
<1>3. K \in SUBSET L /\ L \in SUBSET (1..n)
  BY <1>0 DEF Before
<1>4. l \in L /\ l \notin K /\ k \in K
  BY <1>0 DEF Before
<1> HIDE DEF K, L
<1>5. IsFiniteSet(L) /\ Cardinality(L) <= n
  BY <1>2, <1>3, FS_Subset
<1>6. IsFiniteSet(K) /\ Cardinality(K) <= Cardinality(L) /\ Cardinality(L) # Cardinality(K)
  BY <1>3, <1>4, <1>5, FS_Subset
<1>7. Cardinality(K) \in Nat /\ Cardinality(L) \in Nat
  BY <1>5, <1>6, FS_CardinalityType
<1>8. Cardinality(K) # 0
  BY <1>4, <1>6, FS_EmptySet
<1> QED
  BY <1>0, <1>1, <1>5, <1>6, <1>7, <1>8

(* Every place is one of the sequence.                                      *)
LEMMA PlaceRange ==
    ASSUME NEW evs, NEW n, Timed(evs, n), NEW k \in 1..n
    PROVE  PlaceOf(evs, k) \in 1..n
<1> DEFINE P == {j \in 1..n : Before(evs, j, k)}
<1>0. n \in Nat /\ DOMAIN evs = 1..n /\ evs[k].t \in Nat
  BY DEF Timed
<1>1. PlaceOf(evs, k) = Cardinality(P)
  BY <1>0 DEF PlaceOf, Before
<1>2. IsFiniteSet(1..n) /\ Cardinality(1..n) = n
  BY <1>0, FS_Interval
<1>3. P \in SUBSET (1..n) /\ k \in P
  BY <1>0 DEF Before
<1> HIDE DEF P
<1>4. IsFiniteSet(P) /\ Cardinality(P) <= n
  BY <1>2, <1>3, FS_Subset
<1>5. Cardinality(P) \in Nat /\ Cardinality(P) # 0
  BY <1>3, <1>4, FS_CardinalityType, FS_EmptySet
<1> QED
  BY <1>0, <1>1, <1>4, <1>5

(* The sort is what list.sort promises: every event once, in the order of   *)
(* time, and events of the same time in the order they were emitted in      *)
(* (engine.py:76).                                                          *)
THEOREM SortIsStable ==
    ASSUME NEW evs, NEW n, Timed(evs, n)
    PROVE  \E s \in Bijection(1..n, 1..n) :
              /\ SortedByTime(evs) = [p \in 1..n |-> evs[s[p]]]
              /\ \A p, q \in 1..n : p < q => Before(evs, s[p], s[q])
<1> DEFINE pos == [k \in 1..n |-> PlaceOf(evs, k)]
           placed == {<<PlaceOf(evs, k), k>> : k \in 1..n}
           s == [p \in 1..n |-> (CHOOSE q \in placed : q[1] = p)[2]]
<1>0. n \in Nat /\ DOMAIN evs = 1..n /\ \A m \in 1..n : evs[m].t \in Nat
  BY DEF Timed
<1>1. \A k \in 1..n : pos[k] \in 1..n
  BY PlaceRange
<1>2. ASSUME NEW k \in 1..n, NEW l \in 1..n, Before(evs, k, l), k # l
      PROVE  pos[k] < pos[l]
  BY <1>2, PlacesOrdered
<1>3. ASSUME NEW k \in 1..n, NEW l \in 1..n
      PROVE  Before(evs, k, l) \/ Before(evs, l, k)
  BY <1>0 DEF Before
<1>4. placed = {<<pos[k], k>> : k \in 1..n}
  OBVIOUS
<1> HIDE DEF pos
<1>5. ASSUME NEW k \in 1..n, NEW l \in 1..n, pos[k] = pos[l]
      PROVE  k = l
  <2> SUFFICES ASSUME k # l PROVE FALSE
    OBVIOUS
  <2>1. pos[k] < pos[l] \/ pos[l] < pos[k]
    BY <1>2, <1>3
  <2> QED
    BY <1>1, <1>5, <2>1
<1>6. pos \in Injection(1..n, 1..n)
  <2>1. pos \in [1..n -> 1..n]
    BY <1>1 DEF pos
  <2> QED
    BY <1>5, <2>1 DEF Injection, IsInjective
<1>7. ASSUME NEW p \in 1..n PROVE \E k \in 1..n : pos[k] = p
  <2>1. IsFiniteSet(1..n)
    BY <1>0, FS_Interval
  <2>2. pos \in Surjection(1..n, 1..n)
    BY <1>6, <2>1, FS_Injection
  <2> QED
    BY <2>2 DEF Surjection
<1>8. ASSUME NEW p \in 1..n PROVE s[p] \in 1..n /\ pos[s[p]] = p
  <2> DEFINE q == CHOOSE r \in placed : r[1] = p
  <2>1. \E r \in placed : r[1] = p
    <3>1. PICK k \in 1..n : pos[k] = p
      BY <1>7
    <3>2. <<pos[k], k>> \in placed /\ <<pos[k], k>>[1] = p
      BY <1>4, <3>1
    <3> HIDE DEF placed
    <3> QED
      BY <3>2
  <2>2. q \in placed /\ q[1] = p
    BY <2>1
  <2>3. s[p] = q[2]
    OBVIOUS
  <2> HIDE DEF q, placed
  <2>4. PICK k \in 1..n : q = <<pos[k], k>>
    BY <1>4, <2>2
  <2> QED
    BY <2>2, <2>3, <2>4
<1>9. SortedByTime(evs) = [p \in 1..n |-> evs[s[p]]]
  BY <1>0 DEF SortedByTime
<1>10. s \in [1..n -> 1..n]
  <2>1. s = [p \in 1..n |-> s[p]]
    OBVIOUS
  <2> HIDE DEF s
  <2> QED
    BY <1>8, <2>1
<1> HIDE DEF s, placed
<1>11. \A p, q \in 1..n : s[p] = s[q] => p = q
  BY <1>8
<1>12. \A k \in 1..n : \E p \in 1..n : s[p] = k
  <2> TAKE k \in 1..n
  <2>1. s[pos[k]] = k /\ pos[k] \in 1..n
    BY <1>1, <1>5, <1>8
  <2> QED
    BY <2>1
<1>13. s \in Bijection(1..n, 1..n)
  BY <1>10, <1>11, <1>12 DEF Bijection, Injection, Surjection, IsInjective
<1>14. ASSUME NEW p \in 1..n, NEW q \in 1..n, p < q
       PROVE  Before(evs, s[p], s[q])
  <2> SUFFICES ASSUME ~Before(evs, s[p], s[q]) PROVE FALSE
    OBVIOUS
  <2>1. s[p] \in 1..n /\ s[q] \in 1..n /\ pos[s[p]] = p /\ pos[s[q]] = q
    BY <1>8
  <2>2. Before(evs, s[q], s[p])
    BY <1>3, <2>1
  <2>3. s[p] # s[q]
    BY <1>0, <1>14, <2>1
  <2>4. q < p
    BY <1>2, <2>1, <2>2, <2>3
  <2> QED
    BY <1>0, <1>14, <2>4
<1> QED
  BY <1>9, <1>13, <1>14

(* A run stays one, with the same events.                                   *)
LEMMA SortedRun ==
    ASSUME NEW evs, IsRun(evs), \A e \in Range(evs) : e.t \in Nat
    PROVE  IsRun(SortedByTime(evs)) /\ Range(SortedByTime(evs)) = Range(evs)
<1> DEFINE n == Len(evs)
           v == SortedByTime(evs)
<1>1. n \in Nat /\ DOMAIN evs = 1..n
  BY DEF IsRun
<1> HIDE DEF n
<1>2. Timed(evs, n)
  BY <1>1 DEF Timed, Range
<1>3. PICK s \in Bijection(1..n, 1..n) : v = [p \in 1..n |-> evs[s[p]]]
  BY <1>2, SortIsStable
<1> HIDE DEF v
<1>4. /\ \A p \in 1..n : s[p] \in 1..n
      /\ \A p, q \in 1..n : s[p] = s[q] => p = q
      /\ \A k \in 1..n : \E p \in 1..n : s[p] = k
  BY DEF Bijection, Injection, Surjection, IsInjective
<1>5. DOMAIN v = 1..n /\ \A p \in 1..n : v[p] = evs[s[p]]
  BY <1>3
<1>6. Range(v) = Range(evs)
  <2>1. \A p \in 1..n : v[p] \in Range(evs)
    <3> TAKE p \in 1..n
    <3>1. s[p] \in DOMAIN evs
      BY <1>1, <1>4
    <3>2. v[p] = evs[s[p]]
      BY <1>5
    <3> QED
      BY <3>1, <3>2 DEF Range
  <2>2. \A k \in 1..n : evs[k] \in Range(v)
    <3> TAKE k \in 1..n
    <3>1. PICK p \in 1..n : s[p] = k
      BY <1>4
    <3> QED
      BY <1>5, <3>1 DEF Range
  <2> QED
    BY <1>1, <1>5, <2>1, <2>2 DEF Range
<1>7. v \in [1..n -> Range(v)]
  BY <1>3, <1>5 DEF Range
<1>8. v \in Seq(Range(v))
  BY <1>1, <1>7
<1>9. KeysApart(v)
  <2>1. ASSUME NEW p \in 1..n, NEW q \in 1..n, DedupKey(v[p]) = DedupKey(v[q])
        PROVE  p = q
    <3>1. DedupKey(evs[s[p]]) = DedupKey(evs[s[q]])
      BY <1>5, <2>1
    <3>2. s[p] = s[q]
      <4>1. s[p] \in DOMAIN evs /\ s[q] \in DOMAIN evs
        BY <1>1, <1>4
      <4>2. KeysApart(evs)
        BY DEF IsRun
      <4> QED
        BY <3>1, <4>1, <4>2 DEF KeysApart
    <3> QED
      BY <1>4, <3>2
  <2> QED
    BY <1>5, <2>1 DEF KeysApart
<1> QED
  BY <1>6, <1>8, <1>9 DEF IsRun, v

-----------------------------------------------------------------------------
(* The inductive invariant: every event is a benign order of an earlier     *)
(* turn or belongs to the scenario of some label, no two events share the   *)
(* columns that are compared, and every label is true of the events.        *)

(* A benign order of one of the first m turns.                              *)
Benign(e, m) ==
    /\ Whole(e) /\ e.sid = NoSid /\ e.msg = "NEW"
    /\ e.trader \in Normals /\ e.symbol \in Mids
    /\ e.id[1] = "n" /\ e.id[2] \in 0..(m - 1)

(* An event of the n-th scenario, whose label is l.                         *)
OfScenario(e, n, l) ==
    /\ Whole(e) /\ e.sid = <<"abuse", n>>
    /\ e.trader \in {l.trader, Client(<<"abuse", n>>)} /\ e.symbol = l.symbol
    /\ l.start <= e.t /\ e.t <= l.end
    /\ e.id[1] = "abuse" /\ e.id[2] = n
    /\ e.trader = Client(<<"abuse", n>>)
          => e.side = "BUY" /\ e.msg # "CANCEL" /\ e.price \in {NoPrice, e.symbol}

(* A label that is true of the events E.                                    *)
HonestLabel(l, n, E) ==
    /\ l.sid = <<"abuse", n>> /\ l.trader \in Abusers /\ l.symbol \in Mids
    /\ l.start \in Nat /\ l.end \in Nat /\ l.start <= l.end
    /\ \A id \in l.ids : \E e \in E : e.sid = l.sid /\ e.trader = l.trader /\ e.id = id

Counts ==
    /\ pc \in {"loop", "returned"} /\ i \in 0..NNormal /\ t \in Nat
    /\ injectAt \subseteq 0..(NNormal - 1) /\ Cardinality(injectAt) <= AbuseCount
    /\ injected = Cardinality({k \in injectAt : k < i})
    /\ labels \in Seq(Range(labels)) /\ Len(labels) = injected

EventsKnown ==
    /\ IsRun(events)
    /\ \A e \in Range(events) :
            Benign(e, i) \/ \E n \in 1..injected : OfScenario(e, n, labels[n])

LabelsHonest == \A n \in 1..injected : HonestLabel(labels[n], n, Range(events))

IInv == Counts /\ EventsKnown /\ LabelsHonest

(* How the stream's time passes: scenarios follow one another, benign       *)
(* orders keep out of the windows of all but those that mark the close.     *)
Ends(l) == l.type # "MARKING_THE_CLOSE"

Timeline ==
    /\ \A e \in Range(events) : e.sid = NoSid => e.t < t
    /\ \A n \in 1..injected :
          /\ labels[n].start < t
          /\ Ends(labels[n]) =>
                /\ labels[n].end < t
                /\ \A e \in Range(events) : e.sid = NoSid =>
                        ~(labels[n].start <= e.t /\ e.t <= labels[n].end)
    /\ \A m, n \in 1..injected :
          m < n => /\ labels[m].start < labels[n].start
                   /\ Ends(labels[m]) => labels[m].end < labels[n].start

(* One more event at the end of a run.                                      *)
LEMMA AppendRun ==
    ASSUME NEW s, IsRun(s), NEW e, \A d \in Range(s) : d.id # e.id
    PROVE  IsRun(Append(s, e)) /\ Range(Append(s, e)) = Range(s) \cup {e}
<1> DEFINE n == Len(s)
           v == Append(s, e)
           X == Range(s) \cup {e}
<1>1. s \in Seq(X) /\ n \in Nat /\ DOMAIN s = 1..n
  BY DEF IsRun
<1>2. /\ v \in Seq(X) /\ Len(v) = n + 1 /\ DOMAIN v = 1..(n + 1)
      /\ \A k \in 1..n : v[k] = s[k]
      /\ v[n + 1] = e
  BY <1>1
<1> HIDE DEF v, n
<1>3. \A k \in 1..(n + 1) : k \in 1..n \/ k = n + 1
  BY <1>1
<1>4. Range(v) = X
  <2>1. \A k \in 1..(n + 1) : v[k] \in X
    BY <1>1, <1>2, <1>3 DEF Range
  <2>2. \A k \in 1..n : s[k] \in Range(v)
    <3>1. \A k \in 1..n : k \in 1..(n + 1)
      BY <1>1
    <3> QED
      BY <1>2, <3>1 DEF Range
  <2>3. e \in Range(v)
    <3>1. n + 1 \in 1..(n + 1)
      BY <1>1
    <3> QED
      BY <1>2, <3>1 DEF Range
  <2> QED
    BY <1>1, <1>2, <2>1, <2>2, <2>3 DEF Range
<1>5. \A k \in 1..n : DedupKey(s[k]) # DedupKey(e)
  <2>1. \A k \in 1..n : s[k].id # e.id
    BY <1>1 DEF Range
  <2> QED
    BY <2>1 DEF DedupKey
<1>6. KeysApart(v)
  <2>1. ASSUME NEW j \in 1..(n + 1), NEW k \in 1..(n + 1), DedupKey(v[j]) = DedupKey(v[k])
        PROVE  j = k
    <3>1. CASE j \in 1..n /\ k \in 1..n
      BY <1>1, <1>2, <2>1, <3>1 DEF IsRun, KeysApart
    <3>2. CASE j \in 1..n /\ k = n + 1
      BY <1>2, <1>5, <2>1, <3>2
    <3>3. CASE j = n + 1 /\ k \in 1..n
      BY <1>2, <1>5, <2>1, <3>3
    <3>4. CASE j = n + 1 /\ k = n + 1
      BY <3>4
    <3> QED
      BY <1>3, <3>1, <3>2, <3>3, <3>4
  <2> QED
    BY <1>2, <2>1 DEF KeysApart
<1> QED
  BY <1>2, <1>4, <1>6 DEF IsRun, v

(* A benign order of the m-th turn, at the time at.                         *)
OwnOrder(o, m, at) ==
    /\ Benign(o, m + 1) /\ o.sid = NoSid /\ o.t = at
    /\ o.id[1] = "n" /\ o.id[2] = m

(* A turn's order is a benign order of that turn (_benign_order).           *)
LEMMA OrderBenign ==
    ASSUME Counts, NEW who \in Normals, NEW mid \in Mids, NEW side \in BenignSides,
           NEW qty \in BenignQty, NEW move \in BenignMoves
    PROVE  OwnOrder(BenignOrder(who, mid, side, qty, move), i, t)
<1> DEFINE o == BenignOrder(who, mid, side, qty, move)
<1>1. o = [msg |-> "NEW", id |-> <<"n", i, "", 0>>, trader |-> who, symbol |-> mid,
           side |-> side, qty |-> qty, t |-> t, price |-> mid + move,
           exec |-> NoExec, lastQty |-> 0, lastPx |-> NoPrice, sid |-> NoSid]
  BY DEF BenignOrder
<1>2. /\ mid \in Nat \ (0..5) /\ qty \in Nat \ {0} /\ side \in Side
      /\ t \in Nat /\ i \in Nat /\ move \in -5..5
  BY EngineAssumption DEF EngineAssumption, Side, Counts
<1>3. mid + move \in Nat
  BY <1>2
<1>4. i \in 0..((i + 1) - 1)
  BY <1>2
<1> HIDE DEF o
<1>5. Whole(o)
  BY <1>1, <1>2, <1>3 DEF Whole, FixFields, Measured, NoPrice
<1>6. OwnOrder(o, i, t)
  BY <1>1, <1>4, <1>5 DEF Benign, OwnOrder
<1> QED
  BY <1>6 DEF o

(* What is known of the events before a turn tells them from what the turn  *)
(* adds.                                                                    *)
LEMMA KnownIds ==
    ASSUME Counts, EventsKnown, NEW e \in Range(events)
    PROVE  \/ e.id[1] = "n" /\ e.id[2] \in 0..(i - 1)
           \/ e.id[1] = "abuse" /\ e.id[2] \in 1..injected
BY DEF EventsKnown, Benign, OfScenario

(* A benign order of some turns is one of more turns.                       *)
LEMMA BenignMore ==
    ASSUME NEW e, NEW m \in Nat, Benign(e, m)
    PROVE  Benign(e, m + 1)
<1>1. \A k \in 0..(m - 1) : k \in 0..((m + 1) - 1)
  OBVIOUS
<1> QED
  BY <1>1 DEF Benign

(* A label that is true of some events is true of more.                     *)
LEMMA HonestMore ==
    ASSUME NEW l, NEW n, NEW E, HonestLabel(l, n, E), NEW D, E \subseteq D
    PROVE  HonestLabel(l, n, D)
BY DEF HonestLabel

(* How many turns up to this one inject a scenario.                         *)
LEMMA CountTurns ==
    ASSUME Counts, NNormal \in Nat, AbuseCount \in Nat
    PROVE  /\ injected \in Nat
           /\ i \notin injectAt => injected = Cardinality({k \in injectAt : k < i + 1})
           /\ i \in injectAt =>
                 /\ injected + 1 = Cardinality({k \in injectAt : k < i + 1})
                 /\ injected + 1 \in 1..AbuseCount
<1> DEFINE A == {k \in injectAt : k < i}
           B == {k \in injectAt : k < i + 1}
<1>0. /\ i \in Nat /\ injectAt \in SUBSET (0..(NNormal - 1))
      /\ Cardinality(injectAt) <= AbuseCount /\ injected = Cardinality(A)
  BY DEF Counts
<1>1. \A k \in injectAt : k \in Int
  BY <1>0
<1>2. IsFiniteSet(injectAt)
  <2>1. IsFiniteSet(0..(NNormal - 1))
    BY FS_Interval
  <2> QED
    BY <1>0, <2>1, FS_Subset
<1>3. A \in SUBSET injectAt /\ B \in SUBSET injectAt /\ i \notin A
  BY <1>0
<1>4. i \notin injectAt => B = A
  <2>1. \A k \in injectAt : k # i => (k < i + 1 <=> k < i)
    BY <1>0, <1>1
  <2> QED
    BY <2>1
<1>5. i \in injectAt => B = A \cup {i}
  <2>1. \A k \in injectAt : k # i => (k < i + 1 <=> k < i)
    BY <1>0, <1>1
  <2>2. i < i + 1
    BY <1>0
  <2> QED
    BY <2>1, <2>2
<1> HIDE DEF A, B
<1>6. IsFiniteSet(A) /\ IsFiniteSet(B) /\ Cardinality(B) <= Cardinality(injectAt)
  BY <1>2, <1>3, FS_Subset
<1>7. Cardinality(A) \in Nat /\ Cardinality(B) \in Nat /\ Cardinality(injectAt) \in Nat
  BY <1>2, <1>6, FS_CardinalityType
<1>8. i \in injectAt => Cardinality(B) = Cardinality(A) + 1
  BY <1>3, <1>5, <1>6, FS_AddElement
<1>9. i \in injectAt => injected + 1 \in 1..AbuseCount
  BY <1>0, <1>6, <1>7, <1>8
<1> QED
  BY <1>0, <1>4, <1>7, <1>8, <1>9 DEF B

(* What a turn injects.                                                     *)
LEMMA Injected ==
    ASSUME NEW n \in Nat, NEW c, IsContext(c), c.sid = <<"abuse", n>>,
           c.trader \in Abusers, c.symbol \in Mids,
           NEW type, NEW made, Faithful(made, type, c)
    PROVE  /\ IsRun(made.events)
           /\ \A e \in Range(made.events) : OfScenario(e, n, made.label)
           /\ HonestLabel(made.label, n, Range(made.events))
           /\ made.label.start = c.t0 /\ made.label.type = type
           /\ Ends(made.label) => made.label.end < c.t0 + 200
<1>1. Part(made.events, c, made.label.end)
  BY DEF Faithful
<1>2. c.t0 \in Nat /\ c.symbol = c.mid
  BY ContextParts
<1>3. /\ made.label.sid = c.sid /\ made.label.type = type
      /\ made.label.trader = c.trader /\ made.label.symbol = c.symbol
      /\ made.label.start = c.t0 /\ made.label.end \in Nat /\ c.t0 <= made.label.end
      /\ type # "MARKING_THE_CLOSE" => made.label.end < c.t0 + 200
      /\ \A id \in made.label.ids :
              \E e \in Range(made.events) : e.trader = c.trader /\ e.id = id
      /\ \A e \in Range(made.events) : Flow(e, c)
  BY DEF Faithful
<1>4. \A e \in Range(made.events) : Belongs(e, c, made.label.end)
  BY <1>1 DEF Part
<1>5. c.sid[1] = "abuse" /\ c.sid[2] = n
  OBVIOUS
<1>6. ASSUME NEW e \in Range(made.events)
      PROVE  OfScenario(e, n, made.label)
  <2>1. Belongs(e, c, made.label.end) /\ Flow(e, c)
    BY <1>3, <1>4
  <2> QED
    BY <1>2, <1>3, <1>5, <2>1 DEF Belongs, Flow, OfScenario, Parties
<1>7. HonestLabel(made.label, n, Range(made.events))
  <2>1. \A e \in Range(made.events) : e.sid = c.sid
    BY <1>4 DEF Belongs
  <2> QED
    BY <1>2, <1>3, <2>1 DEF HonestLabel
<1> QED
  BY <1>1, <1>3, <1>6, <1>7 DEF Part, Ends

-----------------------------------------------------------------------------
(* The invariant is inductive *)

(* No event and no label at the start.                                      *)
LEMMA InitInv == Init => IInv
<1> SUFFICES ASSUME Init PROVE IInv
  OBVIOUS
<1>1. NNormal \in Nat /\ AbuseCount \in Nat /\ TStart \subseteq Nat
  BY EngineAssumption DEF EngineAssumption
<1>2. /\ injectAt \subseteq 0..(NNormal - 1)
      /\ Cardinality(injectAt) = least(AbuseCount, NNormal)
  BY DEF Init, kSubset
<1>3. Cardinality(injectAt) <= AbuseCount
  BY <1>1, <1>2 DEF least
<1>4. {k \in injectAt : k < 0} = {}
  <2>1. \A k \in 0..(NNormal - 1) : ~(k < 0)
    BY <1>1
  <2> QED
    BY <1>2, <2>1
<1>5. injected = Cardinality({k \in injectAt : k < 0})
  BY <1>4, FS_EmptySet DEF Init
<1>6. Range(<<>>) = {} /\ IsRun(<<>>)
  BY DEF Range, IsRun, KeysApart
<1>7. Counts
  BY <1>1, <1>2, <1>3, <1>5, <1>6 DEF Init, Counts
<1>8. EventsKnown /\ LabelsHonest
  BY <1>6 DEF Init, EventsKnown, LabelsHonest
<1> QED
  BY <1>7, <1>8 DEF IInv

(* A turn's own order is unlike every event before it.                      *)
LEMMA OrderIsNew ==
    ASSUME IInv, NEW o, OwnOrder(o, i, t)
    PROVE  /\ IsRun(Append(events, o))
           /\ Range(Append(events, o)) = Range(events) \cup {o}
<1>1. \A e \in Range(events) : e.id # o.id
  <2> TAKE e \in Range(events)
  <2>1. i \in Nat
    BY EngineAssumption DEF EngineAssumption, IInv, Counts
  <2>2. \/ e.id[1] = "n" /\ e.id[2] \in 0..(i - 1)
        \/ e.id[1] = "abuse" /\ e.id[2] \in 1..injected
    BY KnownIds DEF IInv
  <2>3. o.id[1] = "n" /\ o.id[2] = i
    BY DEF OwnOrder
  <2> QED
    BY <2>1, <2>2, <2>3
<1> QED
  BY <1>1, AppendRun DEF IInv, EventsKnown

(* A turn that injects nothing keeps the invariant.                         *)
LEMMA BenignInv ==
    ASSUME IInv, NEW o, OwnOrder(o, i, t), BenignTurn(o)
    PROVE  IInv'
<1>1. /\ pc = "loop" /\ i < NNormal /\ i \notin injectAt
      /\ events' = Append(events, o) /\ t' = t + Dt /\ i' = i + 1
      /\ pc' = pc /\ injectAt' = injectAt /\ injected' = injected /\ labels' = labels
  BY DEF BenignTurn
<1>2. NNormal \in Nat /\ AbuseCount \in Nat /\ Dt \in Nat
  BY EngineAssumption DEF EngineAssumption
<1>3. i \in Nat /\ t \in Nat
  BY <1>2 DEF IInv, Counts
<1>4. /\ IsRun(events') /\ Range(events') = Range(events) \cup {o}
  BY <1>1, OrderIsNew
<1>5. Counts'
  <2>1. injected = Cardinality({k \in injectAt : k < i + 1})
    BY <1>1, <1>2, CountTurns DEF IInv
  <2>2. i + 1 \in 0..NNormal /\ t + Dt \in Nat
    BY <1>1, <1>2, <1>3
  <2> QED
    BY <1>1, <2>1, <2>2 DEF IInv, Counts
<1>6. EventsKnown'
  <2>1. Benign(o, i')
    BY <1>1 DEF OwnOrder
  <2>2. \A e : Benign(e, i) => Benign(e, i')
    BY <1>1, <1>3, BenignMore
  <2> QED
    BY <1>1, <1>4, <2>1, <2>2 DEF IInv, EventsKnown
<1>7. LabelsHonest'
  BY <1>1, <1>4, HonestMore DEF IInv, LabelsHonest
<1> QED
  BY <1>5, <1>6, <1>7 DEF IInv

(* What an injecting turn adds: the events M of the next scenario, and its  *)
(* label l.                                                                 *)
Adds(o, l, M) ==
    /\ pc' = pc /\ injectAt' = injectAt /\ i' = i + 1
    /\ injected' = injected + 1 /\ t' = t + Dt + 200
    /\ IsRun(events') /\ Range(events') = Range(events) \cup {o} \cup M
    /\ labels' \in Seq(Range(labels')) /\ Len(labels') = injected + 1
    /\ \A n \in 1..injected : labels'[n] = labels[n]
    /\ labels'[injected + 1] = l
    /\ \A e \in M : OfScenario(e, injected + 1, l)
    /\ HonestLabel(l, injected + 1, M)
    /\ l.start = t + Dt /\ (Ends(l) => l.end < t + Dt + 200)

(* A turn that injects adds its order, a scenario's events and their label. *)
LEMMA InjectAdds ==
    ASSUME IInv, NEW o, OwnOrder(o, i, t),
           NEW abuser \in Abusers, NEW mid \in Mids, NEW draws \in Draws,
           InjectingTurn(o, abuser, mid, draws)
    PROVE  \E l, M : Adds(o, l, M)
<1> DEFINE archetype == Archetypes[(injected % Len(Archetypes)) + 1]
           n == injected + 1
           c == [t0 |-> t + Dt, trader |-> abuser, symbol |-> mid, mid |-> mid,
                 sid |-> <<"abuse", n>>, draws |-> draws]
           made == Scenario(archetype, c)
           M == Range(made.events)
<1>1. /\ i < NNormal /\ i \in injectAt
      /\ events' = Append(events, o) \o made.events
      /\ labels' = Append(labels, made.label)
      /\ injected' = injected + 1 /\ t' = t + Dt + StepPast
      /\ i' = i + 1 /\ pc' = pc /\ injectAt' = injectAt
  BY DEF InjectingTurn
<1>2. /\ NNormal \in Nat /\ AbuseCount \in Nat /\ Dt \in Nat
      /\ mid \in Nat \ (0..5) /\ IsDraws(draws)
  BY EngineAssumption DEF EngineAssumption
<1>3. /\ i \in Nat /\ t \in Nat /\ injected \in Nat /\ n \in 1..AbuseCount
      /\ labels \in Seq(Range(labels)) /\ Len(labels) = injected
  BY <1>1, <1>2, CountTurns DEF IInv, Counts
<1>4. archetype \in Range(Archetypes)
  <2>1. Len(Archetypes) = 5 /\ DOMAIN Archetypes = 1..5
    BY DEF Archetypes
  <2>2. (injected % 5) + 1 \in 1..5
    BY <1>3
  <2> QED
    BY <2>1, <2>2 DEF Range
<1>5. abuser # Client(<<"abuse", n>>)
  BY <1>3, EngineAssumption DEF EngineAssumption
<1> HIDE DEF archetype
<1>6. /\ c.t0 = t + Dt /\ c.trader = abuser /\ c.symbol = mid /\ c.mid = mid
      /\ c.sid = <<"abuse", n>> /\ c.draws = draws
  OBVIOUS
<1> HIDE DEF c
<1>7. n \in Nat /\ t + Dt \in Nat
  BY <1>2, <1>3
<1> HIDE DEF n
<1>8. IsContext(c)
  BY <1>2, <1>5, <1>6, <1>7 DEF IsContext
<1>9. Faithful(made, archetype, c)
  BY <1>4, <1>8, ScenarioFaithful
<1> HIDE DEF made
<1>10. /\ IsRun(made.events)
       /\ \A e \in M : OfScenario(e, n, made.label)
       /\ HonestLabel(made.label, n, M)
       /\ made.label.start = t + Dt
       /\ Ends(made.label) => made.label.end < t + Dt + 200
  BY <1>6, <1>7, <1>8, <1>9, Injected
<1>11. IsRun(Append(events, o)) /\ Range(Append(events, o)) = Range(events) \cup {o}
  BY OrderIsNew
<1>12. Apart(Range(events) \cup {o}, M)
  <2>1. ASSUME NEW e \in Range(events) \cup {o}, NEW f \in M PROVE e.id # f.id
    <3>1. f.id[1] = "abuse" /\ f.id[2] = n
      BY <1>10 DEF OfScenario
    <3>2. CASE e = o
      BY <3>1, <3>2 DEF OwnOrder
    <3>3. CASE e \in Range(events)
      <4>1. \/ e.id[1] = "n" /\ e.id[2] \in 0..(i - 1)
            \/ e.id[1] = "abuse" /\ e.id[2] \in 1..injected
        BY <3>3, KnownIds DEF IInv
      <4>2. n \notin 1..injected
        BY <1>3 DEF n
      <4> QED
        BY <3>1, <4>1, <4>2
    <3> QED
      BY <3>2, <3>3
  <2> QED
    BY <2>1 DEF Apart
<1>13. IsRun(events') /\ Range(events') = (Range(events) \cup {o}) \cup M
  <2> DEFINE s == Append(events, o)
  <2>1. IsRun(s) /\ Apart(Range(s), Range(made.events))
    BY <1>11, <1>12
  <2>2. Range(s) = Range(events) \cup {o}
    BY <1>11
  <2>3. events' = s \o made.events
    BY <1>1
  <2> HIDE DEF s
  <2>4. IsRun(s \o made.events) /\ Range(s \o made.events) = Range(s) \cup M
    BY <1>10, <2>1, JoinRuns
  <2> QED
    BY <2>2, <2>3, <2>4
<1>14. /\ labels' \in Seq(Range(labels')) /\ Len(labels') = n
       /\ \A k \in 1..injected : labels'[k] = labels[k]
       /\ labels'[n] = made.label
  <2> DEFINE X == Range(labels) \cup {made.label}
  <2>1. labels \in Seq(X)
    BY <1>3
  <2>2. /\ Len(labels') = injected + 1 /\ DOMAIN labels' = 1..(injected + 1)
        /\ \A k \in 1..injected : labels'[k] = labels[k]
        /\ labels'[injected + 1] = made.label /\ labels' \in Seq(X)
    BY <1>1, <1>3, <2>1
  <2>3. labels' \in [1..(injected + 1) -> Range(labels')]
    BY <2>2 DEF Range
  <2>4. injected + 1 \in Nat
    BY <1>3
  <2>5. labels' \in Seq(Range(labels'))
    BY <2>3, <2>4
  <2> QED
    BY <2>2, <2>5 DEF n
<1>15. StepPast = 200
  BY Millis DEF StepPast
<1>16. Adds(o, made.label, M)
  BY <1>1, <1>10, <1>13, <1>14, <1>15 DEF Adds, n
<1> QED
  BY <1>16

(* Such a turn keeps the invariant.                                         *)
LEMMA InjectInv ==
    ASSUME IInv, NEW o, OwnOrder(o, i, t),
           NEW abuser \in Abusers, NEW mid \in Mids, NEW draws \in Draws,
           InjectingTurn(o, abuser, mid, draws)
    PROVE  IInv'
<1>1. PICK l, M : Adds(o, l, M)
  BY InjectAdds
<1>2. i < NNormal /\ i \in injectAt
  BY DEF InjectingTurn
<1>3. NNormal \in Nat /\ AbuseCount \in Nat /\ Dt \in Nat
  BY EngineAssumption DEF EngineAssumption
<1>4. i \in Nat /\ t \in Nat /\ injected \in Nat
  BY <1>2, <1>3, CountTurns DEF IInv, Counts
<1>5. \A k \in 1..(injected + 1) : k \in 1..injected \/ k = injected + 1
  BY <1>4
<1>6. injected + 1 \in 1..(injected + 1) /\ \A k \in 1..injected : k \in 1..(injected + 1)
  BY <1>4
<1>7. Counts'
  <2>1. injected + 1 = Cardinality({k \in injectAt : k < i + 1})
    BY <1>2, <1>3, CountTurns DEF IInv
  <2>2. i + 1 \in 0..NNormal /\ t + Dt + 200 \in Nat
    BY <1>2, <1>3, <1>4
  <2> QED
    BY <1>1, <2>1, <2>2 DEF IInv, Counts, Adds
<1>8. EventsKnown'
  <2>1. Benign(o, i')
    BY <1>1 DEF OwnOrder, Adds
  <2>2. \A e : Benign(e, i) => Benign(e, i')
    BY <1>1, <1>4, BenignMore DEF Adds
  <2>3. ASSUME NEW e \in Range(events)
        PROVE  Benign(e, i') \/ \E k \in 1..(injected + 1) : OfScenario(e, k, labels'[k])
    <3>1. CASE Benign(e, i)
      BY <2>2, <3>1
    <3>2. CASE \E k \in 1..injected : OfScenario(e, k, labels[k])
      BY <1>1, <1>6, <3>2 DEF Adds
    <3> QED
      BY <3>1, <3>2 DEF IInv, EventsKnown
  <2>4. ASSUME NEW e \in M
        PROVE  \E k \in 1..(injected + 1) : OfScenario(e, k, labels'[k])
    BY <1>1, <1>6 DEF Adds
  <2> QED
    BY <1>1, <2>1, <2>3, <2>4 DEF EventsKnown, Adds
<1>9. LabelsHonest'
  <2> SUFFICES ASSUME NEW k \in 1..(injected + 1)
               PROVE  HonestLabel(labels'[k], k, Range(events'))
    BY <1>1 DEF LabelsHonest, Adds
  <2>1. CASE k \in 1..injected
    <3>1. HonestLabel(labels[k], k, Range(events))
      BY <2>1 DEF IInv, LabelsHonest
    <3>2. Range(events) \subseteq Range(events') /\ labels'[k] = labels[k]
      BY <1>1, <2>1 DEF Adds
    <3> QED
      BY <3>1, <3>2, HonestMore
  <2>2. CASE k = injected + 1
    <3>1. HonestLabel(l, k, M) /\ M \subseteq Range(events') /\ labels'[k] = l
      BY <1>1, <2>2 DEF Adds
    <3> QED
      BY <3>1, HonestMore
  <2> QED
    BY <1>5, <2>1, <2>2
<1> QED
  BY <1>7, <1>8, <1>9 DEF IInv

(* Sorting changes neither the events nor what is known of them.            *)
LEMMA FinishKeeps ==
    ASSUME IInv, Finish
    PROVE  /\ Range(events') = Range(events) /\ IsRun(events')
           /\ UNCHANGED <<i, t, injectAt, injected, labels>> /\ pc' = "returned"
<1>1. /\ events' = SortedByTime(events) /\ pc' = "returned"
      /\ UNCHANGED <<i, t, injectAt, injected, labels>>
  BY DEF Finish
<1>2. \A e \in Range(events) : e.t \in Nat
  BY DEF IInv, EventsKnown, Benign, OfScenario, Whole, Measured
<1>3. IsRun(events)
  BY DEF IInv, EventsKnown
<1>4. IsRun(SortedByTime(events)) /\ Range(SortedByTime(events)) = Range(events)
  BY <1>2, <1>3, SortedRun
<1> QED
  BY <1>1, <1>4

(* Sorting the events keeps the invariant: it speaks of no order.           *)
LEMMA FinishInv ==
    ASSUME IInv, Finish
    PROVE  IInv'
<1>1. /\ Range(events') = Range(events) /\ IsRun(events')
      /\ UNCHANGED <<i, t, injectAt, injected, labels>> /\ pc' = "returned"
  BY FinishKeeps
<1>2. Counts'
  BY <1>1 DEF IInv, Counts
<1>3. EventsKnown'
  BY <1>1 DEF IInv, EventsKnown
<1>4. LabelsHonest'
  BY <1>1 DEF IInv, LabelsHonest
<1> QED
  BY <1>2, <1>3, <1>4 DEF IInv

(* The steps of the loop, once for every proof about them.                  *)
LEMMA Steps ==
    ASSUME IInv, Next
    PROVE  \/ \E o : OwnOrder(o, i, t) /\ BenignTurn(o)
           \/ \E o : /\ OwnOrder(o, i, t)
                     /\ \E abuser \in Abusers, mid \in Mids, draws \in Draws :
                            InjectingTurn(o, abuser, mid, draws)
           \/ Finish
<1>1. SUFFICES ASSUME NEW who \in Normals, NEW mid \in Mids, NEW side \in BenignSides,
                      NEW qty \in BenignQty, NEW move \in BenignMoves,
                      Turn(BenignOrder(who, mid, side, qty, move))
               PROVE  \/ \E o : OwnOrder(o, i, t) /\ BenignTurn(o)
                      \/ \E o : /\ OwnOrder(o, i, t)
                                /\ \E abuser \in Abusers, m \in Mids, draws \in Draws :
                                       InjectingTurn(o, abuser, m, draws)
  BY DEF Next
<1>2. OwnOrder(BenignOrder(who, mid, side, qty, move), i, t)
  BY OrderBenign DEF IInv
<1> QED
  BY <1>1, <1>2 DEF Turn

(* No step breaks the invariant.                                            *)
LEMMA Step == IInv /\ [Next]_vars => IInv'
<1> SUFFICES ASSUME IInv, [Next]_vars PROVE IInv'
  OBVIOUS
<1>1. CASE UNCHANGED vars
  BY <1>1 DEF vars, IInv, Counts, EventsKnown, LabelsHonest
<1>2. CASE Next
  BY <1>2, Steps, BenignInv, InjectInv, FinishInv
<1> QED
  BY <1>1, <1>2

(* The invariant holds in every state of the loop and of the finished       *)
(* stream (generate_stream).                                                *)
THEOREM Invariant == Spec => []IInv
  BY InitInv, Step, PTL DEF Spec

-----------------------------------------------------------------------------
(* What the invariant says of the stream *)

(* The state stays well formed, and the turns that inject are counted       *)
(* right: as many labels as turns of inject_at have passed                  *)
(* (generate_stream).                                                       *)
THEOREM TypeCorrect == Spec => []TypeOK
<1>1. IInv => TypeOK
  <2> SUFFICES ASSUME IInv PROVE TypeOK
    OBVIOUS
  <2>1. \A k \in DOMAIN events : Whole(events[k])
    BY DEF IInv, EventsKnown, Benign, OfScenario, Range
  <2>2. \A k \in DOMAIN events : events[k].t \in Nat /\ events[k].qty \in Nat \ {0}
    BY <2>1 DEF Whole, Measured
  <2> QED
    BY <2>2 DEF IInv, Counts, TypeOK
<1> QED
  BY <1>1, Invariant, PTL

(* The rows of the stream: one of each event, whole, with times and prices. *)
LEMMA TableRows ==
    ASSUME IInv
    PROVE  /\ IsFiniteSet(Table) /\ AllMeasured(Table)
           /\ \A r \in Table : RequiredPresent(r) /\ r.event \in Range(events)
           /\ \A e \in Range(events) : \E r \in Table : r.event = e
           /\ \A q, r \in Table : DedupKey(q.event) = DedupKey(r.event) => q = r
<1> DEFINE n == Len(events)
           row == [k \in 1..n |-> Row(events[k], k)]
<1>1. IsRun(events) /\ n \in Nat /\ DOMAIN events = 1..n
  BY DEF IInv, EventsKnown, IsRun
<1>2. Table = {row[k] : k \in 1..n}
  BY <1>1 DEF Table
<1>3. \A k \in 1..n : row[k].event = events[k] /\ row[k].event \in Range(events)
  BY <1>1 DEF Row, Range
<1> HIDE DEF n, row
<1>4. IsFiniteSet(Table)
  <2>1. IsFiniteSet(1..n)
    BY <1>1, FS_Interval
  <2> QED
    BY <1>2, <2>1, FiniteImage
<1>5. \A e \in Range(events) : Whole(e)
  BY DEF IInv, EventsKnown, Benign, OfScenario
<1>6. \A r \in Table : r.event \in Range(events)
  BY <1>2, <1>3
<1>7. AllMeasured(Table) /\ \A r \in Table : RequiredPresent(r)
  BY <1>5, <1>6 DEF AllMeasured, Whole, RequiredPresent, Side, NoSide
<1>8. ASSUME NEW e \in Range(events) PROVE \E r \in Table : r.event = e
  <2>1. PICK k \in 1..n : e = events[k]
    BY <1>1 DEF Range
  <2> QED
    BY <1>2, <1>3, <2>1
<1>9. ASSUME NEW q \in Table, NEW r \in Table, DedupKey(q.event) = DedupKey(r.event)
      PROVE  q = r
  <2>1. PICK j \in 1..n : q = row[j]
    BY <1>2
  <2>2. PICK k \in 1..n : r = row[k]
    BY <1>2
  <2>3. DedupKey(events[j]) = DedupKey(events[k])
    BY <1>3, <1>9, <2>1, <2>2
  <2>4. j = k
    BY <1>1, <2>3 DEF IsRun, KeysApart
  <2> QED
    BY <2>1, <2>2, <2>4
<1> QED
  BY <1>4, <1>6, <1>7, <1>8, <1>9

(* Nothing of the stream is dropped.                                        *)
LEMMA SilverIsTheTable ==
    ASSUME IInv
    PROVE  to_silver(to_bronze(Table)) = Table
<1>1. /\ \A r \in Table : RequiredPresent(r)
      /\ \A q, r \in Table : DedupKey(q.event) = DedupKey(r.event) => q = r
  BY TableRows
<1>2. to_bronze(Table) = Table
  BY <1>1 DEF to_bronze
<1>3. /\ to_silver(Table) \subseteq Table
      /\ \A r \in Table : \E q \in to_silver(Table) :
              DedupKey(q.event) = DedupKey(r.event)
  BY SilverOneRowPerKey
<1>4. to_silver(Table) = Table
  BY <1>1, <1>3
<1> QED
  BY <1>2, <1>4

(* A generated stream passes through bronze and silver unharmed, whichever  *)
(* scenarios share its windows (engine.py, bronze.py:40, silver.py:35).     *)
THEOREM StreamIsClean == Spec => []DedupKeepsTheStream
<1>1. IInv => DedupKeepsTheStream
  BY SilverIsTheTable DEF DedupKeepsTheStream
<1> QED
  BY <1>1, Invariant, PTL

(* Labels and events of the invariant, as the properties speak of them.     *)
LEMMA LabelFacts ==
    ASSUME IInv, NEW label \in LabelSet
    PROVE  \E n \in 1..injected : label = labels[n] /\ HonestLabel(label, n, Range(events))
<1>1. injected \in Nat /\ DOMAIN labels = 1..injected
  BY DEF IInv, Counts
<1>2. PICK n \in 1..injected : label = labels[n]
  BY <1>1 DEF LabelSet
<1> QED
  BY <1>2 DEF IInv, LabelsHonest

(* The abuser's own events, by what they say and not by their place.        *)
LEMMA OwnFacts ==
    ASSUME IInv, NEW label
    PROVE  OwnEvents(label) = {e \in Range(events) :
                                  e.sid = label.sid /\ e.trader = label.trader}
BY DEF OwnEvents, Range

(* The events that carry a scenario's id are those of its label.            *)
LEMMA ScenarioOf ==
    ASSUME IInv, NEW e \in Range(events), NEW n \in 1..injected, e.sid = <<"abuse", n>>
    PROVE  OfScenario(e, n, labels[n])
<1>1. ~Benign(e, i)
  BY DEF Benign, NoSid
<1>2. PICK m \in 1..injected : OfScenario(e, m, labels[m])
  BY <1>1 DEF IInv, EventsKnown
<1>3. m = n
  BY <1>2 DEF OfScenario
<1> QED
  BY <1>2, <1>3

(* Every label tells the truth about its scenario, while the stream is made *)
(* and after it is sorted (ScenarioLabel, generate_stream).                 *)
THEOREM LabelsTellTheTruth == Spec => []LabelsTrue
<1>1. IInv => LabelsTrue
  <2> SUFFICES ASSUME IInv, NEW label \in LabelSet
               PROVE  /\ \A e \in OwnEvents(label) :
                            /\ e.symbol = label.symbol
                            /\ label.start <= e.t /\ e.t <= label.end
                      /\ label.ids \subseteq {e.id : e \in OwnEvents(label)}
    BY DEF LabelsTrue
  <2>1. PICK n \in 1..injected :
            label = labels[n] /\ HonestLabel(label, n, Range(events))
    BY LabelFacts
  <2>2. OwnEvents(label) = {e \in Range(events) :
                               e.sid = label.sid /\ e.trader = label.trader}
    BY OwnFacts
  <2>3. label.sid = <<"abuse", n>>
    BY <2>1 DEF HonestLabel
  <2>4. \A e \in OwnEvents(label) : OfScenario(e, n, label)
    BY <2>1, <2>2, <2>3, ScenarioOf
  <2>5. label.ids \subseteq {e.id : e \in OwnEvents(label)}
    BY <2>1, <2>2 DEF HonestLabel
  <2> QED
    BY <2>4, <2>5 DEF OfScenario
<1> QED
  BY <1>1, Invariant, PTL

(* Whatever scenarios share the windows of a trader, no gold row of the     *)
(* stream gets contradictory alerts, and round trips that alert are         *)
(* reportable (the detectors on what to_gold makes of generate_stream).     *)
THEOREM StreamAlertsConsistent == Spec => []AlertsConsistent
<1>1. IInv => AlertsConsistent
  <2> SUFFICES ASSUME IInv, NEW g \in Gold(Table)
               PROVE  OneRoundTripAlert(g) /\ OneIntentAlert(g) /\ RoundTripsReportable(g)
    BY DEF AlertsConsistent
  <2>1. IsGoldFeatures(g)
    BY TableRows, GoldIsWellFormed
  <2> QED
    BY <2>1, WashOrFront, SpoofingOrMomentum, RoundTripsSevere
<1> QED
  BY <1>1, Invariant, PTL

-----------------------------------------------------------------------------
(* Time passes *)

(* A scenario's events are no benign orders.                                *)
LEMMA ScenarioSid ==
    ASSUME NEW e, NEW n, NEW l, OfScenario(e, n, l)
    PROVE  e.sid # NoSid
BY DEF OfScenario, NoSid

(* A turn that injects nothing keeps to the timeline.                       *)
LEMMA BenignTimeline ==
    ASSUME Dt # 0, IInv, Timeline, NEW o, OwnOrder(o, i, t), BenignTurn(o)
    PROVE  Timeline'
<1>1. /\ events' = Append(events, o) /\ t' = t + Dt
      /\ injected' = injected /\ labels' = labels
  BY DEF BenignTurn
<1>2. Range(events') = Range(events) \cup {o}
  BY <1>1, OrderIsNew
<1>3. Dt \in Nat \ {0} /\ t \in Nat
  BY EngineAssumption DEF EngineAssumption, IInv, Counts
<1>4. \A e \in Range(events) : e.t \in Nat
  BY DEF IInv, EventsKnown, Benign, OfScenario, Whole, Measured
<1>5. \A n \in 1..injected : labels[n].start \in Nat /\ labels[n].end \in Nat
  BY DEF IInv, LabelsHonest, HonestLabel
<1>6. o.t = t
  BY DEF OwnOrder
<1>7. \A e \in Range(events') : e.sid = NoSid => e.t < t'
  BY <1>1, <1>2, <1>3, <1>4, <1>6 DEF Timeline
<1>8. ASSUME NEW n \in 1..injected
      PROVE  /\ labels[n].start < t'
             /\ Ends(labels[n]) =>
                   /\ labels[n].end < t'
                   /\ \A e \in Range(events') : e.sid = NoSid =>
                           ~(labels[n].start <= e.t /\ e.t <= labels[n].end)
  <2>1. labels[n].start < t /\ (Ends(labels[n]) => labels[n].end < t)
    BY DEF Timeline
  <2>2. labels[n].start \in Nat /\ labels[n].end \in Nat
    BY <1>5
  <2>3. labels[n].start < t' /\ (Ends(labels[n]) => labels[n].end < t')
    BY <1>1, <1>3, <2>1, <2>2
  <2>4. Ends(labels[n]) => ~(o.t <= labels[n].end)
    BY <1>3, <1>6, <2>1, <2>2
  <2>5. Ends(labels[n]) => \A e \in Range(events) : e.sid = NoSid =>
                           ~(labels[n].start <= e.t /\ e.t <= labels[n].end)
    BY DEF Timeline
  <2> QED
    BY <1>2, <2>3, <2>4, <2>5
<1>9. \A m, n \in 1..injected :
          m < n => /\ labels[m].start < labels[n].start
                   /\ Ends(labels[m]) => labels[m].end < labels[n].start
  BY DEF Timeline
<1> QED
  BY <1>1, <1>7, <1>8, <1>9 DEF Timeline

(* A turn that injects keeps to it: its order comes before the scenario,    *)
(* and the step past it is longer than any but marking the close.           *)
LEMMA InjectTimeline ==
    ASSUME Dt # 0, IInv, Timeline, NEW o, OwnOrder(o, i, t),
           NEW abuser \in Abusers, NEW mid \in Mids, NEW draws \in Draws,
           InjectingTurn(o, abuser, mid, draws)
    PROVE  Timeline'
<1>1. PICK l, M : Adds(o, l, M)
  BY InjectAdds
<1>2. /\ t' = t + Dt + 200 /\ injected' = injected + 1
      /\ Range(events') = Range(events) \cup {o} \cup M
      /\ \A n \in 1..injected : labels'[n] = labels[n]
      /\ labels'[injected + 1] = l
      /\ l.start = t + Dt /\ (Ends(l) => l.end < t + Dt + 200)
  BY <1>1 DEF Adds
<1>3. Dt \in Nat \ {0} /\ t \in Nat /\ injected \in Nat
  BY EngineAssumption, CountTurns DEF EngineAssumption, IInv, Counts
<1>4. \A e \in Range(events) : e.t \in Nat
  BY DEF IInv, EventsKnown, Benign, OfScenario, Whole, Measured
<1>5. \A n \in 1..injected : labels[n].start \in Nat /\ labels[n].end \in Nat
  BY DEF IInv, LabelsHonest, HonestLabel
<1>6. o.t = t /\ l.end \in Nat
  BY <1>1 DEF OwnOrder, Adds, HonestLabel
<1>7. \A e \in M : e.sid # NoSid
  BY <1>1, ScenarioSid DEF Adds
<1>8. \A e \in Range(events') : e.sid = NoSid => e \in Range(events) \/ e = o
  BY <1>2, <1>7
<1>9. \A e \in Range(events) : e.sid = NoSid => e.t < t
  BY DEF Timeline
<1>10. \A k \in 1..(injected + 1) : k \in 1..injected \/ k = injected + 1
  BY <1>3
<1>11. \A e \in Range(events') : e.sid = NoSid => e.t < t'
  BY <1>2, <1>3, <1>4, <1>6, <1>8, <1>9
<1>12. ASSUME NEW n \in 1..(injected + 1)
       PROVE  /\ labels'[n].start < t'
              /\ Ends(labels'[n]) =>
                    /\ labels'[n].end < t'
                    /\ \A e \in Range(events') : e.sid = NoSid =>
                            ~(labels'[n].start <= e.t /\ e.t <= labels'[n].end)
  <2>1. CASE n \in 1..injected
    <3>1. labels'[n] = labels[n] /\ labels[n].start < t
          /\ (Ends(labels[n]) => labels[n].end < t)
      BY <1>2, <2>1 DEF Timeline
    <3>2. labels[n].start \in Nat /\ labels[n].end \in Nat
      BY <1>5, <2>1
    <3>3. labels[n].start < t' /\ (Ends(labels[n]) => labels[n].end < t')
      BY <1>2, <1>3, <3>1, <3>2
    <3>4. Ends(labels[n]) => ~(o.t <= labels[n].end)
      BY <1>3, <1>6, <3>1, <3>2
    <3>5. Ends(labels[n]) => \A e \in Range(events) : e.sid = NoSid =>
                             ~(labels[n].start <= e.t /\ e.t <= labels[n].end)
      BY <2>1 DEF Timeline
    <3> QED
      BY <1>8, <3>1, <3>3, <3>4, <3>5
  <2>2. CASE n = injected + 1
    <3>1. l.start < t' /\ (Ends(l) => l.end < t')
      BY <1>2, <1>3, <1>6
    <3>2. ~(l.start <= o.t)
      BY <1>2, <1>3, <1>6
    <3>3. \A e \in Range(events) : e.sid = NoSid => ~(l.start <= e.t)
      BY <1>2, <1>3, <1>4, <1>9
    <3> QED
      BY <1>2, <1>8, <2>2, <3>1, <3>2, <3>3
  <2> QED
    BY <1>10, <2>1, <2>2
<1>13. ASSUME NEW m \in 1..(injected + 1), NEW n \in 1..(injected + 1), m < n
       PROVE  /\ labels'[m].start < labels'[n].start
              /\ Ends(labels'[m]) => labels'[m].end < labels'[n].start
  <2>0. m \in 1..injected
    BY <1>3, <1>13
  <2>1. CASE n \in 1..injected
    BY <1>2, <1>13, <2>0, <2>1 DEF Timeline
  <2>2. CASE n = injected + 1
    <3>1. labels'[m] = labels[m] /\ labels[m].start < t
          /\ (Ends(labels[m]) => labels[m].end < t)
      BY <1>2, <2>0 DEF Timeline
    <3>2. labels[m].start \in Nat /\ labels[m].end \in Nat
      BY <1>5, <2>0
    <3>3. labels[m].start < t + Dt /\ (Ends(labels[m]) => labels[m].end < t + Dt)
      BY <1>3, <3>1, <3>2
    <3> QED
      BY <1>2, <2>2, <3>1, <3>3
  <2> QED
    BY <1>10, <2>1, <2>2
<1> QED
  BY <1>2, <1>11, <1>12, <1>13 DEF Timeline

(* While benign orders take any time at all (dt_ms is not 0), scenarios     *)
(* follow one another and the loop steps past each but those that mark the  *)
(* close.                                                                   *)
LEMMA TimePasses ==
    ASSUME Dt # 0
    PROVE  Spec => []Timeline
<1>1. Init => Timeline
  BY DEF Init, Timeline, Range
<1>2. IInv /\ Timeline /\ [Next]_vars => Timeline'
  <2> SUFFICES ASSUME IInv, Timeline, [Next]_vars PROVE Timeline'
    OBVIOUS
  <2>1. CASE UNCHANGED vars
    BY <2>1 DEF vars, Timeline
  <2>2. CASE Finish
    <3>1. Range(events') = Range(events) /\ UNCHANGED <<t, injected, labels>>
      BY <2>2, FinishKeeps
    <3> QED
      BY <3>1 DEF Timeline
  <2>3. CASE Next /\ ~Finish
    BY <2>3, Steps, BenignTimeline, InjectTimeline
  <2> QED
    BY <2>1, <2>2, <2>3
<1> QED
  BY <1>1, <1>2, Invariant, PTL DEF Spec

(* The step takes the loop past the scenario, as the comment on it says,    *)
(* for every stream whose orders take time: no benign order falls into a    *)
(* labelled window and no two of them overlap, unless they mark the close   *)
(* (engine.py:73-74).                                                       *)
THEOREM LoopStepsPast ==
    ASSUME Dt # 0
    PROVE  Spec => []StepsPastScenario
<1>1. IInv /\ Timeline => StepsPastScenario
  <2> SUFFICES ASSUME IInv, Timeline, NEW label \in LabelSet,
                      label.type # "MARKING_THE_CLOSE"
               PROVE  /\ \A k \in DOMAIN events :
                            events[k].sid = NoSid =>
                              ~(label.start <= events[k].t /\ events[k].t <= label.end)
                      /\ \A other \in LabelSet :
                            other.start >= label.start /\ other # label
                                => other.start > label.end
    BY DEF StepsPastScenario
  <2>1. PICK n \in 1..injected :
            label = labels[n] /\ HonestLabel(label, n, Range(events))
    BY LabelFacts
  <2>2. Ends(labels[n])
    BY <2>1 DEF Ends
  <2>3. \A k \in DOMAIN events : events[k] \in Range(events)
    BY DEF Range
  <2>4. \A k \in DOMAIN events :
            events[k].sid = NoSid =>
              ~(label.start <= events[k].t /\ events[k].t <= label.end)
    BY <2>1, <2>2, <2>3 DEF Timeline
  <2>5. ASSUME NEW other \in LabelSet, other.start >= label.start, other # label
        PROVE  other.start > label.end
    <3>1. PICK m \in 1..injected :
              other = labels[m] /\ HonestLabel(other, m, Range(events))
      BY LabelFacts
    <3>2. /\ label.start \in Nat /\ label.end \in Nat
          /\ other.start \in Nat /\ other.end \in Nat
      BY <2>1, <3>1 DEF HonestLabel
    <3>3. ~(m < n)
      <4>1. m < n => other.start < label.start
        BY <2>1, <3>1 DEF Timeline
      <4> QED
        BY <2>5, <3>2, <4>1
    <3>4. m # n
      BY <2>1, <2>5, <3>1
    <3>5. n < m
      BY <3>3, <3>4
    <3>6. label.end < other.start
      BY <2>1, <2>2, <3>1, <3>5 DEF Timeline
    <3> QED
      BY <3>2, <3>6
  <2> QED
    BY <2>4, <2>5
<1> QED
  BY <1>1, Invariant, TimePasses, PTL

-----------------------------------------------------------------------------
(* The training labels *)

(* A later time is in no earlier window.                                    *)
LEMMA WindowsMonotone ==
    ASSUME NEW a \in Nat, NEW b \in Nat, a <= b, NEW w \in Nat \ {0}
    PROVE  a \div w \in Nat /\ b \div w \in Nat /\ a \div w <= b \div w
<1>1. /\ a \div w \in Nat /\ b \div w \in Nat
      /\ w * (a \div w) <= a /\ a < w * (a \div w + 1)
      /\ w * (b \div w) <= b /\ b < w * (b \div w + 1)
  OBVIOUS
<1> DEFINE p == a \div w
           q == b \div w
<1> HIDE DEF p, q
<1>2. p \in Nat /\ q \in Nat /\ w * p <= a /\ b < w * (q + 1)
  BY <1>1 DEF p, q
<1>3. ASSUME p > q PROVE FALSE
  <2>1. PICK d \in Nat : p = (q + 1) + d
    <3>1. p - (q + 1) \in Nat /\ p = (q + 1) + (p - (q + 1))
      BY <1>2, <1>3
    <3> QED
      BY <3>1
  <2>2. w * p = w * (q + 1) + w * d /\ w * d \in Nat /\ w * (q + 1) \in Nat /\ w * p \in Nat
    BY <1>2, <2>1
  <2> QED
    BY <1>2, <2>2
<1> QED
  BY <1>2, <1>3 DEF p, q

(* No more scenarios than were asked for.                                   *)
LEMMA InjectedBound ==
    ASSUME IInv
    PROVE  injected \in Nat /\ injected <= AbuseCount
<1> DEFINE A == {k \in injectAt : k < i}
<1>1. /\ injectAt \in SUBSET (0..(NNormal - 1)) /\ Cardinality(injectAt) <= AbuseCount
      /\ injected = Cardinality(A) /\ A \in SUBSET injectAt
  BY DEF IInv, Counts
<1>2. NNormal \in Nat /\ AbuseCount \in Nat
  BY EngineAssumption DEF EngineAssumption
<1>3. IsFiniteSet(injectAt)
  <2>1. IsFiniteSet(0..(NNormal - 1))
    BY <1>2, FS_Interval
  <2> QED
    BY <1>1, <2>1, FS_Subset
<1> HIDE DEF A
<1>4. IsFiniteSet(A) /\ Cardinality(A) <= Cardinality(injectAt)
  BY <1>1, <1>3, FS_Subset
<1>5. Cardinality(A) \in Nat /\ Cardinality(injectAt) \in Nat
  BY <1>3, <1>4, FS_CardinalityType
<1> QED
  BY <1>1, <1>2, <1>4, <1>5

(* The abuser of a scenario is told from its client.                        *)
LEMMA AbuserOf ==
    ASSUME IInv, NEW e \in Range(events), e.trader \in Abusers
    PROVE  \E n \in 1..injected : OfScenario(e, n, labels[n]) /\ e.trader = labels[n].trader
<1>1. ~Benign(e, i)
  BY EngineAssumption DEF EngineAssumption, Benign
<1>2. PICK n \in 1..injected : OfScenario(e, n, labels[n])
  BY <1>1 DEF IInv, EventsKnown
<1>3. n \in 1..AbuseCount
  BY InjectedBound, EngineAssumption DEF EngineAssumption
<1>4. e.trader # Client(<<"abuse", n>>)
  BY <1>3, EngineAssumption DEF EngineAssumption
<1> QED
  BY <1>2, <1>4 DEF OfScenario

(* The training labels are exact, however scenarios and windows overlap: a  *)
(* row is positive if and only if the abuser of some scenario did something *)
(* of it there (build_dataset on generate_stream).                          *)
THEOREM TrainingLabelsAreExact == Spec => []TrainingLabelsExact
<1>1. IInv => TrainingLabelsExact
  <2> SUFFICES ASSUME IInv, NEW key \in GoldKeys(Table)
               PROVE  y(LabelSet, key) = 1
                        <=> \E label \in LabelSet :
                                \E e \in OwnEvents(label) : KeyOf(e) = key
    BY DEF TrainingLabelsExact
  <2>0. WindowLen \in Nat \ {0}
    BY MedallionAssumption DEF MedallionAssumption
  <2>1. y(LabelSet, key) = 1 <=> key \in AbuseKeys(LabelSet)
    BY DEF y
  <2>2. ASSUME NEW label \in LabelSet, NEW e \in OwnEvents(label), KeyOf(e) = key
        PROVE  key \in AbuseKeys(LabelSet)
    <3>1. PICK n \in 1..injected :
              label = labels[n] /\ HonestLabel(label, n, Range(events))
      BY LabelFacts
    <3>2. e \in Range(events) /\ e.sid = label.sid /\ e.trader = label.trader
      BY OwnFacts
    <3>3. OfScenario(e, n, label)
      BY <3>1, <3>2, ScenarioOf DEF HonestLabel
    <3>4. /\ label.start \in Nat /\ label.end \in Nat /\ e.t \in Nat
          /\ label.start <= e.t /\ e.t <= label.end /\ e.symbol = label.symbol
      BY <3>1, <3>3 DEF HonestLabel, OfScenario, Whole, Measured
    <3> DEFINE lo == label.start \div WindowLen
               hi == label.end \div WindowLen
               k == e.t \div WindowLen
    <3>5. k \in lo..hi
      <4>1. lo \in Nat /\ k \in Nat /\ lo <= k
        BY <2>0, <3>4, WindowsMonotone
      <4>2. hi \in Nat /\ k <= hi
        BY <2>0, <3>4, WindowsMonotone
      <4> QED
        BY <4>1, <4>2
    <3>6. WindowStart(e.t) \in Windows(label)
      BY <3>5 DEF WindowStart, Windows
    <3>7. key = <<label.trader, label.symbol, WindowStart(e.t)>>
      BY <2>2, <3>2, <3>4 DEF KeyOf
    <3> QED
      BY <3>6, <3>7 DEF AbuseKeys
  <2>3. ASSUME key \in AbuseKeys(LabelSet)
        PROVE  \E label \in LabelSet : \E e \in OwnEvents(label) : KeyOf(e) = key
    <3>1. PICK label \in LabelSet : key[1] = label.trader
      BY <2>3 DEF AbuseKeys
    <3>2. label.trader \in Abusers
      BY LabelFacts DEF HonestLabel
    <3>3. PICK r \in Table : key = KeyOf(r.event)
      BY DEF GoldKeys
    <3>4. r.event \in Range(events)
      BY TableRows
    <3>5. r.event.trader \in Abusers
      BY <3>1, <3>2, <3>3 DEF KeyOf
    <3>6. PICK n \in 1..injected : /\ OfScenario(r.event, n, labels[n])
                                   /\ r.event.trader = labels[n].trader
      BY <3>4, <3>5, AbuserOf
    <3>7. labels[n] \in LabelSet /\ labels[n].sid = <<"abuse", n>>
      <4>1. DOMAIN labels = 1..injected
        BY DEF IInv, Counts
      <4>2. labels[n] \in LabelSet
        BY <4>1 DEF LabelSet
      <4>3. HonestLabel(labels[n], n, Range(events))
        BY DEF IInv, LabelsHonest
      <4> QED
        BY <4>2, <4>3 DEF HonestLabel
    <3>8. r.event \in OwnEvents(labels[n])
      BY <3>4, <3>6, <3>7, OwnFacts DEF OfScenario
    <3> QED
      BY <3>3, <3>7, <3>8
  <2> QED
    BY <2>1, <2>2, <2>3
<1> QED
  BY <1>1, Invariant, PTL

-----------------------------------------------------------------------------
(* The innocent *)

(* What whoever is no abuser does: benign orders if he is a normal trader,  *)
(* and nothing but to buy at the market or at mid if he is a client.        *)
LEMMA InnocentEvents ==
    ASSUME IInv, NEW e \in Range(events), e.trader \notin Abusers
    PROVE  /\ e.msg # "CANCEL"
           /\ e.trader \in Normals => e.msg = "NEW"
           /\ e.trader \notin Normals =>
                 e.side = "BUY" /\ e.price \in {NoPrice, e.symbol} /\ e.symbol \in Mids
<1>1. CASE Benign(e, i)
  BY <1>1 DEF Benign
<1>2. CASE \E n \in 1..injected : OfScenario(e, n, labels[n])
  <2>1. PICK n \in 1..injected : OfScenario(e, n, labels[n])
    BY <1>2
  <2>2. labels[n].trader \in Abusers /\ labels[n].symbol \in Mids
    BY DEF IInv, LabelsHonest, HonestLabel
  <2>3. e.trader = Client(<<"abuse", n>>) /\ e.symbol \in Mids
    BY <2>1, <2>2 DEF OfScenario
  <2>4. n \in 1..AbuseCount
    BY InjectedBound, EngineAssumption DEF EngineAssumption
  <2>5. e.trader \notin Normals
    BY <2>3, <2>4, EngineAssumption DEF EngineAssumption
  <2> QED
    BY <2>1, <2>3, <2>5 DEF OfScenario
<1> QED
  BY <1>1, <1>2 DEF IInv, EventsKnown

(* Whatever shares a window, and whenever it happens, only labelled abusers *)
(* are alerted: neither the background flow, however much of it there is,   *)
(* nor the clients whose orders are front-run (the five detectors on what   *)
(* to_gold makes of generate_stream).                                       *)
THEOREM InnocentsAreNotAlerted == Spec => []OnlyAbusersAlerted
<1>1. IInv => OnlyAbusersAlerted
  <2> SUFFICES ASSUME IInv, NEW d \in Detector, NEW g \in Gold(Table), fires(d, g)
               PROVE  g.trader \in Abusers
    BY DEF OnlyAbusersAlerted, Alerts
  <2> SUFFICES ASSUME g.trader \notin Abusers PROVE FALSE
    OBVIOUS
  <2>1. IsFiniteSet(Table) /\ AllMeasured(Table)
    BY TableRows
  <2>2. g \in to_gold(Table)
    BY SilverIsTheTable DEF Gold
  <2>3. PICK key \in GoldKeys(Table) : \E f, l : MadeOf(g, Table, key, f, l)
    BY <2>1, <2>2, GoldRowParts
  <2>4. PICK f, l : MadeOf(g, Table, key, f, l)
    BY <2>3
  <2> DEFINE rows == Group(Table, key)
  <2>5. IsGoldFeatures(g) /\ g.trader = key[1]
    BY <2>4 DEF WellFormed, MadeOf
  <2>6. /\ IsFiniteSet(rows) /\ rows # {}
        /\ f \in FirstPx(Priced(rows)) /\ l \in LastPx(Priced(rows))
        /\ g = Features(rows, key, f, l)
    BY <2>4 DEF MadeOf
  <2>7. ASSUME NEW r \in rows
        PROVE  /\ r.event \in Range(events)
               /\ r.event.trader = g.trader /\ r.event.symbol = key[2]
    <3>1. r.event \in Range(events)
      BY TableRows DEF Group
    <3>2. <<r.event.trader, r.event.symbol, WindowStart(r.event.t)>> = key
      BY DEF KeyOf, Group
    <3> QED
      BY <2>5, <3>1, <3>2
  <2> HIDE DEF rows
  <2>8. ASSUME NEW r \in rows
        PROVE  /\ r.event.msg # "CANCEL"
               /\ g.trader \in Normals => r.event.msg = "NEW"
               /\ g.trader \notin Normals =>
                     /\ r.event.side = "BUY" /\ r.event.price \in {NoPrice, key[2]}
                     /\ key[2] \in Mids
    BY <2>7, InnocentEvents
  <2>9. CASE g.trader \in Normals
    BY <2>5, <2>6, <2>8, <2>9, OrdersOnlyAreQuiet
  <2>10. CASE g.trader \notin Normals
    <3>1. key[2] \in Mids
      BY <2>6, <2>8, <2>10
    <3>2. key[2] \in Nat \ {0}
      <4>1. \A m \in Mids : m \in Nat \ (0..5)
        BY EngineAssumption DEF EngineAssumption
      <4>2. \A m \in Nat \ (0..5) : m \in Nat \ {0}
        OBVIOUS
      <4> QED
        BY <3>1, <4>1, <4>2
    <3> DEFINE px == key[2]
    <3> HIDE DEF px
    <3>3. /\ px \in Nat \ {0}
          /\ \A r \in rows : /\ r.event.side = "BUY" /\ r.event.msg # "CANCEL"
                             /\ r.event.price \in {NoPrice, px}
      BY <2>8, <2>10, <3>2 DEF px
    <3> QED
      BY <2>5, <2>6, <3>2, <3>3, BuyingIsQuiet DEF px
  <2> QED
    BY <2>9, <2>10
<1> QED
  BY <1>1, Invariant, PTL

-----------------------------------------------------------------------------
(* Training and serving *)

(* Rows of whole events.                                                    *)
WholeRows(rows) == IsFiniteSet(rows) /\ \A r \in rows : Whole(r.event)

(* Whole events are bought or sold.                                         *)
LEMMA SidesOf ==
    ASSUME NEW rows, WholeRows(rows)
    PROVE  is_buy(rows) = OnSide(rows, "BUY") /\ rows \ is_buy(rows) = OnSide(rows, "SELL")
BY DEF is_buy, OnSide, WholeRows, Whole, Side

(* Fills on a side have a volume and a turnover exactly if there are any.   *)
LEMMA FillsCount ==
    ASSUME NEW rows, WholeRows(rows), \A r \in rows : r.event.msg = "EXEC"
    PROVE  /\ LastQty(rows) \in Nat /\ Notional(rows) \in Nat
           /\ LastQty(rows) = 0 <=> rows = {}
           /\ Notional(rows) = 0 <=> rows = {}
<1> DEFINE v == [r \in rows |-> r.event.lastQty]
           w == [r \in rows |-> r.event.lastQty * r.event.lastPx]
<1>1. ASSUME NEW r \in rows
      PROVE  v[r] \in Nat \ {0} /\ w[r] \in Nat \ {0}
  <2>1. r.event.lastQty \in Nat \ {0} /\ r.event.lastPx \in Nat \ {0}
    BY DEF WholeRows, Whole, Measured
  <2>2. \A a, b \in Nat \ {0} : a * b \in Nat \ {0}
    OBVIOUS
  <2> QED
    BY <2>1, <2>2
<1>2. /\ LastQty(rows) = SumFunctionOnSet(v, rows)
      /\ Notional(rows) = SumFunctionOnSet(w, rows)
  BY DEF LastQty, Notional, SumFunction
<1> HIDE DEF v, w
<1>3. IsFiniteSet(rows)
  BY DEF WholeRows
<1>4. /\ SumFunctionOnSet(v, rows) \in Nat
      /\ \A r \in rows : v[r] <= SumFunctionOnSet(v, rows)
  BY <1>1, <1>3, SumNat
<1>5. /\ SumFunctionOnSet(w, rows) \in Nat
      /\ \A r \in rows : w[r] <= SumFunctionOnSet(w, rows)
  BY <1>1, <1>3, SumNat
<1>6. CASE rows = {}
  BY <1>2, <1>6, SumEmpty
<1>7. CASE rows # {}
  <2>1. PICK r \in rows : TRUE
    BY <1>7
  <2> QED
    BY <1>1, <1>2, <1>4, <1>5, <1>7, <2>1
<1> QED
  BY <1>6, <1>7

(* Over fills the two ways to ask whether there is a round trip agree.      *)
LEMMA GainsAgree ==
    ASSUME NEW execs, WholeRows(execs), \A r \in execs : r.event.msg = "EXEC"
    PROVE  VwapGain(execs) = RoundTripGain(execs)
<1> DEFINE be == OnSide(execs, "BUY")
           se == OnSide(execs, "SELL")
<1>1. is_buy(execs) = be /\ execs \ is_buy(execs) = se
  BY SidesOf
<1>2. /\ Volume(execs, "BUY") = LastQty(be) /\ Turnover(execs, "BUY") = Notional(be)
      /\ Volume(execs, "SELL") = LastQty(se) /\ Turnover(execs, "SELL") = Notional(se)
  BY DEF Volume, Turnover, LastQty, Notional
<1>3. /\ WholeRows(be) /\ \A r \in be : r.event.msg = "EXEC"
      /\ WholeRows(se) /\ \A r \in se : r.event.msg = "EXEC"
  <2>1. be \in SUBSET execs /\ se \in SUBSET execs
    BY DEF OnSide
  <2> HIDE DEF be, se
  <2> QED
    BY <2>1, FS_Subset DEF WholeRows
<1> HIDE DEF be, se
<1>4. /\ LastQty(be) \in Nat /\ Notional(be) \in Nat
      /\ Notional(be) = 0 <=> be = {}
  BY <1>3, FillsCount
<1>5. /\ LastQty(se) \in Nat /\ Notional(se) \in Nat
      /\ LastQty(se) = 0 <=> se = {}
      /\ Notional(se) = 0 <=> se = {}
  BY <1>3, FillsCount
<1> DEFINE paid == Notional(be) * LastQty(se)
           received == Notional(se) * LastQty(be)
<1>6. VwapGain(execs) = IF Notional(be) > 0 /\ Notional(se) > 0
                        THEN Bps(received - paid, paid) ELSE 0
  BY <1>1 DEF VwapGain
<1>7. RoundTripGain(execs) = IF paid = 0 THEN 0 ELSE Bps(received - paid, paid)
  BY <1>2 DEF RoundTripGain
<1>8. paid = 0 <=> ~(Notional(be) > 0 /\ Notional(se) > 0)
  <2>1. \A a, b \in Nat : a * b = 0 <=> a = 0 \/ b = 0
    OBVIOUS
  <2>2. paid = 0 <=> Notional(be) = 0 \/ LastQty(se) = 0
    BY <1>4, <1>5, <2>1
  <2> QED
    BY <1>4, <1>5, <2>2
<1> HIDE DEF paid, received
<1> QED
  BY <1>6, <1>7, <1>8

(* So do the ways to find the prices that come first and last: a minimum,   *)
(* and what a sort puts in front.                                           *)
LEMMA EdgesAgree ==
    ASSUME NEW px, IsFiniteSet(px), px # {}, \A r \in px : Measured(r.event)
    PROVE  Foremost(px) = FirstPx(px) /\ Hindmost(px) = LastPx(px)
<1> DEFINE at == [r \in px |-> r.event.t]
           T == {at[r] : r \in px}
<1>1. T \in SUBSET Int /\ T # {} /\ T = {r.event.t : r \in px}
  BY DEF Measured
<1>2. IsFiniteSet(T)
  BY FiniteImage
<1>3. \A r \in px : r.event.t \in Nat /\ r.event.t \in T
  BY DEF Measured
<1>4. \A x \in T : \E r \in px : x = r.event.t
  OBVIOUS
<1> HIDE DEF T, at
<1>5. /\ Max(T) \in T /\ \A x \in T : Max(T) >= x
      /\ Min(T) \in T /\ \A x \in T : Min(T) <= x
  BY <1>1, <1>2, MaxMinIn
<1>6. Min(T) \in Int /\ Max(T) \in Int
  BY <1>1, <1>5
<1>7. {p \in px : \A q \in px : p.event.t <= q.event.t} = {q \in px : q.event.t = Min(T)}
  <2>1. ASSUME NEW p \in px
        PROVE  (\A q \in px : p.event.t <= q.event.t) <=> p.event.t = Min(T)
    <3>1. ASSUME \A q \in px : p.event.t <= q.event.t
          PROVE  p.event.t = Min(T)
      <4>1. PICK q \in px : Min(T) = q.event.t
        BY <1>4, <1>5
      <4>2. p.event.t <= Min(T) /\ Min(T) <= p.event.t
        BY <1>3, <1>5, <3>1, <4>1
      <4> QED
        BY <1>3, <1>6, <4>2
    <3>2. ASSUME p.event.t = Min(T)
          PROVE  \A q \in px : p.event.t <= q.event.t
      BY <1>3, <1>5, <3>2
    <3> QED
      BY <3>1, <3>2
  <2> QED
    BY <2>1
<1>8. {p \in px : \A q \in px : q.event.t <= p.event.t} = {q \in px : q.event.t = Max(T)}
  <2>1. ASSUME NEW p \in px
        PROVE  (\A q \in px : q.event.t <= p.event.t) <=> p.event.t = Max(T)
    <3>1. ASSUME \A q \in px : q.event.t <= p.event.t
          PROVE  p.event.t = Max(T)
      <4>1. PICK q \in px : Max(T) = q.event.t
        BY <1>4, <1>5
      <4>2. Max(T) <= p.event.t /\ p.event.t <= Max(T)
        BY <1>3, <1>5, <3>1, <4>1
      <4> QED
        BY <1>3, <1>6, <4>2
    <3>2. ASSUME p.event.t = Max(T)
          PROVE  \A q \in px : q.event.t <= p.event.t
      BY <1>3, <1>5, <1>6, <3>2
    <3> QED
      BY <3>1, <3>2
  <2> QED
    BY <2>1
<1>9. FirstPx(px) = PxAt(px, Min(T)) /\ LastPx(px) = PxAt(px, Max(T))
  BY <1>1 DEF FirstPx, LastPx
<1> QED
  BY <1>7, <1>8, <1>9 DEF Foremost, Hindmost, PxAt

(* The features of some rows are the same by either formula.                *)
LEMMA FeaturesAgree ==
    ASSUME NEW rows, WholeRows(rows), NEW key, NEW f, NEW l
    PROVE  Restrict(Features(rows, key, f, l), FEATURES) = TrainingRow(rows, f, l)
<1> DEFINE new == Kind(rows, "NEW")
           execs == Kind(rows, "EXEC")
           n == Cardinality(new)
           c == Cardinality(Kind(rows, "CANCEL"))
           x == Cardinality(execs)
           qty(s) == SumFunction([r \in s |-> r.event.qty])
           b == qty(OnSide(new, "BUY"))
           s == qty(OnSide(new, "SELL"))
           d == Cardinality({r.event.price : r \in rows} \ {NoPrice})
           m == IF f > 0 THEN Bps(l - f, f) ELSE 0
           gain == RoundTripGain(Filled(execs))
           left == Min({TimeToClose(r.event.t) : r \in rows})
           common == [nOrders |-> n, nCancels |-> c, nExecs |-> x,
                      buyQty |-> b, sellQty |-> s, distinctPrices |-> d,
                      cancelRatio |-> (c * Scale) \div most(n, 1),
                      orderToTradeRatio |-> (n * Scale) \div most(x, 1),
                      qtyImbalance |-> ((b - s) * Scale) \div most(b + s, 1),
                      priceMoveBps |-> m, roundTripGainBps |-> gain,
                      secsToClose |-> left]
<1>1. \A k : Kind(rows, k) \in SUBSET rows
  BY DEF Kind
<1>2. \A k : WholeRows(Kind(rows, k))
  BY <1>1, FS_Subset DEF WholeRows
<1>3. is_buy(new) = OnSide(new, "BUY") /\ new \ is_buy(new) = OnSide(new, "SELL")
  BY <1>2, SidesOf
<1>4. VwapGain(execs) = gain
  <2>1. \A r \in execs : r.event.msg = "EXEC"
    BY DEF Kind
  <2>2. Filled(execs) = execs
    BY <1>2, <2>1 DEF Filled, WholeRows, Whole, NoPrice
  <2> QED
    BY <1>2, <2>1, <2>2, GainsAgree
<1>5. {r.event.price : r \in priced(rows)} = {r.event.price : r \in rows} \ {NoPrice}
  BY DEF priced
<1>6. TrainingRow(rows, f, l) = common
  BY <1>3, <1>4, <1>5 DEF TrainingRow, Kind
<1>7. Restrict(Features(rows, key, f, l), FEATURES) = common
  <2> DEFINE g == Features(rows, key, f, l)
  <2>1. /\ g.nOrders = n /\ g.nCancels = c /\ g.nExecs = x
        /\ g.buyQty = b /\ g.sellQty = s /\ g.distinctPrices = d
        /\ g.cancelRatio = (c * Scale) \div most(n, 1)
        /\ g.orderToTradeRatio = (n * Scale) \div most(x, 1)
        /\ g.qtyImbalance = ((b - s) * Scale) \div most(b + s, 1)
        /\ g.priceMoveBps = m /\ g.roundTripGainBps = gain /\ g.secsToClose = left
    BY DEF Features, Kind
  <2> HIDE DEF g, n, c, x, b, s, d, m, gain, left
  <2>2. Restrict(g, FEATURES) = [k \in FEATURES |-> g[k]]
    BY DEF Restrict
  <2>3. DOMAIN common = FEATURES /\ \A k \in FEATURES : common[k] = g[k]
    BY <2>1 DEF FEATURES
  <2>4. common = [k \in DOMAIN common |-> common[k]]
    OBVIOUS
  <2> HIDE DEF common
  <2> QED
    BY <2>2, <2>3, <2>4 DEF g
<1> QED
  BY <1>6, <1>7

(* The two implementations of gold agree, whatever the stream and whatever  *)
(* ties the sorts break: bronze and silver drop nothing of it, first and    *)
(* last mean the same of a minimum and of a sort, a side that is not bought *)
(* is sold, and a window without a volume has no turnover either            *)
(* (ml/dataset.py:4-5).                                                     *)
THEOREM ServedAsTrained == Spec => []TrainingMatchesServing
<1>1. ASSUME IInv, NEW key \in GoldKeys(Table)
      PROVE  {Restrict(g, FEATURES) : g \in GoldRows(Table, key)}
                = gold_features(DataFrame(events), key)
  <2> DEFINE rows == Group(Table, key)
             px == Priced(rows)
  <2>1. DataFrame(events) = Table
    BY DEF DataFrame, Table
  <2>2. WholeRows(rows) /\ \A r \in px : Measured(r.event)
    <3>1. \A r \in Table : Whole(r.event)
      BY <1>1, TableRows DEF IInv, EventsKnown, Benign, OfScenario
    <3>2. rows \in SUBSET Table /\ px \in SUBSET rows
      BY DEF Group, Priced
    <3>3. IsFiniteSet(rows)
      BY <1>1, <3>2, TableRows, FS_Subset
    <3> QED
      BY <3>1, <3>2, <3>3 DEF WholeRows, Whole
  <2>3. IsFiniteSet(px)
    <3>1. px \in SUBSET rows
      BY DEF Priced
    <3> QED
      BY <2>2, <3>1, FS_Subset DEF WholeRows
  <2>4. GoldRows(Table, key)
          = {Features(rows, key, f, l) : f \in FirstPx(px), l \in LastPx(px)}
    BY DEF GoldRows, Group, Priced
  <2>5. gold_features(Table, key)
          = IF px = {} THEN {TrainingRow(rows, 0, 0)}
            ELSE {TrainingRow(rows, f, l) : f \in Foremost(px), l \in Hindmost(px)}
    BY DEF gold_features, Group, Priced, priced
  <2>6. px # {} => Foremost(px) = FirstPx(px) /\ Hindmost(px) = LastPx(px)
    BY <2>2, <2>3, EdgesAgree
  <2>7. px = {} => FirstPx(px) = {0} /\ LastPx(px) = {0}
    BY DEF FirstPx, LastPx
  <2>8. \A f, l : Restrict(Features(rows, key, f, l), FEATURES) = TrainingRow(rows, f, l)
    BY <2>2, FeaturesAgree
  <2> HIDE DEF rows, px
  <2>9. {Restrict(g, FEATURES) : g \in GoldRows(Table, key)}
          = {TrainingRow(rows, f, l) : f \in FirstPx(px), l \in LastPx(px)}
    BY <2>4, <2>8
  <2> QED
    BY <2>1, <2>5, <2>6, <2>7, <2>9
<1>2. IInv => TrainingMatchesServing
  BY <1>1, SilverIsTheTable DEF TrainingMatchesServing
<1> QED
  BY <1>2, Invariant, PTL

===============================================================================
