--------------------------- MODULE ConformalProofs ---------------------------
(***************************************************************************)
(* What score's set says, for every probability and every qhat: the part   *)
(* of the scorer's promises that does not depend on how qhat came about.   *)
(***************************************************************************)
EXTENDS Conformal, DataLemmas, SequenceTheorems

(* When a class is in the set, in integers.                                 *)
LEMMA InSet ==
    ASSUME NEW p1 \in 0..Unit, NEW q \in Int
    PROVE  /\ 1 \in cset(p1, q) <=> p1 >= Unit - q
           /\ 0 \in cset(p1, q) <=> Unit - p1 >= Unit - q
           /\ cset(p1, q) \subseteq {0, 1}
BY DEF cset

(* A window that skips human review has exactly one class in its set, and   *)
(* it is strictly the likelier one; a window at even odds never skips it    *)
(* (score's needs_human, scorer.py:75-81).                                  *)
THEOREM OneAnswerIsTheLikelier ==
    ASSUME NEW p1 \in 0..Unit, NEW q \in Int, ~needs_human(cset(p1, q))
    PROVE  \/ cset(p1, q) = {1} /\ 2 * p1 > Unit
           \/ cset(p1, q) = {0} /\ 2 * p1 < Unit
<1> DEFINE S == cset(p1, q)
<1>1. S = {0} \/ S = {1}
  BY InSet DEF needs_human
<1>2. /\ 1 \in S <=> p1 >= Unit - q
      /\ 0 \in S <=> Unit - p1 >= Unit - q
  BY InSet
<1> HIDE DEF S
<1>u. Unit \in Nat
  BY ConformalAssumption
<1>3. CASE S = {1}
  <2>1. p1 >= Unit - q /\ ~(Unit - p1 >= Unit - q)
    BY <1>2, <1>3
  <2>2. 2 * p1 > Unit
    BY <1>u, <2>1
  <2> QED
    BY <1>3, <2>2 DEF S
<1>4. CASE S = {0}
  <2>1. ~(p1 >= Unit - q) /\ Unit - p1 >= Unit - q
    BY <1>2, <1>4
  <2>2. 2 * p1 < Unit
    BY <1>u, <2>1
  <2> QED
    BY <1>4, <2>2 DEF S
<1> QED
  BY <1>1, <1>3, <1>4

(* Of two windows under one qhat the more probable one keeps "abuse" if the *)
(* other has it and loses "no abuse" if the other has lost it; and a larger *)
(* qhat only ever adds classes (scorer.py:73-75).                           *)
THEOREM SetsAreMonotone ==
    ASSUME NEW p \in 0..Unit, NEW p1 \in 0..Unit, p <= p1,
           NEW q \in Int, NEW q1 \in Int, q <= q1
    PROVE  /\ 1 \in cset(p, q) => 1 \in cset(p1, q)
           /\ 0 \in cset(p1, q) => 0 \in cset(p, q)
           /\ cset(p, q) \subseteq cset(p, q1)
<1>u. Unit \in Nat
  BY ConformalAssumption
<1>1. \A x \in 0..Unit, z \in Int :
        /\ 1 \in cset(x, z) <=> x >= Unit - z
        /\ 0 \in cset(x, z) <=> Unit - x >= Unit - z
        /\ cset(x, z) \subseteq {0, 1}
  BY InSet
<1>2. 1 \in cset(p, q) => 1 \in cset(p1, q)
  BY <1>u, <1>1
<1>3. 0 \in cset(p1, q) => 0 \in cset(p, q)
  BY <1>u, <1>1
<1>4. \A c \in {0, 1} : c \in cset(p, q) => c \in cset(p, q1)
  BY <1>u, <1>1
<1> QED
  BY <1>1, <1>2, <1>3, <1>4

-----------------------------------------------------------------------------
(* Quotients *)

(* A factor keeps the order.                                                *)
LEMMA NotSmaller ==
    ASSUME NEW c \in Nat, NEW a \in Int, NEW b \in Int, a <= b
    PROVE  c * a <= c * b
OBVIOUS

(* A quotient of a number of whole parts is no more than their number.      *)
LEMMA QuotientBounds ==
    ASSUME NEW a \in Nat, NEW n \in Nat \ {0}, NEW u \in Nat, a <= n * u
    PROVE  a \div n \in 0..u
<1> DEFINE q == a \div n
<1>1. q \in Nat /\ n * q <= a
  OBVIOUS
<1>2. ASSUME q >= u + 1 PROVE FALSE
  <2> HIDE DEF q
  <2>1. n * (u + 1) <= n * q
    BY <1>1, <1>2, NotSmaller
  <2>2. n * (u + 1) = n * u + n
    OBVIOUS
  <2> QED
    BY <1>1, <2>1, <2>2
<1> QED
  BY <1>1, <1>2

(* A quotient does not shrink when the dividend grows.                      *)
LEMMA QuotientMonotone ==
    ASSUME NEW a \in Nat, NEW b \in Nat, a <= b, NEW n \in Nat \ {0}
    PROVE  a \div n <= b \div n
<1> DEFINE p == a \div n
           q == b \div n
<1>1. p \in Nat /\ n * p <= a
  OBVIOUS
<1>2. q \in Nat /\ b < n * q + n
  <2>1. b = n * q + (b % n) /\ b % n < n /\ q \in Nat
    OBVIOUS
  <2> HIDE DEF q
  <2> QED
    BY <2>1
<1> HIDE DEF p, q
<1>3. ASSUME p >= q + 1 PROVE FALSE
  <2>1. n * (q + 1) <= n * p
    BY <1>1, <1>2, <1>3, NotSmaller
  <2>2. n * (q + 1) = n * q + n
    BY <1>2
  <2>3. n * p \in Nat /\ n * q \in Nat
    BY <1>1, <1>2
  <2> QED
    BY <1>1, <1>2, <2>1, <2>2, <2>3
<1>4. p <= q
  BY <1>1, <1>2, <1>3
<1> QED
  BY <1>4 DEF p, q

-----------------------------------------------------------------------------
(* The calibrator *)

Held == [raw : Raw, y : {0, 1}]

(* The raw scores of some held-out rows.                                    *)
LEMMA RawScores ==
    ASSUME NEW rows \in Seq(Held), rows # <<>>
    PROVE  /\ Len(rows) \in Nat \ {0} /\ DOMAIN rows = 1..Len(rows)
           /\ IsFiniteSet(DOMAIN rows) /\ Cardinality(DOMAIN rows) = Len(rows)
           /\ \A k \in DOMAIN rows : rows[k].raw \in Nat /\ rows[k].y \in {0, 1}
           /\ RawsOf(rows) \subseteq Nat /\ RawsOf(rows) # {}
           /\ IsFiniteSet(RawsOf(rows))
<1>1. Len(rows) \in Nat \ {0} /\ DOMAIN rows = 1..Len(rows)
  OBVIOUS
<1>2. IsFiniteSet(DOMAIN rows) /\ Cardinality(DOMAIN rows) = Len(rows)
  BY <1>1, FS_Interval
<1>3. ASSUME NEW k \in DOMAIN rows
      PROVE  rows[k].raw \in Nat /\ rows[k].y \in {0, 1}
  <2>1. rows[k] \in Held
    BY <1>1
  <2> QED
    BY <2>1 DEF Held, Raw
<1>4. RawsOf(rows) \subseteq Nat /\ RawsOf(rows) # {}
  BY <1>1, <1>3 DEF RawsOf
<1>5. IsFiniteSet(RawsOf(rows))
  <2> DEFINE b == [k \in DOMAIN rows |-> rows[k].raw]
  <2>1. RawsOf(rows) = {b[k] : k \in DOMAIN rows}
    BY DEF RawsOf
  <2> HIDE DEF b
  <2> QED
    BY <1>2, <2>1, FiniteImage
<1> QED
  BY <1>1, <1>2, <1>3, <1>4, <1>5

(* The mean label of a range with at least one row is a probability.        *)
LEMMA MeanLabelType ==
    ASSUME NEW rows \in Seq(Held), rows # <<>>,
           NEW lo \in Nat, NEW hi \in Nat,
           NEW r \in RawsOf(rows), lo <= r, r <= hi
    PROVE  MeanLabel(rows, lo, hi) \in 0..Unit
<1> DEFINE among == {k \in DOMAIN rows : rows[k].raw \in lo..hi}
           ones  == {k \in among : rows[k].y = 1}
<1>1. IsFiniteSet(DOMAIN rows) /\ r \in Nat
  BY RawScores
<1>2. IsFiniteSet(among) /\ among # {}
  <2>1. IsFiniteSet(among)
    BY <1>1, FS_Subset
  <2>2. PICK k \in DOMAIN rows : rows[k].raw = r
    BY DEF RawsOf
  <2>3. k \in among
    BY <1>1, <2>2
  <2> QED
    BY <2>1, <2>3
<1>3. MeanLabel(rows, lo, hi) = (Unit * Cardinality(ones)) \div Cardinality(among)
  BY DEF MeanLabel
<1>4. ones \in SUBSET among
  OBVIOUS
<1> HIDE DEF among, ones
<1>5. /\ Cardinality(ones) \in Nat /\ Cardinality(among) \in Nat \ {0}
      /\ Cardinality(ones) <= Cardinality(among)
  BY <1>2, <1>4, FS_Subset, FS_CardinalityType, FS_EmptySet
<1>6. Unit \in Nat
  BY ConformalAssumption DEF ConformalAssumption
<1>7. Unit * Cardinality(ones) <= Unit * Cardinality(among)
  BY <1>5, <1>6, NotSmaller
<1>8. /\ Unit * Cardinality(ones) \in Nat
      /\ Unit * Cardinality(ones) <= Cardinality(among) * Unit
  BY <1>5, <1>6, <1>7
<1>9. (Unit * Cardinality(ones)) \div Cardinality(among) \in 0..Unit
  BY <1>5, <1>6, <1>8, QuotientBounds
<1> QED
  BY <1>3, <1>9

Above(rows, x) == {r \in RawsOf(rows) : r >= x}
Below(rows, x) == {r \in RawsOf(rows) : r <= x}

(* The least mean from lo to a point at or above x.                         *)
Inner(rows, x, lo) == Min({MeanLabel(rows, lo, hi) : hi \in Above(rows, x)})

(* The least of the means of the blocks from lo that take x in is one of    *)
(* them.                                                                    *)
LEMMA InnerIsLeast ==
    ASSUME NEW rows \in Seq(Held), rows # <<>>,
           NEW x \in RawsOf(rows), NEW lo \in Below(rows, x)
    PROVE  /\ \E hi \in Above(rows, x) : Inner(rows, x, lo) = MeanLabel(rows, lo, hi)
           /\ \A hi \in Above(rows, x) : Inner(rows, x, lo) <= MeanLabel(rows, lo, hi)
           /\ \A hi \in Above(rows, x) : MeanLabel(rows, lo, hi) \in 0..Unit
           /\ Inner(rows, x, lo) \in 0..Unit
<1> DEFINE b == [hi \in Above(rows, x) |-> MeanLabel(rows, lo, hi)]
           T == {b[hi] : hi \in Above(rows, x)}
<1>1. /\ RawsOf(rows) \subseteq Nat /\ IsFiniteSet(RawsOf(rows))
      /\ x \in Nat /\ lo \in Nat /\ lo <= x /\ lo \in RawsOf(rows)
  BY RawScores DEF Below
<1>2. \A hi \in Above(rows, x) : MeanLabel(rows, lo, hi) \in 0..Unit
  <2> SUFFICES ASSUME NEW hi \in Above(rows, x)
               PROVE  MeanLabel(rows, lo, hi) \in 0..Unit
    OBVIOUS
  <2>1. hi \in Nat /\ x <= hi
    BY <1>1 DEF Above
  <2> QED
    BY <1>1, <2>1, MeanLabelType
<1>3. x \in Above(rows, x) /\ IsFiniteSet(Above(rows, x))
  BY <1>1, FS_Subset DEF Above
<1>4. T \in SUBSET Int /\ IsFiniteSet(T) /\ T # {}
  <2>1. T \in SUBSET Int /\ T # {}
    BY <1>2, <1>3
  <2> HIDE DEF b
  <2>2. IsFiniteSet(T)
    BY <1>3, FiniteImage
  <2> QED
    BY <2>1, <2>2
<1>5. T = {MeanLabel(rows, lo, hi) : hi \in Above(rows, x)}
  OBVIOUS
<1> HIDE DEF T
<1>6. Min(T) \in T /\ \A v \in T : Min(T) <= v
  BY <1>4, MaxMinIn
<1>7. Inner(rows, x, lo) = Min(T)
  BY <1>5 DEF Inner
<1> QED
  BY <1>2, <1>5, <1>6, <1>7

(* The fitted value at a held-out raw score is the greatest such mean.      *)
LEMMA PooledIsGreatest ==
    ASSUME NEW rows \in Seq(Held), rows # <<>>, NEW x \in RawsOf(rows)
    PROVE  /\ \E lo \in Below(rows, x) : PooledAt(rows, x) = Inner(rows, x, lo)
           /\ \A lo \in Below(rows, x) : Inner(rows, x, lo) <= PooledAt(rows, x)
           /\ PooledAt(rows, x) \in 0..Unit
<1> DEFINE b == [lo \in Below(rows, x) |-> Inner(rows, x, lo)]
           T == {b[lo] : lo \in Below(rows, x)}
<1>1. \A lo \in Below(rows, x) : Inner(rows, x, lo) \in 0..Unit
  BY InnerIsLeast
<1>2. x \in Below(rows, x) /\ IsFiniteSet(Below(rows, x))
  BY RawScores, FS_Subset DEF Below
<1>3. T \in SUBSET Int /\ IsFiniteSet(T) /\ T # {}
  <2>1. T \in SUBSET Int /\ T # {}
    BY <1>1, <1>2
  <2> HIDE DEF b
  <2>2. IsFiniteSet(T)
    BY <1>2, FiniteImage
  <2> QED
    BY <2>1, <2>2
<1>4. T = {Inner(rows, x, lo) : lo \in Below(rows, x)}
  OBVIOUS
<1> HIDE DEF T
<1>5. Max(T) \in T /\ \A v \in T : Max(T) >= v
  BY <1>3, MaxMinIn
<1>6. PooledAt(rows, x) = Max(T)
  BY <1>4 DEF PooledAt, Inner, Above, Below
<1>7. \A v \in T : v \in 0..Unit
  BY <1>1, <1>4
<1>8. Unit \in Nat
  BY ConformalAssumption DEF ConformalAssumption
<1>9. \A v \in T : v <= Max(T)
  BY <1>5, <1>7, <1>8
<1> QED
  BY <1>4, <1>5, <1>6, <1>7, <1>9

(* The fitted values do not fall as the raw score rises.                    *)
THEOREM PooledMonotone ==
    ASSUME NEW rows \in Seq(Held), rows # <<>>,
           NEW x \in RawsOf(rows), NEW z \in RawsOf(rows), x <= z
    PROVE  PooledAt(rows, x) <= PooledAt(rows, z)
<1>0. RawsOf(rows) \subseteq Nat
  BY RawScores
<1>1. PICK lo \in Below(rows, x) : PooledAt(rows, x) = Inner(rows, x, lo)
  BY PooledIsGreatest
<1>2. lo \in Below(rows, z) /\ Above(rows, z) \subseteq Above(rows, x)
  BY <1>0 DEF Below, Above
<1>3. PICK hi \in Above(rows, z) : Inner(rows, z, lo) = MeanLabel(rows, lo, hi)
  BY <1>2, InnerIsLeast
<1>4. Inner(rows, x, lo) <= MeanLabel(rows, lo, hi)
  BY <1>1, <1>2, <1>3, InnerIsLeast
<1>5. Inner(rows, z, lo) <= PooledAt(rows, z)
  BY <1>2, PooledIsGreatest
<1>6. /\ Inner(rows, z, lo) \in Int /\ PooledAt(rows, z) \in Int
      /\ PooledAt(rows, x) \in Int
  <2>1. Inner(rows, z, lo) \in 0..Unit
    BY <1>2, InnerIsLeast
  <2>2. PooledAt(rows, z) \in 0..Unit /\ PooledAt(rows, x) \in 0..Unit
    BY PooledIsGreatest
  <2> QED
    BY <2>1, <2>2
<1> QED
  BY <1>1, <1>3, <1>4, <1>5, <1>6

(* Between two held-out raw scores the calibrator is a straight line.       *)
Rise(rows, x, lo, hi) ==
    ((PooledAt(rows, hi) - PooledAt(rows, lo)) * (x - lo)) \div (hi - lo)

(* The held-out raw scores on either side of one, and what predict makes of *)
(* them.                                                                    *)
LEMMA PredictCases ==
    ASSUME NEW rows \in Seq(Held), rows # <<>>, NEW x \in Nat
    PROVE  LET below == Below(rows, x)
               above == Above(rows, x)
               lo    == Max(below)
               hi    == Min(above)
           IN  /\ below # {} \/ above # {}
               /\ below # {} => lo \in below /\ \A r \in below : r <= lo
               /\ above # {} => hi \in above /\ \A r \in above : hi <= r
               /\ below = {} => predict(rows, x) = PooledAt(rows, hi)
               /\ below # {} /\ (above = {} \/ x \in below) =>
                    predict(rows, x) = PooledAt(rows, lo)
               /\ below # {} /\ above # {} /\ x \notin below =>
                    predict(rows, x) = PooledAt(rows, lo) + Rise(rows, x, lo, hi)
<1> DEFINE below == Below(rows, x)
           above == Above(rows, x)
<1>1. RawsOf(rows) \subseteq Nat /\ IsFiniteSet(RawsOf(rows)) /\ RawsOf(rows) # {}
  BY RawScores
<1>2. below \in SUBSET RawsOf(rows) /\ above \in SUBSET RawsOf(rows)
  BY DEF Below, Above
<1>3. below # {} \/ above # {}
  BY <1>1 DEF Below, Above
<1>4. /\ IsFiniteSet(below) /\ IsFiniteSet(above)
      /\ below \in SUBSET Int /\ above \in SUBSET Int
  BY <1>1, <1>2, FS_Subset
<1>5. predict(rows, x) =
        IF below = {} THEN PooledAt(rows, Min(above))
        ELSE IF above = {} \/ x \in below THEN PooledAt(rows, Max(below))
        ELSE PooledAt(rows, Max(below)) + Rise(rows, x, Max(below), Min(above))
  BY Zenon DEF predict, Below, Above, Rise
<1> HIDE DEF below, above
<1>6. below # {} => Max(below) \in below /\ \A r \in below : r <= Max(below)
  <2>1. below # {} => Max(below) \in below /\ \A r \in below : Max(below) >= r
    BY <1>4, MaxMinIn
  <2> QED
    BY <1>4, <2>1
<1>7. above # {} => Min(above) \in above /\ \A r \in above : Min(above) <= r
  BY <1>4, MaxMinIn
<1> QED
  BY <1>3, <1>5, <1>6, <1>7 DEF below, above

(* The line stays between its ends and does not fall.                       *)
LEMMA RiseBounds ==
    ASSUME NEW rows \in Seq(Held), rows # <<>>,
           NEW lo \in RawsOf(rows), NEW hi \in RawsOf(rows),
           NEW x \in Nat, NEW z \in Nat, lo <= x, x <= z, z <= hi, lo < hi
    PROVE  /\ Rise(rows, x, lo, hi) \in 0..(PooledAt(rows, hi) - PooledAt(rows, lo))
           /\ Rise(rows, x, lo, hi) <= Rise(rows, z, lo, hi)
<1> DEFINE d == PooledAt(rows, hi) - PooledAt(rows, lo)
<1>0. lo \in Nat /\ hi \in Nat
  BY RawScores
<1>1. d \in Nat
  <2>1. PooledAt(rows, lo) \in 0..Unit /\ PooledAt(rows, hi) \in 0..Unit
    BY PooledIsGreatest
  <2>2. PooledAt(rows, lo) <= PooledAt(rows, hi)
    BY <1>0, PooledMonotone
  <2> QED
    BY <2>1, <2>2
<1>2. /\ Rise(rows, x, lo, hi) = (d * (x - lo)) \div (hi - lo)
      /\ Rise(rows, z, lo, hi) = (d * (z - lo)) \div (hi - lo)
  BY DEF Rise
<1> HIDE DEF d
<1>3. /\ x - lo \in Nat /\ z - lo \in Nat /\ hi - lo \in Nat \ {0}
      /\ x - lo <= z - lo /\ x - lo <= hi - lo
  BY <1>0
<1>4. d * (x - lo) <= d * (z - lo) /\ d * (x - lo) <= d * (hi - lo)
  BY <1>1, <1>3, NotSmaller
<1>5. d * (x - lo) \in Nat /\ d * (z - lo) \in Nat /\ d * (hi - lo) = (hi - lo) * d
  BY <1>1, <1>3
<1>6. (d * (x - lo)) \div (hi - lo) \in 0..d
  BY <1>1, <1>3, <1>4, <1>5, QuotientBounds
<1>7. (d * (x - lo)) \div (hi - lo) <= (d * (z - lo)) \div (hi - lo)
  BY <1>3, <1>4, <1>5, QuotientMonotone
<1> QED
  BY <1>2, <1>6, <1>7 DEF d

(* predict is a probability, and it lies between the fitted values of the   *)
(* held-out raw scores on either side.                                      *)
LEMMA PredictBounds ==
    ASSUME NEW rows \in Seq(Held), rows # <<>>, NEW x \in Nat
    PROVE  /\ predict(rows, x) \in 0..Unit
           /\ \A r \in RawsOf(rows) : x <= r => predict(rows, x) <= PooledAt(rows, r)
           /\ \A r \in RawsOf(rows) : r <= x => PooledAt(rows, r) <= predict(rows, x)
<1> DEFINE below == Below(rows, x)
           above == Above(rows, x)
           lo    == Max(below)
           hi    == Min(above)
<1>0. RawsOf(rows) \subseteq Nat
  BY RawScores
<1>1. /\ \A r \in RawsOf(rows) : r \in below <=> r <= x
      /\ \A r \in RawsOf(rows) : r \in above <=> x <= r
      /\ below \subseteq RawsOf(rows) /\ above \subseteq RawsOf(rows)
  BY <1>0 DEF Below, Above
<1>2. /\ below # {} \/ above # {}
      /\ below # {} => lo \in below /\ \A r \in below : r <= lo
      /\ above # {} => hi \in above /\ \A r \in above : hi <= r
      /\ below = {} => predict(rows, x) = PooledAt(rows, hi)
      /\ below # {} /\ (above = {} \/ x \in below) =>
           predict(rows, x) = PooledAt(rows, lo)
      /\ below # {} /\ above # {} /\ x \notin below =>
           predict(rows, x) = PooledAt(rows, lo) + Rise(rows, x, lo, hi)
  BY PredictCases
<1>3. \A r \in RawsOf(rows) : PooledAt(rows, r) \in 0..Unit
  BY PooledIsGreatest
<1>4. \A r, u \in RawsOf(rows) : r <= u => PooledAt(rows, r) <= PooledAt(rows, u)
  BY PooledMonotone
<1>u. Unit \in Nat
  BY ConformalAssumption DEF ConformalAssumption
<1> HIDE DEF below, above, lo, hi
<1>5. CASE below = {}
  BY <1>1, <1>2, <1>3, <1>4, <1>5
<1>6. CASE below # {} /\ (above = {} \/ x \in below)
  <2>1. lo \in RawsOf(rows) /\ lo <= x /\ predict(rows, x) = PooledAt(rows, lo)
    BY <1>1, <1>2, <1>6
  <2>2. \A r \in RawsOf(rows) : x <= r => lo <= r
    BY <1>0, <2>1
  <2>3. \A r \in RawsOf(rows) : r <= x => r <= lo
    BY <1>1, <1>2, <1>6
  <2> QED
    BY <1>3, <1>4, <2>1, <2>2, <2>3
<1>7. CASE below # {} /\ above # {} /\ x \notin below
  <2>1. /\ lo \in RawsOf(rows) /\ hi \in RawsOf(rows) /\ lo <= x /\ x <= hi
        /\ predict(rows, x) = PooledAt(rows, lo) + Rise(rows, x, lo, hi)
        /\ \A r \in RawsOf(rows) : x <= r => hi <= r
        /\ \A r \in RawsOf(rows) : r <= x => r <= lo
    BY <1>1, <1>2, <1>7
  <2>2. lo < hi
    <3>1. lo # x
      BY <1>2, <1>7
    <3> QED
      BY <1>0, <2>1, <3>1
  <2>3. Rise(rows, x, lo, hi) \in 0..(PooledAt(rows, hi) - PooledAt(rows, lo))
    BY <1>0, <2>1, <2>2, RiseBounds
  <2>4. PooledAt(rows, lo) \in 0..Unit /\ PooledAt(rows, hi) \in 0..Unit
    BY <1>3, <2>1
  <2>5. /\ predict(rows, x) \in 0..Unit
        /\ PooledAt(rows, lo) <= predict(rows, x)
        /\ predict(rows, x) <= PooledAt(rows, hi)
    BY <1>u, <2>1, <2>3, <2>4
  <2>6. ASSUME NEW r \in RawsOf(rows), x <= r
        PROVE  predict(rows, x) <= PooledAt(rows, r)
    <3>1. PooledAt(rows, hi) <= PooledAt(rows, r) /\ PooledAt(rows, r) \in 0..Unit
      BY <1>3, <1>4, <2>1, <2>6
    <3> QED
      BY <2>4, <2>5, <3>1
  <2>7. ASSUME NEW r \in RawsOf(rows), r <= x
        PROVE  PooledAt(rows, r) <= predict(rows, x)
    <3>1. PooledAt(rows, r) <= PooledAt(rows, lo) /\ PooledAt(rows, r) \in 0..Unit
      BY <1>3, <1>4, <2>1, <2>7
    <3> QED
      BY <2>4, <2>5, <3>1
  <2> QED
    BY <2>5, <2>6, <2>7
<1> QED
  BY <1>2, <1>5, <1>6, <1>7

(* A more suspicious raw score is never calibrated to a lower probability,  *)
(* whatever rows the calibrator was fitted on: within a pool, between two   *)
(* fitted points or outside all of them (IsotonicRegression).               *)
THEOREM PredictMonotone ==
    ASSUME NEW rows \in Seq(Held), rows # <<>>,
           NEW x \in Nat, NEW z \in Nat, x <= z
    PROVE  predict(rows, x) <= predict(rows, z)
<1>0. RawsOf(rows) \subseteq Nat
  BY RawScores
<1>1. CASE \E r \in RawsOf(rows) : x <= r /\ r <= z
  <2>1. PICK r \in RawsOf(rows) : x <= r /\ r <= z
    BY <1>1
  <2>2. predict(rows, x) <= PooledAt(rows, r) /\ PooledAt(rows, r) <= predict(rows, z)
    BY <2>1, PredictBounds
  <2>3. predict(rows, x) \in 0..Unit /\ predict(rows, z) \in 0..Unit
    BY PredictBounds
  <2>4. PooledAt(rows, r) \in 0..Unit
    BY PooledIsGreatest
  <2> QED
    BY <2>2, <2>3, <2>4
<1>2. CASE ~\E r \in RawsOf(rows) : x <= r /\ r <= z
  <2> DEFINE below == Below(rows, x)
             above == Above(rows, x)
             lo    == Max(below)
             hi    == Min(above)
  <2>1. Below(rows, z) = below /\ Above(rows, z) = above
    BY <1>0, <1>2 DEF Below, Above
  <2>2. x \notin below /\ z \notin below
    BY <1>0, <1>2 DEF Below
  <2>3. /\ below # {} \/ above # {}
        /\ below # {} => lo \in below
        /\ above # {} => hi \in above
        /\ below = {} => predict(rows, x) = PooledAt(rows, hi)
        /\ below # {} /\ (above = {} \/ x \in below) =>
             predict(rows, x) = PooledAt(rows, lo)
        /\ below # {} /\ above # {} /\ x \notin below =>
             predict(rows, x) = PooledAt(rows, lo) + Rise(rows, x, lo, hi)
    BY PredictCases
  <2>4. /\ below = {} => predict(rows, z) = PooledAt(rows, hi)
        /\ below # {} /\ (above = {} \/ z \in below) =>
             predict(rows, z) = PooledAt(rows, lo)
        /\ below # {} /\ above # {} /\ z \notin below =>
             predict(rows, z) = PooledAt(rows, lo) + Rise(rows, z, lo, hi)
    <3> HIDE DEF below, above
    <3> QED
      BY <2>1, PredictCases
  <2>5. predict(rows, x) \in 0..Unit /\ predict(rows, z) \in 0..Unit
    BY PredictBounds
  <2>6. /\ \A r \in below : r \in RawsOf(rows) /\ r < x
        /\ \A r \in above : r \in RawsOf(rows) /\ z < r
    <3>1. \A r \in above : r \in RawsOf(rows) /\ x <= r
      BY DEF Above
    <3>2. \A r \in below : r \in RawsOf(rows) /\ r <= x
      BY DEF Below
    <3> HIDE DEF below, above
    <3> QED
      BY <1>0, <1>2, <2>2, <3>1, <3>2
  <2> HIDE DEF below, above, lo, hi
  <2>7. CASE below = {} \/ above = {}
    <3>1. predict(rows, x) = predict(rows, z)
      BY <2>3, <2>4, <2>7
    <3> QED
      BY <2>5, <3>1
  <2>8. CASE below # {} /\ above # {}
    <3>1. lo \in RawsOf(rows) /\ hi \in RawsOf(rows) /\ lo < x /\ z < hi
      BY <2>3, <2>6, <2>8
    <3>2. lo \in Nat /\ hi \in Nat /\ lo <= x /\ z <= hi /\ lo < hi
      BY <1>0, <3>1
    <3>3. Rise(rows, x, lo, hi) <= Rise(rows, z, lo, hi)
      BY <3>1, <3>2, RiseBounds
    <3>4. /\ Rise(rows, x, lo, hi) \in Int /\ Rise(rows, z, lo, hi) \in Int
          /\ PooledAt(rows, lo) \in Int
      <4>1. PooledAt(rows, lo) \in 0..Unit /\ PooledAt(rows, hi) \in 0..Unit
        BY <3>1, PooledIsGreatest
      <4>2. /\ Rise(rows, x, lo, hi) \in 0..(PooledAt(rows, hi) - PooledAt(rows, lo))
            /\ Rise(rows, z, lo, hi) \in 0..(PooledAt(rows, hi) - PooledAt(rows, lo))
        <5>1. lo <= z /\ x <= hi
          BY <3>2
        <5> QED
          BY <3>1, <3>2, <5>1, RiseBounds
      <4> QED
        BY <4>1, <4>2
    <3> QED
      BY <2>2, <2>3, <2>4, <2>8, <3>3, <3>4
  <2> QED
    BY <2>7, <2>8
<1> QED
  BY <1>1, <1>2

-----------------------------------------------------------------------------
(* The quantile *)

(* The rank of train_scorer.                                                *)
LEMMA RankType ==
    ASSUME NEW n \in Nat \ {0}, NEW a \in 1..99
    PROVE  /\ Rank(n, a) \in Nat \ {0}
           /\ (100 - a) * (n + 1) <= 100 * Rank(n, a)
<1> DEFINE m == (n + 1) * (100 - a)
<1>1. m \in Nat /\ m >= 2 /\ m = (100 - a) * (n + 1)
  <2>1. 100 - a \in Nat /\ 1 <= 100 - a /\ n + 1 \in Nat
    OBVIOUS
  <2>2. (n + 1) * 1 <= (n + 1) * (100 - a)
    BY <2>1, NotSmaller
  <2> QED
    BY <2>1, <2>2
<1>2. Rank(n, a) = (m + 99) \div 100
  BY DEF Rank
<1> HIDE DEF m
<1> QED
  BY <1>1, <1>2

(* The place of the quantile is one of the n, and not before the rank.      *)
LEMMA PlaceType ==
    ASSUME NEW n \in Nat \ {0}, NEW a \in 1..99
    PROVE  /\ Place(n, a) \in 0..(n - 1)
           /\ Min({Rank(n, a), n}) <= Place(n, a) + 1
           /\ Min({Rank(n, a), n}) \in 1..n
           /\ Min({Rank(n, a), n}) = Rank(n, a) \/ Min({Rank(n, a), n}) = n
<1> DEFINE k == Min({Rank(n, a), n})
           b == (n - 1) * k + n - 1
           p == b \div n
<1>1. k \in 1..n /\ (k = Rank(n, a) \/ k = n)
  <2>1. Rank(n, a) \in Nat \ {0}
    BY RankType
  <2> DEFINE S == {Rank(n, a), n}
  <2>2. S \in SUBSET Int /\ S # {} /\ n \in S /\ IsFiniteSet(S)
    <3>1. S = {n} \cup {Rank(n, a)}
      OBVIOUS
    <3>2. IsFiniteSet({n})
      BY FS_Singleton
    <3>3. IsFiniteSet(S)
      BY <3>1, <3>2, FS_AddElement
    <3> QED
      BY <2>1, <3>3
  <2>3. Min(S) \in S /\ Min(S) <= n
    <3> HIDE DEF S
    <3> QED
      BY <2>2, MaxMinIn
  <2> QED
    BY <2>1, <2>3
<1>2. Place(n, a) = p
  BY DEF Place
<1> HIDE DEF k
<1>3. (n - 1) * k = n * k - k
  BY <1>1
<1>4. (n - 1) * k <= (n - 1) * n
  <2>1. n - 1 \in Nat /\ k \in Int /\ k <= n
    BY <1>1
  <2> QED
    BY <2>1, NotSmaller
<1>5. b \in Nat /\ n * (k - 1) <= b /\ b < n * n
  <2>1. n * (k - 1) = n * k - n /\ n * k \in Nat /\ n * n \in Nat
        /\ (n - 1) * n = n * n - n
    BY <1>1
  <2>2. (n - 1) * k \in Nat
    <3>1. n - 1 \in Nat /\ k \in Nat
      BY <1>1
    <3> QED
      BY <3>1
  <2> HIDE DEF b
  <2>3. b = (n - 1) * k + n - 1
    BY DEF b
  <2> QED
    BY <1>1, <1>3, <1>4, <2>1, <2>2, <2>3
<1> HIDE DEF b
<1>6. /\ p \in Nat /\ n * p <= b /\ b < n * p + n
  <2>1. b = n * p + (b % n) /\ b % n \in 0..(n - 1) /\ p \in Nat
    BY <1>5
  <2> HIDE DEF p
  <2> QED
    BY <1>5, <2>1
<1> HIDE DEF p
<1>7. p <= n - 1
  <2>1. ASSUME p >= n PROVE FALSE
    <3>1. n * n <= n * p
      BY <1>6, <2>1, NotSmaller
    <3> QED
      BY <1>5, <1>6, <3>1
  <2> QED
    BY <1>6, <2>1
<1>8. k - 1 <= p
  <2>1. ASSUME p + 1 <= k - 1 PROVE FALSE
    <3>1. n * (p + 1) <= n * (k - 1)
      BY <1>1, <1>6, <2>1, NotSmaller
    <3>2. n * (p + 1) = n * p + n
      BY <1>6
    <3>3. n * p \in Nat /\ n * (k - 1) \in Int
      BY <1>1, <1>6
    <3> QED
      BY <1>5, <1>6, <3>1, <3>2, <3>3
  <2> QED
    BY <1>1, <1>6, <2>1
<1> QED
  BY <1>1, <1>2, <1>6, <1>7, <1>8 DEF k

UpTo(scores, v)  == {j \in DOMAIN scores : scores[j] <= v}
Before(scores, v) == {j \in DOMAIN scores : scores[j] < v}

(* The score at a place: more than so many scores do not exceed it, and no  *)
(* more than so many are less.                                              *)
LEMMA AtPlaceIs ==
    ASSUME NEW scores \in Seq(Int), NEW place \in Nat, place < Len(scores)
    PROVE  /\ AtPlace(scores, place) \in Range(scores)
           /\ Cardinality(UpTo(scores, AtPlace(scores, place))) > place
           /\ Cardinality(Before(scores, AtPlace(scores, place))) <= place
<1> DEFINE n == Len(scores)
           V == {v \in Range(scores) : Cardinality(UpTo(scores, v)) > place}
           q == AtPlace(scores, place)
<1>1. /\ DOMAIN scores = 1..n /\ n \in Nat /\ \A j \in DOMAIN scores : scores[j] \in Int
      /\ Range(scores) = {scores[j] : j \in DOMAIN scores}
  BY DEF Range
<1>2. IsFiniteSet(DOMAIN scores) /\ Cardinality(DOMAIN scores) = n
  <2>1. DOMAIN scores = 1..n /\ n \in Nat
    BY <1>1
  <2> HIDE DEF n
  <2>2. 1 \in Int /\ n \in Int /\ (IF 1 > n THEN 0 ELSE n - 1 + 1) = n
    BY <2>1
  <2>3. IsFiniteSet(1..n) /\ Cardinality(1..n) = n
    BY <2>2, FS_Interval
  <2> QED
    BY <2>1, <2>3
<1>3. Range(scores) \in SUBSET Int /\ IsFiniteSet(Range(scores))
  BY <1>1, <1>2, FiniteImage
<1>4. V # {}
  <2>1. Range(scores) # {}
    <3>1. 1 \in DOMAIN scores
      BY <1>1
    <3> QED
      BY <1>1, <3>1
  <2>2. PICK m \in Range(scores) : \A v \in Range(scores) : m >= v
    BY <1>3, <2>1, MaxMinIn
  <2>3. UpTo(scores, m) = DOMAIN scores
    BY <1>1, <2>2 DEF UpTo
  <2>4. Cardinality(UpTo(scores, m)) > place
    BY <1>2, <2>3
  <2> QED
    BY <2>2, <2>4
<1>5. V \in SUBSET Int /\ IsFiniteSet(V)
  BY <1>3, FS_Subset
<1>6. q = Min(V)
  BY DEF AtPlace, UpTo
<1> HIDE DEF q
<1>7. q \in V /\ \A v \in V : q <= v
  <2> HIDE DEF V
  <2> QED
    BY <1>4, <1>5, <1>6, MaxMinIn
<1>8. Cardinality(Before(scores, q)) <= place
  <2>0. IsFiniteSet(Before(scores, q)) /\ Cardinality(Before(scores, q)) \in Nat
    BY <1>2, FS_Subset, FS_CardinalityType DEF Before
  <2>1. CASE Before(scores, q) = {}
    BY <2>1, FS_EmptySet
  <2>2. CASE Before(scores, q) # {}
    <3> DEFINE W == {scores[j] : j \in Before(scores, q)}
    <3>1. W \in SUBSET Int /\ W # {} /\ IsFiniteSet(W)
      <4>1. W \in SUBSET Int
        BY <1>1 DEF Before
      <4>2. IsFiniteSet(W)
        BY <2>0, FiniteImage
      <4> QED
        BY <2>2, <4>1, <4>2
    <3> HIDE DEF W
    <3>2. PICK m \in W : \A v \in W : m >= v
      BY <3>1, MaxMinIn
    <3>3. m \in Range(scores) /\ m < q
      BY <1>1, <3>2 DEF W, Before
    <3>4. Before(scores, q) \in SUBSET UpTo(scores, m)
      <4> SUFFICES ASSUME NEW j \in Before(scores, q) PROVE j \in UpTo(scores, m)
        OBVIOUS
      <4>1. j \in DOMAIN scores /\ scores[j] \in W /\ scores[j] \in Int
        BY <1>1 DEF W, Before
      <4>2. scores[j] <= m
        BY <3>1, <3>2, <4>1
      <4> QED
        BY <4>1, <4>2 DEF UpTo
    <3>5. IsFiniteSet(UpTo(scores, m)) /\ Cardinality(UpTo(scores, m)) \in Nat
      BY <1>2, FS_Subset, FS_CardinalityType DEF UpTo
    <3>6. Cardinality(Before(scores, q)) <= Cardinality(UpTo(scores, m))
      BY <3>4, <3>5, FS_Subset
    <3>7. ~(Cardinality(UpTo(scores, m)) > place)
      BY <1>3, <1>7, <3>3
    <3> QED
      BY <2>0, <3>5, <3>6, <3>7
  <2> QED
    BY <2>1, <2>2
<1> QED
  BY <1>7, <1>8 DEF q

(* The quantile of some scores is one of them, and at least as many of them *)
(* as the rank asks do not exceed it, or all if there are fewer.            *)
LEMMA QuantileReaches ==
    ASSUME NEW scores \in Seq(Int), scores # <<>>, NEW a \in 1..99
    PROVE  /\ Quantile(scores, a) \in Range(scores)
           /\ Cardinality(UpTo(scores, Quantile(scores, a)))
                >= Min({Rank(Len(scores), a), Len(scores)})
<1> DEFINE n == Len(scores)
           m == Min({Rank(n, a), n})
           q == Quantile(scores, a)
<1>1. n \in Nat \ {0} /\ DOMAIN scores = 1..n
  OBVIOUS
<1> HIDE DEF n
<1>2. Place(n, a) \in 0..(n - 1) /\ m <= Place(n, a) + 1 /\ m \in 1..n
  BY <1>1, PlaceType
<1>3. q = AtPlace(scores, Place(n, a))
  BY DEF Quantile, n
<1>4. Place(n, a) \in Nat /\ Place(n, a) < Len(scores)
  BY <1>1, <1>2 DEF n
<1> HIDE DEF q, m
<1>5. q \in Range(scores) /\ Cardinality(UpTo(scores, q)) > Place(n, a)
  BY <1>3, <1>4, AtPlaceIs
<1>6. Cardinality(UpTo(scores, q)) \in Nat
  <2>1. IsFiniteSet(DOMAIN scores)
    BY <1>1, FS_Interval
  <2> QED
    BY <2>1, FS_Subset, FS_CardinalityType DEF UpTo
<1>7. Cardinality(UpTo(scores, q)) >= m
  BY <1>2, <1>4, <1>5, <1>6
<1> QED
  BY <1>5, <1>7 DEF q, m, n

(* The scores without one of them.                                          *)
LEMMA OthersAre ==
    ASSUME NEW scores \in Seq(Int), NEW k \in DOMAIN scores
    PROVE  /\ Others(scores, k) \in Seq(Int)
           /\ Len(Others(scores, k)) = Len(scores) - 1
           /\ \A j \in 1..(Len(scores) - 1) :
                 Others(scores, k)[j] = scores[IF j < k THEN j ELSE j + 1]
<1>1. k \in 1..Len(scores) /\ Len(scores) \in Nat
  OBVIOUS
<1> DEFINE front == SubSeq(scores, 1, k - 1)
           back == SubSeq(scores, k + 1, Len(scores))
<1>2. /\ front \in Seq(Int) /\ Len(front) = k - 1
      /\ \A j \in 1..(k - 1) : front[j] = scores[j]
  BY <1>1
<1>3. /\ back \in Seq(Int) /\ Len(back) = Len(scores) - k
      /\ \A j \in 1..(Len(scores) - k) : back[j] = scores[k + j]
  BY <1>1
<1>4. Others(scores, k) = front \o back
  BY DEF Others, RemoveAt
<1> HIDE DEF front, back
<1>5. front \o back \in Seq(Int) /\ Len(front \o back) = Len(scores) - 1
  BY <1>1, <1>2, <1>3
<1>6. ASSUME NEW j \in 1..(Len(scores) - 1)
      PROVE  (front \o back)[j] = scores[IF j < k THEN j ELSE j + 1]
  <2>0. \A i \in 1..(Len(front) + Len(back)) :
          (front \o back)[i] = IF i <= Len(front) THEN front[i]
                               ELSE back[i - Len(front)]
    BY <1>2, <1>3, ConcatProperties
  <2>1. CASE j < k
    <3>1. j \in 1..(Len(front) + Len(back)) /\ j <= Len(front) /\ j \in 1..(k - 1)
      <4>1. Len(front) = k - 1 /\ Len(back) = Len(scores) - k
        BY <1>2, <1>3
      <4>2. j \in 1..(k - 1) /\ j \in 1..((k - 1) + (Len(scores) - k))
        BY <1>1, <2>1
      <4> QED
        BY <4>1, <4>2
    <3>2. (front \o back)[j] = front[j]
      BY <2>0, <3>1
    <3>3. front[j] = scores[j]
      BY <1>2, <3>1
    <3> QED
      BY <2>1, <3>2, <3>3
  <2>2. CASE ~(j < k)
    <3>1. j - (k - 1) \in 1..(Len(scores) - k)
      BY <1>1, <2>2
    <3>2. (front \o back)[j] = back[j - (k - 1)]
      <4>1. j \in 1..(Len(front) + Len(back)) /\ ~(j <= Len(front))
        <5>1. Len(front) = k - 1 /\ Len(back) = Len(scores) - k
          BY <1>2, <1>3
        <5>2. j \in 1..((k - 1) + (Len(scores) - k)) /\ ~(j <= k - 1)
          BY <1>1, <2>2
        <5> QED
          BY <5>1, <5>2
      <4>2. (front \o back)[j] = back[j - Len(front)]
        BY <2>0, <4>1
      <4>3. Len(front) = k - 1
        BY <1>2
      <4> QED
        BY <4>2, <4>3
    <3>3. back[j - (k - 1)] = scores[k + (j - (k - 1))]
      BY <1>3, <3>1
    <3>4. k + (j - (k - 1)) = j + 1
      BY <1>1
    <3> QED
      BY <2>2, <3>2, <3>3, <3>4
  <2> QED
    BY <2>1, <2>2
<1> QED
  BY <1>4, <1>5, <1>6

(* Of some scores, more than the place of the quantile do not exceed the    *)
(* quantile of the others.                                                  *)
LEMMA LeaveOneOut ==
    ASSUME NEW scores \in Seq(Int), Len(scores) >= 2, NEW a \in 1..99
    PROVE  LET hits == {k \in DOMAIN scores :
                           scores[k] <= Quantile(Others(scores, k), a)}
           IN  Cardinality(hits) > Place(Len(scores) - 1, a)
<1> DEFINE n == Len(scores) - 1
           hits == {k \in DOMAIN scores : scores[k] <= Quantile(Others(scores, k), a)}
           p == Place(n, a)
           v == AtPlace(scores, p)
<1>1. /\ Len(scores) \in Nat /\ DOMAIN scores = 1..Len(scores)
      /\ \A j \in DOMAIN scores : scores[j] \in Int
  OBVIOUS
<1>2. n \in Nat \ {0}
  BY <1>1
<1> HIDE DEF n
<1>3. p \in Nat /\ p < n /\ p < Len(scores)
  <2>1. p \in 0..(n - 1)
    BY <1>2, PlaceType
  <2> HIDE DEF p
  <2> QED
    BY <1>1, <1>2, <2>1 DEF n
<1>4. IsFiniteSet(DOMAIN scores)
  BY <1>1, FS_Interval
<1> HIDE DEF p
<1>5. /\ Cardinality(UpTo(scores, v)) > p
      /\ Cardinality(Before(scores, v)) <= p
      /\ v \in Int
  <2>1. v \in Range(scores)
    BY <1>3, AtPlaceIs
  <2>2. v \in Int
    BY <1>1, <2>1 DEF Range
  <2> QED
    BY <1>3, <2>2, AtPlaceIs
<1> HIDE DEF v
<1>6. IsFiniteSet(Before(scores, v)) /\ Cardinality(Before(scores, v)) \in Nat
  BY <1>4, FS_Subset, FS_CardinalityType DEF Before
<1>7. ASSUME NEW k \in UpTo(scores, v)
      PROVE  scores[k] <= Quantile(Others(scores, k), a)
  <2> DEFINE rest == Others(scores, k)
             q == Quantile(rest, a)
  <2>1. k \in DOMAIN scores /\ scores[k] <= v /\ k \in 1..Len(scores)
    BY <1>1 DEF UpTo
  <2>2. /\ rest \in Seq(Int) /\ Len(rest) = n
        /\ \A j \in 1..n : rest[j] = scores[IF j < k THEN j ELSE j + 1]
    BY <2>1, OthersAre DEF n
  <2> HIDE DEF rest
  <2>3. q = AtPlace(rest, p)
    BY <2>2 DEF Quantile, p
  <2>4. q \in Int /\ Cardinality(UpTo(rest, q)) > p
    <3>1. p < Len(rest)
      BY <1>3, <2>2
    <3>2. q \in Range(rest) /\ Cardinality(UpTo(rest, q)) > p
      BY <1>3, <2>2, <2>3, <3>1, AtPlaceIs
    <3>3. \A j \in DOMAIN rest : rest[j] \in Int
      BY <2>2
    <3> QED
      BY <3>2, <3>3 DEF Range
  <2> HIDE DEF q
  <2>5. ASSUME ~(scores[k] <= q) PROVE FALSE
    <3> DEFINE f == [j \in UpTo(rest, q) |-> IF j < k THEN j ELSE j + 1]
    <3>1. ASSUME NEW j \in UpTo(rest, q)
          PROVE  f[j] \in Before(scores, v) /\ j \in 1..n
      <4>1. j \in 1..n /\ rest[j] <= q
        BY <2>2 DEF UpTo
      <4>2. f[j] \in 1..Len(scores) /\ scores[f[j]] = rest[j]
        <5>1. f[j] = IF j < k THEN j ELSE j + 1
          OBVIOUS
        <5> HIDE DEF f
        <5>2. rest[j] = scores[f[j]]
          BY <2>2, <4>1, <5>1
        <5>3. f[j] \in 1..Len(scores)
          BY <1>1, <2>1, <4>1, <5>1 DEF n
        <5> QED
          BY <5>2, <5>3
      <4>3. scores[f[j]] \in Int /\ scores[k] \in Int /\ scores[f[j]] < v
        <5>1. scores[f[j]] \in Int /\ scores[k] \in Int
          BY <1>1, <2>1, <4>2
        <5> HIDE DEF f
        <5>2. scores[f[j]] <= q /\ q < scores[k] /\ scores[k] <= v
          BY <2>1, <2>4, <2>5, <4>1, <4>2, <5>1
        <5> QED
          BY <1>5, <2>4, <5>1, <5>2
      <4> HIDE DEF f
      <4> QED
        BY <1>1, <4>1, <4>2, <4>3 DEF Before
    <3>2. f \in Injection(UpTo(rest, q), Before(scores, v))
      <4>1. \A i, j \in UpTo(rest, q) : f[i] = f[j] => i = j
        BY <2>1, <3>1
      <4>2. f \in [UpTo(rest, q) -> Before(scores, v)]
        BY <3>1
      <4> HIDE DEF f
      <4>3. IsInjective(f)
        BY <4>1, <4>2 DEF IsInjective
      <4> QED
        BY <4>2, <4>3 DEF Injection
    <3>3. /\ Cardinality(UpTo(rest, q)) <= Cardinality(Before(scores, v))
          /\ IsFiniteSet(UpTo(rest, q))
      BY <1>6, <3>2, FS_Injection
    <3>4. Cardinality(UpTo(rest, q)) \in Nat
      BY <3>3, FS_CardinalityType
    <3> QED
      BY <1>3, <1>5, <1>6, <2>4, <3>3, <3>4
  <2> QED
    BY <2>5 DEF q, rest
<1>8. UpTo(scores, v) \in SUBSET hits
  <2>1. UpTo(scores, v) \subseteq DOMAIN scores
    BY DEF UpTo
  <2> QED
    BY <1>7, <2>1
<1>9. IsFiniteSet(hits)
  BY <1>4, FS_Subset
<1> HIDE DEF hits
<1>10. Cardinality(UpTo(scores, v)) <= Cardinality(hits)
  BY <1>8, <1>9, FS_Subset
<1>11. Cardinality(UpTo(scores, v)) \in Nat /\ Cardinality(hits) \in Nat
  BY <1>8, <1>9, FS_Subset, FS_CardinalityType
<1>12. Cardinality(hits) > p
  BY <1>3, <1>5, <1>10, <1>11
<1> QED
  BY <1>12 DEF hits, p, n

(* The split-conformal guarantee: of any n + 1 scores at least a share of   *)
(* 1 - alpha does not exceed the quantile of the others, or n of them when  *)
(* n is too small for alpha (the conformal recipe of train_scorer).         *)
THEOREM SplitConformal ==
    ASSUME NEW scores \in Seq(Int), Len(scores) >= 2, NEW a \in 1..99
    PROVE  LET n == Len(scores) - 1
               hits == {k \in DOMAIN scores :
                           scores[k] <= Quantile(Others(scores, k), a)}
           IN  \/ 100 * Cardinality(hits) >= (100 - a) * (n + 1)
               \/ Rank(n, a) > n /\ Cardinality(hits) >= n
<1> DEFINE n == Len(scores) - 1
           hits == {k \in DOMAIN scores : scores[k] <= Quantile(Others(scores, k), a)}
           c == Cardinality(hits)
           m == Min({Rank(n, a), n})
<1>1. n \in Nat \ {0} /\ DOMAIN scores = 1..Len(scores) /\ Len(scores) \in Nat
  <2>1. Len(scores) \in Nat /\ DOMAIN scores = 1..Len(scores)
    OBVIOUS
  <2> QED
    BY <2>1
<1>2. c > Place(n, a)
  BY LeaveOneOut
<1>3. c \in Nat
  <2>1. IsFiniteSet(DOMAIN scores)
    BY <1>1, FS_Interval
  <2>2. hits \in SUBSET DOMAIN scores
    OBVIOUS
  <2> HIDE DEF hits
  <2> QED
    BY <2>1, <2>2, FS_Subset, FS_CardinalityType
<1> HIDE DEF hits, c, n
<1>4. /\ Place(n, a) \in 0..(n - 1) /\ m <= Place(n, a) + 1
      /\ m \in 1..n /\ (m = Rank(n, a) \/ m = n)
  BY <1>1, PlaceType
<1>5. Rank(n, a) \in Nat \ {0} /\ (100 - a) * (n + 1) <= 100 * Rank(n, a)
  BY <1>1, RankType
<1> HIDE DEF m
<1>6. m <= c
  BY <1>1, <1>2, <1>3, <1>4
<1>7. CASE Rank(n, a) <= c
  <2>1. 100 * Rank(n, a) <= 100 * c
    BY <1>3, <1>5, <1>7
  <2>2. (100 - a) * (n + 1) \in Int
    BY <1>1
  <2>3. 100 * c >= (100 - a) * (n + 1)
    <3> DEFINE z == (100 - a) * (n + 1)
    <3>1. z \in Int /\ z <= 100 * Rank(n, a)
      BY <1>5, <2>2
    <3> HIDE DEF z
    <3>2. 100 * c >= z
      BY <1>3, <1>5, <2>1, <3>1
    <3> QED
      BY <3>2 DEF z
  <2> QED
    BY <2>3 DEF c, hits, n
<1>8. CASE ~(Rank(n, a) <= c)
  <2>1. Rank(n, a) > n /\ c >= n
    BY <1>1, <1>3, <1>4, <1>5, <1>6, <1>8
  <2> QED
    BY <2>1 DEF c, hits, n
<1> QED
  BY <1>7, <1>8

-----------------------------------------------------------------------------
(* What train_scorer computes of the held-out rows *)

(* Their nonconformity scores are probabilities.                            *)
LEMMA ScoresType ==
    ASSUME NEW rows \in Seq(Held), rows # <<>>
    PROVE  /\ Scores(rows) \in Seq(Int) /\ Scores(rows) # <<>>
           /\ Len(Scores(rows)) = Len(rows)
           /\ DOMAIN Scores(rows) = DOMAIN rows
           /\ \A k \in DOMAIN rows : Scores(rows)[k] \in 0..Unit
<1>1. /\ DOMAIN rows = 1..Len(rows) /\ Len(rows) \in Nat \ {0}
      /\ \A k \in DOMAIN rows : rows[k].raw \in Nat /\ rows[k].y \in {0, 1}
  BY RawScores
<1>2. \A k \in DOMAIN rows : predict(rows, rows[k].raw) \in 0..Unit
  BY <1>1, PredictBounds
<1>u. Unit \in Nat
  BY ConformalAssumption DEF ConformalAssumption
<1>3. \A k \in DOMAIN rows : Scores(rows)[k] \in 0..Unit
  BY <1>1, <1>2, <1>u DEF Scores, nonconformity, p_true
<1>4. DOMAIN Scores(rows) = DOMAIN rows
  BY DEF Scores
<1>5. Scores(rows) \in [1..Len(rows) -> Int]
  BY <1>1, <1>3, <1>4 DEF Scores
<1> QED
  BY <1>1, <1>3, <1>4, <1>5

(* qhat is a probability.                                                   *)
LEMMA QhatType ==
    ASSUME NEW rows \in Seq(Held), rows # <<>>, NEW a \in 1..99
    PROVE  Quantile(Scores(rows), a) \in 0..Unit
<1>1. Quantile(Scores(rows), a) \in Range(Scores(rows))
  BY ScoresType, QuantileReaches
<1> QED
  BY <1>1, ScoresType DEF Range

(* A held-out row is covered just when its score does not exceed qhat.      *)
LEMMA CoveredIs ==
    ASSUME NEW rows \in Seq(Held), rows # <<>>, NEW q \in 0..Unit,
           NEW k \in DOMAIN rows
    PROVE  Covered(k, rows, q) <=> Scores(rows)[k] <= q
<1> DEFINE p == predict(rows, rows[k].raw)
<1>1. rows[k].raw \in Nat /\ rows[k].y \in {0, 1}
  BY RawScores
<1>2. p \in 0..Unit
  BY <1>1, PredictBounds
<1>3. Scores(rows)[k] = nonconformity(p, rows[k].y)
  BY DEF Scores
<1>4. Covered(k, rows, q) <=> rows[k].y \in cset(p, q)
  BY DEF Covered
<1>u. Unit \in Nat
  BY ConformalAssumption DEF ConformalAssumption
<1> HIDE DEF p
<1>5. /\ 1 \in cset(p, q) <=> p >= Unit - q
      /\ 0 \in cset(p, q) <=> Unit - p >= Unit - q
  BY <1>2, InSet
<1> QED
  BY <1>u, <1>1, <1>2, <1>3, <1>4, <1>5 DEF nonconformity, p_true

(* qhat covers the rows it was computed from as often as the rank asks.     *)
THEOREM CalibrationCovered ==
    ASSUME NEW rows \in Seq(Held), rows # <<>>, NEW a \in 1..99
    PROVE  Cardinality({k \in DOMAIN rows :
                           Covered(k, rows, Quantile(Scores(rows), a))})
             >= Min({Rank(Len(rows), a), Len(rows)})
<1> DEFINE q == Quantile(Scores(rows), a)
<1>1. q \in 0..Unit
  BY QhatType
<1>2. /\ DOMAIN Scores(rows) = DOMAIN rows /\ Len(Scores(rows)) = Len(rows)
      /\ Scores(rows) \in Seq(Int) /\ Scores(rows) # <<>>
  BY ScoresType
<1>3. Cardinality(UpTo(Scores(rows), q)) >= Min({Rank(Len(rows), a), Len(rows)})
  BY <1>2, QuantileReaches
<1> HIDE DEF q
<1>4. {k \in DOMAIN rows : Covered(k, rows, q)} = UpTo(Scores(rows), q)
  BY <1>1, <1>2, CoveredIs DEF UpTo
<1>5. Cardinality({k \in DOMAIN rows : Covered(k, rows, q)})
        >= Min({Rank(Len(rows), a), Len(rows)})
  BY <1>3, <1>4
<1> QED
  BY <1>5 DEF q

-----------------------------------------------------------------------------
(* The scorer *)

(* What score returned came from the calibrator fitted on the held-out rows *)
(* and from the qhat computed of the same rows.                             *)
OneModel ==
    IF fitted = <<>> THEN scored = {}
    ELSE /\ fitted = cal
         /\ qhat = Quantile(Scores(cal), alpha)
         /\ \A s \in scored :
               /\ s.ml_score = predict(cal, s.raw)
               /\ s.conformal_set = cset(s.ml_score, qhat)
               /\ s.needs_human = needs_human(s.conformal_set)

(* TypeOK says nothing of where qhat and the scores came from, so it is not *)
(* inductive: that qhat is a probability needs the rows it was computed     *)
(* from, and a score's type needs a fitted calibrator.                      *)
IInv == TypeOK /\ OneModel

(* What both say of a model that is in force.                               *)
LEMMA InForce ==
    ASSUME IInv, fitted # <<>>
    PROVE  /\ fitted = cal /\ cal \in Seq(Held) /\ cal # <<>>
           /\ alpha \in 1..99 /\ alpha \in Alphas
           /\ qhat = Quantile(Scores(cal), alpha) /\ qhat \in 0..Unit
           /\ \A s \in scored :
                 /\ s.raw \in Nat
                 /\ s.ml_score = predict(cal, s.raw) /\ s.ml_score \in 0..Unit
                 /\ s.conformal_set = cset(s.ml_score, qhat)
                 /\ s.needs_human = needs_human(s.conformal_set)
<1>1. /\ fitted = cal /\ cal # <<>> /\ cal \in Seq(Held)
      /\ alpha \in 1..99 /\ alpha \in Alphas
      /\ qhat = Quantile(Scores(cal), alpha) /\ qhat \in 0..Unit
  BY ConformalAssumption DEF ConformalAssumption, IInv, TypeOK, OneModel, Held
<1>2. ASSUME NEW s \in scored
      PROVE  /\ s.raw \in Nat
             /\ s.ml_score = predict(cal, s.raw) /\ s.ml_score \in 0..Unit
             /\ s.conformal_set = cset(s.ml_score, qhat)
             /\ s.needs_human = needs_human(s.conformal_set)
  <2>1. s.raw \in Raw /\ s.ml_score \in 0..Unit
    BY DEF IInv, TypeOK
  <2>2. s.raw \in Nat
    BY <2>1 DEF Raw
  <2>3. /\ s.ml_score = predict(cal, s.raw)
        /\ s.conformal_set = cset(s.ml_score, qhat)
        /\ s.needs_human = needs_human(s.conformal_set)
    BY DEF IInv, OneModel
  <2> QED
    BY <2>1, <2>2, <2>3
<1> QED
  BY <1>1, <1>2

(* Nothing is scored before a model is in force.                            *)
LEMMA ScoredInForce ==
    ASSUME IInv, scored # {}
    PROVE  fitted # <<>>
BY DEF IInv, OneModel

(* The initial states satisfy the invariant.                                *)
LEMMA InitInv == Init => IInv
<1> SUFFICES ASSUME Init PROVE IInv
  OBVIOUS
<1>1. 0 \in 0..Unit
  BY ConformalAssumption DEF ConformalAssumption
<1> QED
  BY <1>1 DEF Init, IInv, TypeOK, OneModel

(* A held-out row is only added before training.                            *)
LEMMA HoldOutInv ==
    ASSUME IInv, NEW raw \in Raw, NEW label \in {0, 1}, HoldOut(raw, label)
    PROVE  IInv'
<1>1. fitted = <<>> /\ scored = {}
  BY DEF HoldOut, IInv, OneModel
<1>2. /\ cal' = Append(cal, [raw |-> raw, y |-> label])
      /\ fitted' = fitted /\ alpha' = alpha /\ qhat' = qhat /\ scored' = scored
  BY DEF HoldOut
<1>3. cal' \in Seq([raw : Raw, y : {0, 1}])
  BY <1>2 DEF IInv, TypeOK
<1>4. TypeOK'
  BY <1>1, <1>2, <1>3 DEF IInv, TypeOK
<1>5. OneModel'
  BY <1>1, <1>2 DEF OneModel
<1> QED
  BY <1>4, <1>5 DEF IInv

(* Training puts the calibrator and its qhat in force together.             *)
LEMMA TrainInv ==
    ASSUME IInv, train_scorer
    PROVE  IInv'
<1>1. fitted = <<>> /\ scored = {} /\ Len(cal) >= 2
  BY DEF train_scorer, IInv, OneModel
<1>2. /\ cal' = cal /\ fitted' = cal /\ alpha' = alpha /\ scored' = scored
      /\ qhat' = Quantile(Scores(cal), alpha)
  BY DEF train_scorer
<1>3. cal \in Seq(Held) /\ cal # <<>> /\ alpha \in 1..99
  <2>1. cal # <<>>
    BY <1>1
  <2> QED
    BY <2>1, ConformalAssumption DEF ConformalAssumption, IInv, TypeOK, Held
<1>4. qhat' \in 0..Unit
  BY <1>2, <1>3, QhatType
<1>5. TypeOK'
  BY <1>1, <1>2, <1>4 DEF IInv, TypeOK
<1>6. OneModel'
  BY <1>1, <1>2, <1>3 DEF OneModel
<1> QED
  BY <1>5, <1>6 DEF IInv

(* score answers with the model that is in force.                           *)
LEMMA ScoreInv ==
    ASSUME IInv, NEW x \in Raw, score(x)
    PROVE  IInv'
<1> DEFINE p   == predict(fitted, x)
           set == cset(p, qhat)
           new == [raw |-> x, ml_score |-> p, conformal_set |-> set,
                   needs_human |-> needs_human(set)]
<1>1. /\ fitted # <<>> /\ scored' = scored \cup {new}
      /\ cal' = cal /\ fitted' = fitted /\ alpha' = alpha /\ qhat' = qhat
  BY DEF score
<1>2. fitted = cal /\ cal \in Seq(Held) /\ cal # <<>> /\ qhat \in 0..Unit
  BY <1>1, InForce
<1>3. p \in 0..Unit /\ x \in Nat
  BY <1>2, PredictBounds DEF Raw
<1>4. set \in SUBSET {0, 1} /\ needs_human(set) \in BOOLEAN
  BY DEF cset, needs_human
<1>5. /\ new \in [raw : Raw, ml_score : 0..Unit,
                  conformal_set : SUBSET {0, 1}, needs_human : BOOLEAN]
      /\ new.ml_score = predict(cal, new.raw)
      /\ new.conformal_set = cset(new.ml_score, qhat)
      /\ new.needs_human = needs_human(new.conformal_set)
  <2>1. p = predict(cal, x) /\ set = cset(p, qhat)
    BY <1>2
  <2> HIDE DEF p, set
  <2> QED
    BY <1>3, <1>4, <2>1
<1> HIDE DEF new
<1>6. TypeOK'
  BY <1>1, <1>5 DEF IInv, TypeOK
<1>7. OneModel'
  BY <1>1, <1>2, <1>5 DEF IInv, OneModel
<1> QED
  BY <1>6, <1>7 DEF IInv

(* Every step keeps the invariant.                                          *)
LEMMA Step == IInv /\ [Next]_vars => IInv'
<1> SUFFICES ASSUME IInv, [Next]_vars PROVE IInv'
  OBVIOUS
<1>1. CASE \E raw \in Raw, label \in {0, 1} : HoldOut(raw, label)
  BY <1>1, HoldOutInv
<1>2. CASE train_scorer
  BY <1>2, TrainInv
<1>3. CASE \E x \in Raw : score(x)
  BY <1>3, ScoreInv
<1>4. CASE UNCHANGED vars
  BY <1>4 DEF vars, IInv, TypeOK, OneModel
<1> QED
  BY <1>1, <1>2, <1>3, <1>4 DEF Next

(* Whatever the scorer returns comes from one calibrator and its own qhat,  *)
(* in every state (train_scorer, AbuseScorer.score).                        *)
LEMMA Invariant == Spec => []IInv
BY InitInv, Step, PTL DEF Spec

(* The state has its type: every score and qhat are probabilities, for any  *)
(* rows held out and any alpha (train_scorer and score).                    *)
THEOREM TypeCorrect == Spec => []TypeOK
<1>1. IInv => TypeOK
  BY DEF IInv
<1> QED
  BY <1>1, Invariant, PTL

(* A more suspicious window never gets the less suspicious answer           *)
(* (IsotonicRegression and score together).                                 *)
THEOREM MoreSuspiciousNeverLessSo == Spec => []SuspicionIsMonotone
<1>1. IInv => SuspicionIsMonotone
  <2> SUFFICES ASSUME IInv, NEW s \in scored, NEW r \in scored, s.raw <= r.raw
               PROVE  /\ s.ml_score <= r.ml_score
                      /\ 1 \in s.conformal_set => 1 \in r.conformal_set
                      /\ 0 \in r.conformal_set => 0 \in s.conformal_set
    BY DEF SuspicionIsMonotone
  <2>1. fitted # <<>>
    BY ScoredInForce
  <2>2. /\ cal \in Seq(Held) /\ cal # <<>> /\ qhat \in 0..Unit
        /\ s.raw \in Nat /\ r.raw \in Nat
        /\ s.ml_score = predict(cal, s.raw) /\ r.ml_score = predict(cal, r.raw)
        /\ s.ml_score \in 0..Unit /\ r.ml_score \in 0..Unit
        /\ s.conformal_set = cset(s.ml_score, qhat)
        /\ r.conformal_set = cset(r.ml_score, qhat)
    BY <2>1, InForce
  <2>3. s.ml_score <= r.ml_score
    BY <2>2, PredictMonotone
  <2>4. qhat \in Int /\ qhat <= qhat
    BY <2>2
  <2> QED
    BY <2>2, <2>3, <2>4, SetsAreMonotone
<1> QED
  BY <1>1, Invariant, PTL

(* A window that skips human review has one answer, the likelier class      *)
(* (needs_human of score).                                                  *)
THEOREM ReviewSkippedWhenSure == Spec => []SkipsReviewWhenSure
<1>1. IInv => SkipsReviewWhenSure
  <2> SUFFICES ASSUME IInv, NEW s \in scored, ~s.needs_human
               PROVE  s.conformal_set = IF 2 * s.ml_score > Unit THEN {1} ELSE {0}
    BY DEF SkipsReviewWhenSure
  <2>1. fitted # <<>>
    BY ScoredInForce
  <2>2. /\ s.ml_score \in 0..Unit /\ qhat \in Int
        /\ s.conformal_set = cset(s.ml_score, qhat)
        /\ s.needs_human = needs_human(s.conformal_set)
    BY <2>1, InForce
  <2>3. ~needs_human(cset(s.ml_score, qhat))
    BY <2>2
  <2>4. \/ s.conformal_set = {1} /\ 2 * s.ml_score > Unit
        \/ s.conformal_set = {0} /\ 2 * s.ml_score < Unit
    BY <2>2, <2>3, OneAnswerIsTheLikelier
  <2>5. Unit \in Nat
    BY ConformalAssumption DEF ConformalAssumption
  <2> QED
    BY <2>2, <2>4, <2>5
<1> QED
  BY <1>1, Invariant, PTL

(* qhat covers the rows it was computed from as often as the rank asks, all *)
(* of them when they are too few for alpha (train_scorer's qhat).           *)
THEOREM CoverageOfTheCalibrationRows == Spec => []CoversItsCalibration
<1>1. IInv => CoversItsCalibration
  <2> SUFFICES ASSUME IInv, fitted # <<>>
               PROVE  Cardinality({k \in DOMAIN cal : Covered(k, cal, qhat)})
                        >= Min({Rank(Len(cal), alpha), Len(cal)})
    BY DEF CoversItsCalibration
  <2>1. /\ cal \in Seq(Held) /\ cal # <<>> /\ alpha \in 1..99
        /\ qhat = Quantile(Scores(cal), alpha)
    BY InForce
  <2> QED
    BY <2>1, CalibrationCovered
<1> QED
  BY <1>1, Invariant, PTL

(* With a calibrator that does not depend on the held-out rows, the recipe  *)
(* of train_scorer delivers split-conformal coverage for any number of rows *)
(* and any alpha; the run coverage shows that with the calibrator fitted on *)
(* the same rows it does not.                                               *)
THEOREM CoverageGivenCalibrator == Spec => []CoversGivenCalibrator
<1>1. IInv => CoversGivenCalibrator
  <2> SUFFICES ASSUME IInv PROVE CoversGivenCalibrator
    OBVIOUS
  <2> DEFINE scores == [k \in DOMAIN cal |->
                          nonconformity(cal[k].raw * (Unit \div MaxRaw), cal[k].y)]
             n == Len(cal) - 1
             hits == {k \in DOMAIN cal : scores[k] <= Quantile(Others(scores, k), alpha)}
  <2>1. alpha \in 1..99 /\ cal \in Seq(Held)
    BY ConformalAssumption DEF ConformalAssumption, IInv, TypeOK, Held
  <2>2. ASSUME n >= 1
        PROVE  \/ 100 * Cardinality(hits) >= (100 - alpha) * (n + 1)
               \/ Rank(n, alpha) > n /\ Cardinality(hits) >= n
    <3>1. Len(cal) \in Nat /\ Len(cal) >= 2 /\ DOMAIN cal = 1..Len(cal)
      <4>1. Len(cal) \in Nat /\ DOMAIN cal = 1..Len(cal)
        BY <2>1
      <4> QED
        BY <2>2, <4>1
    <3>2. \A k \in DOMAIN cal : scores[k] \in Int
      <4> SUFFICES ASSUME NEW k \in DOMAIN cal PROVE scores[k] \in Int
        OBVIOUS
      <4>1. cal[k].raw \in Nat /\ cal[k].y \in {0, 1}
        <5>1. cal # <<>>
          BY <3>1
        <5> QED
          BY <2>1, <5>1, RawScores
      <4>2. Unit \in Nat /\ MaxRaw \in Nat \ {0}
        BY ConformalAssumption DEF ConformalAssumption
      <4>3. cal[k].raw * (Unit \div MaxRaw) \in Int
        <5>1. Unit \div MaxRaw \in Int
          BY <4>2
        <5> QED
          BY <4>1, <5>1
      <4> QED
        BY <4>1, <4>2, <4>3 DEF nonconformity, p_true
    <3>3. scores \in Seq(Int) /\ Len(scores) = Len(cal) /\ DOMAIN scores = DOMAIN cal
      <4>1. scores \in [1..Len(cal) -> Int]
        BY <3>1, <3>2
      <4> HIDE DEF scores
      <4> QED
        BY <3>1, <4>1
    <3> HIDE DEF scores
    <3>4. Len(scores) >= 2
      BY <3>1, <3>3
    <3> QED
      BY <2>1, <3>3, <3>4, SplitConformal
  <2> QED
    BY <2>2 DEF CoversGivenCalibrator
<1> QED
  BY <1>1, Invariant, PTL

===============================================================================
