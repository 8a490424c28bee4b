---------------------------- MODULE MedallionProofs ----------------------------
(***************************************************************************)
(* What the layers make of any table, however large and however it was     *)
(* delivered: deduplication keeps one row of every key and leaves no trace *)
(* of repetitions and incomplete rows; gold is well formed, made of the    *)
(* events and not of the rows that carry them; the events of the scenarios *)
(* are such as the layers pass on whole; and what a row of gold says of    *)
(* the rows it is made of, as far as a detector may ask.  The detectors    *)
(* come first, for every row of gold features and every choice of units.   *)
(***************************************************************************)
EXTENDS Medallion, DataLemmas, SequenceTheorems

-----------------------------------------------------------------------------
(* The detectors *)

(* Products of naturals are naturals and keep the order of a factor.        *)
LEMMA TimesMonotone ==
    ASSUME NEW c \in Nat, NEW a \in Int, NEW b \in Int, a <= b
    PROVE  c * a <= c * b
OBVIOUS

(* Products of naturals, which the solvers do not find among larger         *)
(* formulas.                                                                *)
LEMMA TimesNat ==
    ASSUME NEW a \in Nat, NEW b \in Nat
    PROVE  a * b \in Nat
OBVIOUS

(* Products of positive numbers are positive.                               *)
LEMMA TimesPositive ==
    ASSUME NEW a \in Nat \ {0}, NEW b \in Nat \ {0}
    PROVE  a * b \in Nat \ {0}
OBVIOUS

(* A percentage p of x ratio units, in terms of q = Second * x alone.       *)
LEMMA PctTimes ==
    ASSUME NEW p \in Nat, NEW x \in Int
    PROVE  /\ Pct(p) * x = 12 * p * (Second * x)
           /\ Second * x \in Int
BY DetectorAssumption DEF Pct, DetectorAssumption

(* The unit of a score, by the units of ratios and times.                   *)
LEMMA UnitIs ==
    /\ Second * Scale \in Nat \ {0}
    /\ Unit = 1200 * (Second * Scale)
BY DetectorAssumption, TimesPositive DEF Unit, DetectorAssumption

(* Thresholds in terms of Second * Scale; none is zero.                     *)
LEMMA ThresholdIs ==
    ASSUME NEW d
    PROVE  /\ Threshold(d) = IF d = "WASH_TRADE" THEN 720 * (Second * Scale)
                                                 ELSE 600 * (Second * Scale)
           /\ Threshold(d) \in Nat \ {0}
<1>1. Scale \in Nat /\ Second * Scale \in Nat \ {0}
  BY DetectorAssumption, UnitIs DEF DetectorAssumption
<1>2. /\ Pct(60) * Scale = 12 * 60 * (Second * Scale)
      /\ Pct(50) * Scale = 12 * 50 * (Second * Scale)
  BY <1>1, PctTimes
<1> QED
  BY <1>1, <1>2 DEF Threshold

(* Each detector's score is its own. *)
LEMMA ScoreOf ==
    ASSUME NEW f
    PROVE  /\ score("SPOOFING", f) = SpoofingScore(f)
           /\ score("WASH_TRADE", f) = WashTradeScore(f)
           /\ score("FRONT_RUNNING", f) = FrontRunningScore(f)
           /\ score("MOMENTUM_IGNITION", f) = MomentumScore(f)
           /\ score("MARKING_THE_CLOSE", f) = MarkingTheCloseScore(f)
BY Zenon DEF score

(* No detector alerts with a score of zero, which is what its gate gives.   *)
LEMMA FiringScores ==
    ASSUME NEW d, NEW f, fires(d, f)
    PROVE  score(d, f) # 0
<1>1. Threshold(d) \in Nat \ {0}
  BY ThresholdIs
<1> QED
  BY <1>1 DEF fires

(* With few cancels the spoofing score stays under its threshold, whatever  *)
(* the order-to-trade ratio.                                                *)
LEMMA FewCancelsNoSpoofing ==
    ASSUME NEW f, IsGoldFeatures(f), 5 * f.cancelRatio <= Scale
    PROVE  ~fires("SPOOFING", f)
<1> DEFINE u == Second * Scale
           o == least(f.orderToTradeRatio, 10 * Scale)
           c == Second * f.cancelRatio
           v == Second * o
<1>1. /\ Scale \in Nat /\ Second \in Nat
      /\ f.cancelRatio \in Nat /\ f.orderToTradeRatio \in Nat
  BY DetectorAssumption DEF DetectorAssumption, IsGoldFeatures
<1>2. u \in Nat \ {0} /\ Unit = 1200 * u
  BY UnitIs
<1>3. o \in Nat /\ o <= 10 * Scale
  BY <1>1 DEF least
<1>4. c \in Nat /\ 5 * c <= u
  <2>1. Second * (5 * f.cancelRatio) <= Second * Scale
    BY <1>1, TimesMonotone
  <2>2. Second * (5 * f.cancelRatio) = 5 * c
    BY <1>1
  <2> QED
    BY <1>1, <2>1, <2>2, TimesNat
<1>5. v \in Nat /\ v <= 10 * u
  <2>1. Second * o <= Second * (10 * Scale)
    BY <1>1, <1>3, TimesMonotone
  <2>2. Second * (10 * Scale) = 10 * u
    BY <1>1
  <2> QED
    BY <1>1, <1>3, <2>1, <2>2, TimesNat
<1>6. Pct(70) * f.cancelRatio = 840 * c /\ Pct(3) * o = 36 * v
  <2> HIDE DEF o
  <2>1. Pct(70) * f.cancelRatio = 12 * 70 * c
    BY <1>1, PctTimes
  <2>2. Pct(3) * o = 12 * 3 * v
    BY <1>3, PctTimes
  <2> HIDE DEF c, v
  <2> QED
    BY <2>1, <2>2, <1>4, <1>5
<1>7. Threshold("SPOOFING") = 600 * u
  BY ThresholdIs
<1>8. score("SPOOFING", f) = SpoofingScore(f)
  BY ScoreOf
<1>9. SpoofingScore(f) = IF f.nOrders < 4 THEN 0 ELSE unit(840 * c + 36 * v)
  BY <1>6 DEF SpoofingScore
<1> HIDE DEF u, o, c, v
<1>10. 840 * c + 36 * v < 600 * u
  BY <1>2, <1>4, <1>5
<1>11. unit(840 * c + 36 * v) \in Int /\ unit(840 * c + 36 * v) < 600 * u
  BY <1>2, <1>4, <1>5, <1>10 DEF unit, most, least
<1> QED
  BY <1>2, <1>7, <1>8, <1>9, <1>11 DEF fires

(* No row alerts as both spoofing and momentum ignition.                    *)
THEOREM SpoofingOrMomentum ==
    \A f : IsGoldFeatures(f) => OneIntentAlert(f)
<1> SUFFICES ASSUME NEW f, IsGoldFeatures(f), fires("MOMENTUM_IGNITION", f)
             PROVE  ~fires("SPOOFING", f)
  BY DEF OneIntentAlert
<1>1. MomentumScore(f) # 0
  BY FiringScores, ScoreOf
<1>2. MomentumGate(f)
  BY <1>1 DEF MomentumScore
<1> QED
  BY <1>2, FewCancelsNoSpoofing DEF MomentumGate

(* No row alerts as both a wash trade and a front run.                      *)
THEOREM WashOrFront ==
    \A f : IsGoldFeatures(f) => OneRoundTripAlert(f)
<1> SUFFICES ASSUME NEW f, IsGoldFeatures(f),
                    fires("WASH_TRADE", f), fires("FRONT_RUNNING", f)
             PROVE  FALSE
  BY DEF OneRoundTripAlert
<1>1. WashTradeScore(f) # 0
  BY FiringScores, ScoreOf
<1>2. FrontRunningScore(f) # 0
  BY FiringScores, ScoreOf
<1>3. WashGate(f)
  BY <1>1 DEF WashTradeScore
<1>4. FrontGate(f)
  BY <1>2 DEF FrontRunningScore
<1>5. f.roundTripGainBps \in Int /\ Scale \in Nat
  BY DetectorAssumption DEF DetectorAssumption, IsGoldFeatures
<1> QED
  BY <1>3, <1>4, <1>5 DEF WashGate, FrontGate, abs

(* A window with orders only alerts nobody.                                 *)
THEOREM OrdersQuiet ==
    \A f : IsGoldFeatures(f) => OrdersAloneAreQuiet(f)
<1> SUFFICES ASSUME NEW f, IsGoldFeatures(f), f.nExecs = 0, f.cancelRatio = 0,
                    NEW d \in Detector
             PROVE  ~fires(d, f)
  BY DEF OrdersAloneAreQuiet
<1>1. CASE d = "SPOOFING"
  BY <1>1, FewCancelsNoSpoofing, DetectorAssumption DEF DetectorAssumption
<1>2. CASE d # "SPOOFING"
  <2>1. Threshold(d) \in Nat \ {0}
    BY ThresholdIs
  <2>2. ~WashGate(f) /\ ~FrontGate(f) /\ ~MomentumGate(f) /\ ~MarkingGate(f)
    BY DEF WashGate, FrontGate, MomentumGate, MarkingGate
  <2>3. score(d, f) = 0
    BY <1>2, <2>2, ScoreOf DEF Detector, WashTradeScore, FrontRunningScore,
       MomentumScore, MarkingTheCloseScore
  <2> QED
    BY <2>1, <2>3 DEF fires
<1> QED
  BY <1>1, <1>2

(* A score past three fifths has severity 4 or 5.                           *)
LEMMA PastThreeFifths ==
    ASSUME NEW s \in Int, 5 * s > 3 * Unit
    PROVE  fromRuleScore(s) >= 4
<1>1. Unit \in Nat
  BY UnitIs
<1>2. past(1, s) = 1 /\ past(2, s) = 1 /\ past(3, s) = 1
  BY <1>1 DEF past
<1>3. past(4, s) \in {0, 1}
  BY DEF past
<1> QED
  BY <1>2, <1>3 DEF fromRuleScore

(* A wash trade and a front run that alert have severity 4 or 5.            *)
THEOREM RoundTripsSevere ==
    \A f : IsGoldFeatures(f) => RoundTripsReportable(f)
<1> SUFFICES ASSUME NEW f, IsGoldFeatures(f)
             PROVE  RoundTripsReportable(f)
  OBVIOUS
<1> DEFINE u == Second * Scale
<1>1. /\ Scale \in Nat \ {0} /\ Second \in Nat \ {0}
      /\ f.qtyImbalance \in Int /\ f.roundTripGainBps \in Int
  BY DetectorAssumption DEF DetectorAssumption, IsGoldFeatures
<1>2. u \in Nat \ {0} /\ Unit = 1200 * u
  BY UnitIs
<1>3. ASSUME fires("WASH_TRADE", f)
      PROVE  severity("WASH_TRADE", f) >= 4
  <2> DEFINE a == abs(f.qtyImbalance)
             b == Second * (Scale - a)
             w == IF f.distinctPrices <= 2 THEN 40 ELSE 20
  <2>1. WashTradeScore(f) # 0
    BY <1>3, FiringScores, ScoreOf
  <2>2. WashGate(f)
    BY <2>1 DEF WashTradeScore
  <2>3. a \in Nat /\ 10 * a <= Scale
    BY <1>1, <2>2 DEF WashGate, abs
  <2>4. least(a, Scale) = a
    BY <1>1, <2>3 DEF least
  <2>5. b \in Int /\ 10 * b >= 9 * u
    <3>1. Second * (10 * a) <= Second * Scale
      BY <1>1, <2>3, TimesMonotone
    <3>2. Second * (10 * a) = 10 * (Second * a) /\ b = Second * Scale - Second * a
      BY <1>1, <2>3
    <3>3. Second * a \in Nat
      BY <1>1, <2>3, TimesNat
    <3> HIDE DEF a, b
    <3> QED
      BY <3>1, <3>2, <3>3, <1>2
  <2>6. w \in {20, 40} /\ Pct(60) * (Scale - a) = 720 * b
    <3>1. Scale - a \in Int
      BY <1>1, <2>3
    <3>2. Pct(60) * (Scale - a) = 12 * 60 * b
      BY <3>1, PctTimes
    <3> HIDE DEF b
    <3> QED
      BY <3>2, <2>5
  <2>7. Pct(w) * Scale \in {240 * u, 480 * u}
    <3>1. Pct(20) * Scale = 12 * 20 * u /\ Pct(40) * Scale = 12 * 40 * u
      BY <1>1, PctTimes
    <3> HIDE DEF u, w
    <3> QED
      BY <1>2, <2>6, <3>1
  <2> DEFINE c == Pct(w) * Scale
  <2>8. WashTradeScore(f) = unit(720 * b + c)
    BY <2>2, <2>4, <2>6 DEF WashTradeScore
  <2>9. c \in {240 * u, 480 * u}
    BY <2>7
  <2> HIDE DEF u, a, b, w, c
  <2>10. unit(720 * b + c) \in Int /\ 5 * unit(720 * b + c) > 3 * Unit
    BY <1>2, <2>5, <2>9 DEF unit, most, least
  <2> QED
    BY <2>8, <2>10, PastThreeFifths, ScoreOf DEF severity
<1>4. ASSUME fires("FRONT_RUNNING", f)
      PROVE  severity("FRONT_RUNNING", f) >= 4
  <2> DEFINE g == least(f.roundTripGainBps, 10 * Scale)
             v == Second * g
  <2>1. FrontRunningScore(f) # 0
    BY <1>4, FiringScores, ScoreOf
  <2>2. FrontGate(f)
    BY <2>1 DEF FrontRunningScore
  <2>3. g \in Nat \ {0}
    BY <1>1, <2>2 DEF FrontGate, least
  <2>4. v \in Nat \ {0}
    BY <1>1, <2>3, TimesPositive
  <2>5. Pct(60) * Scale = 12 * 60 * u /\ Pct(4) * g = 12 * 4 * v
    <3> HIDE DEF g
    <3> QED
      BY <1>1, <2>3, PctTimes
  <2>6. FrontRunningScore(f) = least(Unit, 720 * u + 48 * v)
    <3>1. 12 * 60 * u = 720 * u /\ 12 * 4 * v = 48 * v
      BY <1>2, <2>4
    <3> QED
      BY <2>2, <2>5, <3>1 DEF FrontRunningScore
  <2> HIDE DEF u, g, v
  <2>7. least(Unit, 720 * u + 48 * v) \in Int
        /\ 5 * least(Unit, 720 * u + 48 * v) > 3 * Unit
    BY <1>2, <2>4 DEF least
  <2> QED
    BY <2>6, <2>7, PastThreeFifths, ScoreOf DEF severity
<1> QED
  BY <1>3, <1>4 DEF RoundTripsReportable

-----------------------------------------------------------------------------
(* What is enough for a detector to alert *)

(* With at most ten orders to a fill, the spoofing score weighs the two     *)
(* ratios 70 to 3.                                                          *)
LEMMA SpoofingWeighs ==
    ASSUME NEW f, IsGoldFeatures(f), f.nOrders >= 4,
           f.orderToTradeRatio <= 10 * Scale,
           NEW z, z = 70 * f.cancelRatio + 3 * f.orderToTradeRatio
    PROVE  /\ fires("SPOOFING", f) <=> z >= 50 * Scale
           /\ z > 60 * Scale => severity("SPOOFING", f) >= 4
<1> DEFINE u == Second * Scale
           c == f.cancelRatio
           o == f.orderToTradeRatio
           y == Second * z
<1>1. /\ Scale \in Nat \ {0} /\ Second \in Nat \ {0}
      /\ c \in Nat /\ o \in Nat /\ f.nOrders \in Nat
  BY DetectorAssumption DEF DetectorAssumption, IsGoldFeatures
<1>2. u \in Nat \ {0} /\ Unit = 1200 * u
  BY UnitIs
<1>3. least(o, 10 * Scale) = o /\ ~(f.nOrders < 4)
  BY <1>1 DEF least
<1>4. Pct(70) * c + Pct(3) * o = 12 * y
  <2>1. Pct(70) * c = 12 * 70 * (Second * c) /\ Pct(3) * o = 12 * 3 * (Second * o)
    <3> HIDE DEF c, o
    <3>1. Pct(70) * c = 12 * 70 * (Second * c)
      BY <1>1, PctTimes
    <3>2. Pct(3) * o = 12 * 3 * (Second * o)
      BY <1>1, PctTimes
    <3> QED
      BY <3>1, <3>2
  <2>2. Second * z = 70 * (Second * c) + 3 * (Second * o)
    BY <1>1
  <2>3. Second * c \in Nat /\ Second * o \in Nat
    BY <1>1, TimesNat
  <2> DEFINE p == Second * c
             q == Second * o
  <2>4. /\ Pct(70) * c = 12 * 70 * p /\ Pct(3) * o = 12 * 3 * q
        /\ y = 70 * p + 3 * q /\ p \in Nat /\ q \in Nat
    BY <2>1, <2>2, <2>3
  <2> HIDE DEF p, q, y, c, o
  <2> QED
    BY <2>4
<1>5. y \in Nat /\ z \in Nat
  BY <1>1, TimesNat
<1>6. score("SPOOFING", f) = unit(12 * y)
  BY <1>3, <1>4, ScoreOf DEF SpoofingScore
<1>7. Threshold("SPOOFING") = 600 * u
  BY ThresholdIs
<1>8. /\ z >= 50 * Scale => y >= 50 * u
      /\ z < 50 * Scale => y < 50 * u
      /\ z > 60 * Scale => y > 60 * u
  <2> HIDE DEF c, o
  <2>1. ASSUME NEW k \in Nat PROVE k * u = Second * (k * Scale) /\ k * Scale \in Nat
    BY <1>1
  <2>2. z >= 50 * Scale => y >= 50 * u
    BY <1>1, <1>5, <2>1, TimesMonotone
  <2>3. z < 50 * Scale => y < 50 * u
    <3>1. z < 50 * Scale => Second * (z + 1) <= Second * (50 * Scale)
      BY <1>1, <1>5, TimesMonotone
    <3>2. Second * (z + 1) = y + Second
      BY <1>1, <1>5
    <3> QED
      BY <1>1, <1>2, <1>5, <2>1, <3>1, <3>2
  <2>4. z > 60 * Scale => y > 60 * u
    <3>1. z > 60 * Scale => Second * (60 * Scale + 1) <= Second * z
      BY <1>1, <1>5, TimesMonotone
    <3>2. Second * (60 * Scale + 1) = 60 * u + Second
      BY <1>1
    <3> QED
      BY <1>1, <1>2, <1>5, <3>1, <3>2
  <2> QED
    BY <2>2, <2>3, <2>4
<1> HIDE DEF u, c, o, y
<1>9. /\ unit(12 * y) \in Int
      /\ unit(12 * y) >= 600 * u <=> y >= 50 * u
      /\ y > 60 * u => 5 * unit(12 * y) > 3 * Unit
  BY <1>2, <1>5 DEF unit, most, least
<1>10. fires("SPOOFING", f) <=> z >= 50 * Scale
  <2>1. z \in Int /\ 50 * Scale \in Int
    BY <1>1, <1>5
  <2> QED
    BY <1>6, <1>7, <1>8, <1>9, <2>1, <1>2, <1>5 DEF fires
<1>11. z > 60 * Scale => severity("SPOOFING", f) >= 4
  BY <1>6, <1>8, <1>9, PastThreeFifths DEF severity
<1> QED
  BY <1>10, <1>11

(* A balanced row that passes the gate alerts as a wash trade.              *)
LEMMA BalancedWash ==
    ASSUME NEW f, IsGoldFeatures(f), WashGate(f), f.qtyImbalance = 0
    PROVE  fires("WASH_TRADE", f)
<1> DEFINE u == Second * Scale
           w == IF f.distinctPrices <= 2 THEN 40 ELSE 20
           c == Pct(w) * Scale
<1>1. Scale \in Nat \ {0} /\ Second \in Nat \ {0}
  BY DetectorAssumption DEF DetectorAssumption
<1>2. u \in Nat \ {0} /\ Unit = 1200 * u
  BY UnitIs
<1>3. abs(f.qtyImbalance) = 0 /\ least(0, Scale) = 0
  BY <1>1 DEF abs, least
<1>4. Pct(60) * (Scale - 0) = 720 * u
  BY <1>1, PctTimes
<1>5. c \in {240 * u, 480 * u}
  <2>1. Pct(20) * Scale = 12 * 20 * u /\ Pct(40) * Scale = 12 * 40 * u
    BY <1>1, PctTimes
  <2>2. w \in {20, 40}
    OBVIOUS
  <2> HIDE DEF u, w
  <2> QED
    BY <1>2, <2>1, <2>2
<1>6. score("WASH_TRADE", f) = unit(720 * u + c)
  BY <1>3, <1>4, ScoreOf DEF WashTradeScore
<1>7. Threshold("WASH_TRADE") = 720 * u
  BY ThresholdIs
<1> HIDE DEF u, w, c
<1>8. unit(720 * u + c) >= 720 * u
  BY <1>2, <1>5 DEF unit, most, least
<1> QED
  BY <1>6, <1>7, <1>8 DEF fires

(* A row that passes the gate of a front run alerts as one.                 *)
LEMMA GateIsFront ==
    ASSUME NEW f, IsGoldFeatures(f), FrontGate(f)
    PROVE  fires("FRONT_RUNNING", f)
<1> DEFINE u == Second * Scale
           b == least(f.roundTripGainBps, 10 * Scale)
           v == Second * b
<1>1. /\ Scale \in Nat \ {0} /\ Second \in Nat \ {0} /\ f.roundTripGainBps \in Int
  BY DetectorAssumption DEF DetectorAssumption, IsGoldFeatures
<1>2. u \in Nat \ {0} /\ Unit = 1200 * u
  BY UnitIs
<1>3. b \in Nat
  BY <1>1 DEF FrontGate, least
<1>4. v \in Nat
  BY <1>1, <1>3, TimesNat
<1>5. Pct(60) * Scale = 12 * 60 * u /\ Pct(4) * b = 12 * 4 * v
  <2> HIDE DEF b
  <2> QED
    BY <1>1, <1>3, PctTimes
<1>6. score("FRONT_RUNNING", f) = least(Unit, 720 * u + 48 * v)
  <2>1. 12 * 60 * u = 720 * u /\ 12 * 4 * v = 48 * v
    BY <1>2, <1>4
  <2> QED
    BY <1>5, <2>1, ScoreOf DEF FrontRunningScore
<1>7. Threshold("FRONT_RUNNING") = 600 * u
  BY ThresholdIs
<1> HIDE DEF u, b, v
<1>8. least(Unit, 720 * u + 48 * v) >= 600 * u
  BY <1>2, <1>4 DEF least
<1> QED
  BY <1>6, <1>7, <1>8 DEF fires

(* A row that passes the gate of a burst alerts as one, severely if it has  *)
(* six fills.                                                               *)
LEMMA GateIsBurst ==
    ASSUME NEW f, IsGoldFeatures(f), MomentumGate(f)
    PROVE  /\ fires("MOMENTUM_IGNITION", f)
           /\ f.nExecs >= 6 => severity("MOMENTUM_IGNITION", f) >= 4
<1> DEFINE u == Second * Scale
           n == least(f.nExecs, 6)
           b == least(f.priceMoveBps, 5 * Scale)
           v == Second * b
           m == n * u
<1>1. /\ Scale \in Nat \ {0} /\ Second \in Nat \ {0}
      /\ f.priceMoveBps \in Int /\ f.nExecs \in Nat
  BY DetectorAssumption DEF DetectorAssumption, IsGoldFeatures
<1>2. u \in Nat \ {0} /\ Unit = 1200 * u
  BY UnitIs
<1>3. b \in Nat \ {0} /\ n \in {4, 5, 6} /\ (f.nExecs >= 6 => n = 6)
  BY <1>1 DEF MomentumGate, least
<1>4. v \in Nat \ {0}
  BY <1>1, <1>3, TimesPositive
<1>5. /\ Pct(30) * Scale = 12 * 30 * u /\ Pct(2) * b = 12 * 2 * v
      /\ 80 * Second * Scale * n = 80 * m
  <2>1. Pct(30) * Scale = 12 * 30 * u /\ Pct(2) * b = 12 * 2 * v
    <3> HIDE DEF b
    <3> QED
      BY <1>1, <1>3, PctTimes
  <2>2. 80 * Second * Scale * n = 80 * (n * (Second * Scale))
    <3> HIDE DEF n
    <3> QED
      BY <1>1, <1>3
  <2> QED
    BY <2>1, <2>2
<1>6. score("MOMENTUM_IGNITION", f) = least(Unit, 80 * m + 360 * u + 24 * v)
  <2>1. 12 * 30 * u = 360 * u /\ 12 * 2 * v = 24 * v
    BY <1>2, <1>4
  <2> QED
    BY <1>5, <2>1, ScoreOf DEF MomentumScore
<1>7. Threshold("MOMENTUM_IGNITION") = 600 * u
  BY ThresholdIs
<1>8. m \in {4 * u, 5 * u, 6 * u} /\ (f.nExecs >= 6 => m = 6 * u)
  <2> HIDE DEF u, n
  <2> QED
    BY <1>3
<1> HIDE DEF u, b, v, n, m
<1>9. /\ least(Unit, 80 * m + 360 * u + 24 * v) >= 600 * u
      /\ least(Unit, 80 * m + 360 * u + 24 * v) \in Int
      /\ m = 6 * u => 5 * least(Unit, 80 * m + 360 * u + 24 * v) > 3 * Unit
  BY <1>2, <1>4, <1>8 DEF least
<1> QED
  BY <1>6, <1>7, <1>8, <1>9, PastThreeFifths DEF fires, severity

(* A row that passes the gate of a marked close alerts as one when it ends  *)
(* at its high, severely so within the last minute.                         *)
LEMMA GateIsMarking ==
    ASSUME NEW f, IsGoldFeatures(f), MarkingGate(f), PrintAtHigh(f)
    PROVE  /\ fires("MARKING_THE_CLOSE", f)
           /\ f.secsToClose <= 60 * Second => severity("MARKING_THE_CLOSE", f) >= 4
<1> DEFINE u == Second * Scale
           b == least(f.priceMoveBps, 5 * Scale)
           v == Second * b
           t == f.secsToClose
           r == CloseWindow - least(t, CloseWindow)
           w == Scale * r
<1>1. /\ Scale \in Nat \ {0} /\ Second \in Nat \ {0}
      /\ f.priceMoveBps \in Int /\ t \in Int
  BY DetectorAssumption DEF DetectorAssumption, IsGoldFeatures
<1>2. u \in Nat \ {0} /\ Unit = 1200 * u
  BY UnitIs
<1>3. b \in Nat \ {0}
  BY <1>1 DEF MarkingGate, least
<1>4. v \in Nat \ {0}
  BY <1>1, <1>3, TimesPositive
<1>5. r \in Nat /\ (t <= 60 * Second => 60 * Second <= r)
  BY <1>1 DEF MarkingGate, CloseWindow, least
<1>6. w \in Nat /\ (t <= 60 * Second => 60 * u <= w)
  <2> HIDE DEF r
  <2>1. w \in Nat
    BY <1>1, <1>5, TimesNat
  <2>2. t <= 60 * Second => Scale * (60 * Second) <= Scale * r
    BY <1>1, <1>5, TimesMonotone
  <2>3. Scale * (60 * Second) = 60 * u
    BY <1>1
  <2> QED
    BY <2>1, <2>2, <2>3
<1>7. /\ Pct(30) * Scale = 360 * u /\ Pct(20) * Scale = 240 * u /\ Pct(4) * b = 48 * v
      /\ 3 * Scale * r = 3 * w
  <2>1. Pct(30) * Scale = 12 * 30 * u /\ Pct(20) * Scale = 12 * 20 * u
    BY <1>1, PctTimes
  <2>2. Pct(4) * b = 12 * 4 * v
    <3> HIDE DEF b
    <3> QED
      BY <1>3, PctTimes
  <2>3. 3 * Scale * r = 3 * (Scale * r)
    <3> HIDE DEF r
    <3> QED
      BY <1>1, <1>5
  <2>4. 12 * 30 * u = 360 * u /\ 12 * 20 * u = 240 * u /\ 12 * 4 * v = 48 * v
    BY <1>2, <1>4
  <2> QED
    BY <2>1, <2>2, <2>3, <2>4
<1>8. score("MARKING_THE_CLOSE", f) = least(Unit, 360 * u + 3 * w + 48 * v + 240 * u)
  BY <1>7, ScoreOf DEF MarkingTheCloseScore
<1>9. Threshold("MARKING_THE_CLOSE") = 600 * u
  BY ThresholdIs
<1> HIDE DEF u, b, v, r, w, t
<1>10. /\ least(Unit, 360 * u + 3 * w + 48 * v + 240 * u) >= 600 * u
       /\ least(Unit, 360 * u + 3 * w + 48 * v + 240 * u) \in Int
       /\ 60 * u <= w => 5 * least(Unit, 360 * u + 3 * w + 48 * v + 240 * u) > 3 * Unit
  BY <1>2, <1>4, <1>6 DEF least
<1> QED
  BY <1>6, <1>8, <1>9, <1>10, PastThreeFifths DEF fires, severity, t

-----------------------------------------------------------------------------
(* The layers *)

(* The row to_silver keeps of a key is a row of the table with that key. *)
LEMMA KeptRow ==
    ASSUME NEW bronze, NEW r \in bronze
    PROVE  LET kept == CHOOSE q \in bronze : DedupKey(q.event) = DedupKey(r.event)
           IN  kept \in bronze /\ DedupKey(kept.event) = DedupKey(r.event)
OBVIOUS

(* Silver has exactly one row of each key of bronze, and it is a row of     *)
(* bronze: whatever the bus repeats, no event is counted twice and none is  *)
(* lost (silver.py:34-35).                                                  *)
THEOREM SilverOneRowPerKey ==
    ASSUME NEW bronze
    PROVE  /\ to_silver(bronze) \subseteq bronze
           /\ \A r \in bronze : \E q \in to_silver(bronze) :
                DedupKey(q.event) = DedupKey(r.event)
           /\ \A q, r \in to_silver(bronze) :
                DedupKey(q.event) = DedupKey(r.event) => q = r
<1> DEFINE kept(k) == CHOOSE q \in bronze : DedupKey(q.event) = k
<1>1. \A r \in bronze : /\ kept(DedupKey(r.event)) \in bronze
                        /\ DedupKey(kept(DedupKey(r.event)).event) = DedupKey(r.event)
  BY KeptRow
<1>2. to_silver(bronze) = {kept(DedupKey(r.event)) : r \in bronze}
  BY DEF to_silver
<1> HIDE DEF kept
<1> QED
  BY <1>1, <1>2

(* A table of one row per key is silver already: to_silver run over its own *)
(* output, as a streaming job does that is run again, drops nothing         *)
(* (silver.py:34, idempotent re-delivery).                                  *)
THEOREM SilverIdempotent ==
    ASSUME NEW bronze
    PROVE  to_silver(to_silver(bronze)) = to_silver(bronze)
<1> DEFINE S == to_silver(bronze)
<1>1. /\ to_silver(S) \subseteq S
      /\ \A r \in S : \E q \in to_silver(S) : DedupKey(q.event) = DedupKey(r.event)
  BY SilverOneRowPerKey
<1>2. \A q, r \in S : DedupKey(q.event) = DedupKey(r.event) => q = r
  BY SilverOneRowPerKey
<1> HIDE DEF S
<1>3. S \subseteq to_silver(S)
  <2> SUFFICES ASSUME NEW r \in S PROVE r \in to_silver(S)
    OBVIOUS
  <2>1. PICK q \in to_silver(S) : DedupKey(q.event) = DedupKey(r.event)
    BY <1>1
  <2>2. q = r
    BY <1>1, <1>2, <2>1
  <2> QED
    BY <2>1, <2>2
<1>4. to_silver(S) = S
  BY <1>1, <1>3
<1> QED
  BY <1>4 DEF S

(* Where one key means one event, the events of silver are the events that  *)
(* arrived whole, each in one row, for any table: copies and rows with a    *)
(* field missing add none, hide none and replace none (bronze.py:40,        *)
(* silver.py:35).                                                           *)
THEOREM SilverHasTheWholeEvents ==
    ASSUME NEW raw,
           \A q, r \in to_bronze(raw) :
                DedupKey(q.event) = DedupKey(r.event) => q.event = r.event
    PROVE  /\ {r.event : r \in to_silver(to_bronze(raw))}
                = {r.event : r \in {q \in raw : RequiredPresent(q)}}
           /\ \A q, r \in to_silver(to_bronze(raw)) : q.event = r.event => q = r
<1> DEFINE B == to_bronze(raw)
           S == to_silver(B)
<1>1. /\ S \subseteq B
      /\ \A r \in B : \E q \in S : DedupKey(q.event) = DedupKey(r.event)
      /\ \A q, r \in S : DedupKey(q.event) = DedupKey(r.event) => q = r
  BY SilverOneRowPerKey
<1>2. B = {q \in raw : RequiredPresent(q)}
  BY DEF to_bronze
<1>3. \A q, r \in B : DedupKey(q.event) = DedupKey(r.event) => q.event = r.event
  OBVIOUS
<1> HIDE DEF B, S
<1>4. ASSUME NEW r \in B PROVE \E q \in S : q.event = r.event
  BY <1>1, <1>3
<1>5. {r.event : r \in S} = {r.event : r \in B}
  BY <1>1, <1>4
<1>6. \A q, r \in S : q.event = r.event => q = r
  BY <1>1
<1> QED
  BY <1>2, <1>5, <1>6 DEF B, S

-----------------------------------------------------------------------------
(* Gold rows *)

(* The numbers of an event that gold computes with.                         *)
Measured(e) ==
    /\ e.t \in Nat /\ e.price \in Nat /\ e.qty \in Nat
    /\ e.lastQty \in Nat /\ e.lastPx \in Nat

(* Quotient and remainder are integers.                                     *)
LEMMA QuotientInt ==
    ASSUME NEW a \in Int, NEW b \in Nat \ {0}
    PROVE  a \div b \in Int /\ a % b \in Int
OBVIOUS

(* Products of integers are integers.                                       *)
LEMMA ProductInt ==
    ASSUME NEW a \in Int, NEW b \in Int
    PROVE  a * b \in Int
OBVIOUS

(* A factor keeps quotient and remainder integers.                          *)
LEMMA TimesType ==
    ASSUME NEW f \in Int, NEW b \in Nat \ {0},
           NEW part, part.quot \in Int, part.rem \in Int
    PROVE  Times(f, part, b).quot \in Int /\ Times(f, part, b).rem \in Int
<1>1. part.rem * f \in Int /\ part.quot * f \in Int
  BY ProductInt
<1>2. (part.rem * f) \div b \in Int /\ (part.rem * f) % b \in Int
  BY <1>1, QuotientInt
<1> QED
  BY <1>1, <1>2 DEF Times

(* A figure in basis points is an integer.                                  *)
LEMMA BpsType ==
    ASSUME NEW a \in Int, NEW b \in Nat \ {0}
    PROVE  Bps(a, b) \in Int
<1> DEFINE p0 == [quot |-> a \div b, rem |-> a % b]
           p1 == Times(100, p0, b)
           p2 == Times(100, p1, b)
           p3 == Times(100, p2, b)
<1>1. Scale \div 100 \in Int
  BY DetectorAssumption, QuotientInt DEF DetectorAssumption
<1>2. p0.quot \in Int /\ p0.rem \in Int
  BY QuotientInt
<1> HIDE DEF p0
<1>3. p1.quot \in Int /\ p1.rem \in Int
  BY <1>2, TimesType
<1> HIDE DEF p1
<1>4. p2.quot \in Int /\ p2.rem \in Int
  BY <1>3, TimesType
<1> HIDE DEF p2
<1>5. p3.quot \in Int /\ p3.rem \in Int
  BY <1>4, TimesType
<1> HIDE DEF p3
<1>6. Times(Scale \div 100, p3, b).quot \in Int
  BY <1>1, <1>5, TimesType
<1> QED
  BY <1>6 DEF Bps, p0, p1, p2, p3

(* The sum of a function over its domain.                                   *)
LEMMA SumOfNats ==
    ASSUME NEW S, IsFiniteSet(S), NEW f, DOMAIN f = S, \A x \in S : f[x] \in Nat
    PROVE  SumFunction(f) \in Nat
BY SumNat DEF SumFunction

(* Volume and turnover of the fills on a side are naturals.                 *)
LEMMA VolumeType ==
    ASSUME NEW execs, IsFiniteSet(execs), \A r \in execs : Measured(r.event), NEW side
    PROVE  Volume(execs, side) \in Nat /\ Turnover(execs, side) \in Nat
<1> DEFINE S == OnSide(execs, side)
           v == [r \in S |-> r.event.lastQty]
           w == [r \in S |-> r.event.lastQty * r.event.lastPx]
<1>1. IsFiniteSet(S) /\ \A r \in S : r \in execs
  BY FS_Subset DEF OnSide
<1>2. ASSUME NEW r \in S PROVE v[r] \in Nat /\ w[r] \in Nat
  <2>1. r.event.lastQty \in Nat /\ r.event.lastPx \in Nat
    BY <1>1 DEF Measured
  <2>2. r.event.lastQty * r.event.lastPx \in Nat
    BY <2>1
  <2> QED
    BY <2>1, <2>2
<1>3. DOMAIN v = S /\ DOMAIN w = S
  OBVIOUS
<1>4. Volume(execs, side) = SumFunction(v) /\ Turnover(execs, side) = SumFunction(w)
  BY DEF Volume, Turnover
<1> HIDE DEF S, v, w
<1> QED
  BY <1>1, <1>2, <1>3, <1>4, SumOfNats

(* So the round trip gain is an integer, whatever was filled.               *)
LEMMA RoundTripGainType ==
    ASSUME NEW execs, IsFiniteSet(execs), \A r \in execs : Measured(r.event)
    PROVE  RoundTripGain(execs) \in Int
<1> DEFINE buys == Turnover(execs, "BUY") * Volume(execs, "SELL")
           sells == Turnover(execs, "SELL") * Volume(execs, "BUY")
<1>1. \A s : Volume(execs, s) \in Nat /\ Turnover(execs, s) \in Nat
  BY VolumeType
<1>2. buys \in Nat /\ sells \in Nat
  BY <1>1
<1>3. RoundTripGain(execs) = IF buys = 0 THEN 0 ELSE Bps(sells - buys, buys)
  BY DEF RoundTripGain
<1> HIDE DEF buys, sells
<1>4. CASE buys = 0
  BY <1>3, <1>4
<1>5. CASE buys # 0
  <2>1. sells - buys \in Int /\ buys \in Nat \ {0}
    BY <1>2, <1>5
  <2> QED
    BY <1>3, <1>5, <2>1, BpsType
<1> QED
  BY <1>4, <1>5

(* The time to the close is negative after it, and never out of the day.    *)
LEMMA TimeToCloseType ==
    ASSUME NEW at \in Nat
    PROVE  TimeToClose(at) \in (CloseOfDay - DayLen)..CloseOfDay
<1>1. CloseOfDay \in Nat /\ DayLen \in Nat \ {0}
  BY MedallionAssumption DEF MedallionAssumption
<1>2. at % DayLen \in 0..(DayLen - 1)
  BY <1>1
<1> QED
  BY <1>1, <1>2 DEF TimeToClose

AllMeasured(table) == \A r \in table : Measured(r.event)

(* A gold row the detectors can read, of this key.                          *)
WellFormed(g, key) ==
    /\ IsGoldFeatures(g)
    /\ g.trader = key[1] /\ g.symbol = key[2] /\ g.windowStart = key[3]
    /\ g.secsToClose \in (CloseOfDay - DayLen)..CloseOfDay

(* A row of gold is made of counts, sums, prices and ratios the detectors   *)
(* can read: no ratio is taken of nothing (to_gold).                        *)
LEMMA FeaturesType ==
    ASSUME NEW rows, IsFiniteSet(rows), rows # {},
           AllMeasured(rows),
           NEW key, NEW firstPx \in Nat, NEW lastPx \in Nat,
           NEW g, g = Features(rows, key, firstPx, lastPx)
    PROVE  WellFormed(g, key)
<1> DEFINE news == {r \in rows : r.event.msg = "NEW"}
           cancels == {r \in rows : r.event.msg = "CANCEL"}
           execs == {r \in rows : r.event.msg = "EXEC"}
           filled == Filled(execs)
           n == Cardinality(news)
           c == Cardinality(cancels)
           x == Cardinality(execs)
           buy == SumFunction([r \in OnSide(news, "BUY") |-> r.event.qty])
           sell == SumFunction([r \in OnSide(news, "SELL") |-> r.event.qty])
           price == [r \in rows |-> r.event.price]
           px == {price[r] : r \in rows}
           prices == px \ {NoPrice}
           close == [r \in rows |-> TimeToClose(r.event.t)]
           times == {close[r] : r \in rows}
<1>0. Scale \in Nat /\ \A r \in rows : Measured(r.event)
  BY DetectorAssumption DEF DetectorAssumption, AllMeasured
<1>1. IsFiniteSet(news) /\ IsFiniteSet(cancels) /\ IsFiniteSet(execs)
  BY FS_Subset
<1>2. n \in Nat /\ c \in Nat /\ x \in Nat
  BY <1>1, FS_CardinalityType
<1>3. ASSUME NEW s
      PROVE  SumFunction([r \in OnSide(news, s) |-> r.event.qty]) \in Nat
  <2> DEFINE q == [r \in OnSide(news, s) |-> r.event.qty]
  <2>1. IsFiniteSet(OnSide(news, s))
    BY <1>1, FS_Subset DEF OnSide
  <2>2. \A r \in OnSide(news, s) : q[r] \in Nat
    BY <1>0 DEF OnSide, Measured
  <2>3. DOMAIN q = OnSide(news, s)
    OBVIOUS
  <2> HIDE DEF q
  <2>4. SumFunction(q) \in Nat
    BY <2>1, <2>2, <2>3, SumOfNats
  <2> QED
    BY <2>4 DEF q
<1>4. buy \in Nat /\ sell \in Nat
  BY <1>3
<1>5. RoundTripGain(filled) \in Int
  <2>1. IsFiniteSet(filled) /\ \A r \in filled : Measured(r.event)
    BY <1>0, <1>1, FS_Subset DEF Filled
  <2> QED
    BY <2>1, RoundTripGainType
<1>6. /\ IsFiniteSet(prices) /\ prices \in SUBSET Nat
      /\ Cardinality(prices) \in Nat
      /\ (IF prices = {} THEN 0 ELSE Max(prices)) \in Nat
  <2>1. \A r \in rows : price[r] \in Nat
    BY <1>0 DEF Measured
  <2> HIDE DEF price
  <2>2. IsFiniteSet(px) /\ px \in SUBSET Nat
    BY <2>1, FiniteImage
  <2> HIDE DEF px
  <2>3. IsFiniteSet(prices) /\ prices \in SUBSET Nat
    BY <2>2, FS_Subset
  <2> HIDE DEF prices
  <2>4. prices \in SUBSET Int
    BY <2>3
  <2>5. prices # {} => Max(prices) \in prices
    BY <2>3, <2>4, MaxMinIn
  <2> QED
    BY <2>3, <2>5, FS_CardinalityType
<1>7. Min(times) \in (CloseOfDay - DayLen)..CloseOfDay
  <2>1. \A r \in rows : close[r] \in (CloseOfDay - DayLen)..CloseOfDay
    BY <1>0, TimeToCloseType DEF Measured
  <2> HIDE DEF close
  <2>2. CloseOfDay \in Int /\ DayLen \in Int
    BY MedallionAssumption DEF MedallionAssumption
  <2>3. times \in SUBSET Int /\ times # {}
    BY <2>1, <2>2
  <2>4. IsFiniteSet(times)
    BY FiniteImage
  <2>5. \A v \in times : v \in (CloseOfDay - DayLen)..CloseOfDay
    BY <2>1
  <2> HIDE DEF times
  <2>6. Min(times) \in times
    BY <2>3, <2>4, MaxMinIn
  <2> QED
    BY <2>5, <2>6
<1>8. /\ most(n, 1) \in Nat \ {0} /\ most(x, 1) \in Nat \ {0}
      /\ most(buy + sell, 1) \in Nat \ {0}
  <2> HIDE DEF n, x, buy, sell
  <2> QED
    BY <1>2, <1>4 DEF most
<1>9. /\ (c * Scale) \div most(n, 1) \in Nat /\ (n * Scale) \div most(x, 1) \in Nat
      /\ ((buy - sell) * Scale) \div most(buy + sell, 1) \in Int
  <2> HIDE DEF n, c, x, buy, sell
  <2>1. c * Scale \in Nat /\ n * Scale \in Nat
    BY <1>0, <1>2
  <2>2. (buy - sell) * Scale \in Int
    BY <1>0, <1>4
  <2>3. \A a \in Nat, b \in Nat \ {0} : a \div b \in Nat
    OBVIOUS
  <2> QED
    BY <1>8, <2>1, <2>2, <2>3, QuotientInt
<1>10. (IF firstPx > 0 THEN Bps(lastPx - firstPx, firstPx) ELSE 0) \in Int
  BY BpsType
<1>11. g = [trader |-> key[1], symbol |-> key[2], windowStart |-> key[3],
            nOrders |-> n, nCancels |-> c, nExecs |-> x,
            buyQty |-> buy, sellQty |-> sell,
            distinctPrices |-> Cardinality(prices),
            cancelRatio |-> (c * Scale) \div most(n, 1),
            orderToTradeRatio |-> (n * Scale) \div most(x, 1),
            qtyImbalance |-> ((buy - sell) * Scale) \div most(buy + sell, 1),
            lastPx |-> lastPx,
            maxPx |-> IF prices = {} THEN 0 ELSE Max(prices),
            priceMoveBps |-> IF firstPx > 0 THEN Bps(lastPx - firstPx, firstPx) ELSE 0,
            roundTripGainBps |-> RoundTripGain(filled),
            secsToClose |-> Min(times)]
  <2>1. px = {r.event.price : r \in rows} /\ times = {TimeToClose(r.event.t) : r \in rows}
    OBVIOUS
  <2> HIDE DEF px, times
  <2> QED
    BY <2>1 DEF Features
<1> HIDE DEF n, c, x, buy, sell, px, prices, times, execs, filled
<1>12. CloseOfDay \in Int /\ DayLen \in Int
  BY MedallionAssumption DEF MedallionAssumption
<1>13. IsGoldFeatures(g)
  BY <1>2, <1>4, <1>5, <1>6, <1>7, <1>9, <1>10, <1>11, <1>12 DEF IsGoldFeatures
<1>14. /\ g.trader = key[1] /\ g.symbol = key[2] /\ g.windowStart = key[3]
       /\ g.secsToClose \in (CloseOfDay - DayLen)..CloseOfDay
  BY <1>7, <1>11
<1> QED
  BY <1>13, <1>14 DEF WellFormed

(* The prices min_by and max_by may return.                                 *)
LEMMA EdgePrices ==
    ASSUME NEW priced, \A r \in priced : Measured(r.event)
    PROVE  FirstPx(priced) \subseteq Nat /\ LastPx(priced) \subseteq Nat
<1>1. \A at : PxAt(priced, at) \subseteq Nat
  BY DEF PxAt, Measured
<1> QED
  BY <1>1 DEF FirstPx, LastPx

(* Every gold row of a key is well formed and carries its key.              *)
LEMMA GoldRowsType ==
    ASSUME NEW silver, IsFiniteSet(silver), AllMeasured(silver),
           NEW key \in GoldKeys(silver), NEW g \in GoldRows(silver, key)
    PROVE  WellFormed(g, key)
<1> DEFINE rows   == {r \in silver : KeyOf(r.event) = key}
           priced == {r \in rows : r.event.price # NoPrice}
<1>1. PICK f \in FirstPx(priced), l \in LastPx(priced) : g = Features(rows, key, f, l)
  BY DEF GoldRows
<1>2. FirstPx(priced) \subseteq Nat /\ LastPx(priced) \subseteq Nat
  BY EdgePrices DEF AllMeasured
<1>3. rows # {}
  BY DEF GoldKeys
<1>4. IsFiniteSet(rows) /\ AllMeasured(rows)
  BY FS_Subset DEF AllMeasured
<1> HIDE DEF rows, priced
<1>5. f \in Nat /\ l \in Nat
  BY <1>1, <1>2
<1> QED
  BY <1>1, <1>3, <1>4, <1>5, FeaturesType

Group(silver, key) == {r \in silver : KeyOf(r.event) = key}
Priced(rows)       == {r \in rows : r.event.price # NoPrice}

(* The gold row g is made of the rows of a key and of the first and last    *)
(* prices f and l.                                                          *)
MadeOf(g, silver, key, f, l) ==
    /\ IsFiniteSet(Group(silver, key)) /\ Group(silver, key) # {}
    /\ f \in FirstPx(Priced(Group(silver, key)))
    /\ l \in LastPx(Priced(Group(silver, key)))
    /\ g = Features(Group(silver, key), key, f, l)
    /\ WellFormed(g, key)

(* Every gold row is made of the rows of its key, and of a first and a last *)
(* price that they have.                                                    *)
LEMMA GoldRowParts ==
    ASSUME NEW silver, IsFiniteSet(silver), AllMeasured(silver),
           NEW g \in to_gold(silver)
    PROVE  \E key \in GoldKeys(silver) : \E f, l : MadeOf(g, silver, key, f, l)
<1>1. PICK key \in GoldKeys(silver) : g \in GoldRows(silver, key)
  BY DEF to_gold
<1> DEFINE rows == Group(silver, key)
           priced == Priced(rows)
<1>2. PICK f \in FirstPx(priced), l \in LastPx(priced) : g = Features(rows, key, f, l)
  <2>1. GoldRows(silver, key)
          = {Features(rows, key, f, l) : f \in FirstPx(priced), l \in LastPx(priced)}
    BY DEF GoldRows, Group, Priced
  <2> HIDE DEF rows, priced
  <2> QED
    BY <1>1, <2>1
<1>3. WellFormed(g, key)
  BY <1>1, GoldRowsType
<1>4. IsFiniteSet(rows) /\ rows # {}
  BY FS_Subset DEF GoldKeys, Group
<1> HIDE DEF rows
<1>5. /\ IsFiniteSet(rows) /\ rows # {}
      /\ f \in FirstPx(Priced(rows)) /\ l \in LastPx(Priced(rows))
      /\ g = Features(rows, key, f, l) /\ WellFormed(g, key)
  BY <1>2, <1>3, <1>4
<1>6. MadeOf(g, silver, key, f, l)
  BY <1>5 DEF rows, MadeOf
<1> QED
  BY <1>6

(* Nothing moved.                                                           *)
LEMMA BpsOfNothing ==
    ASSUME NEW b \in Nat \ {0}
    PROVE  Bps(0, b) = 0
<1> DEFINE none == [quot |-> 0, rem |-> 0]
<1>1. 0 \div b = 0 /\ 0 % b = 0
  OBVIOUS
<1>2. ASSUME NEW f \in Int PROVE Times(f, none, b) = none
  <2>1. none.rem * f = 0 /\ none.quot * f = 0
    OBVIOUS
  <2> QED
    BY <1>1, <2>1 DEF Times
<1>3. Scale \div 100 \in Int
  BY DetectorAssumption, QuotientInt DEF DetectorAssumption
<1>4. Times(100, none, b) = none /\ Times(Scale \div 100, none, b) = none
  BY <1>2, <1>3
<1>5. [quot |-> 0 \div b, rem |-> 0 % b] = none /\ none.quot = 0
  BY <1>1
<1> HIDE DEF none
<1> QED
  BY <1>4, <1>5 DEF Bps

(* What the features of rows without a cancel are made of.                  *)
LEMMA NothingCancelled ==
    ASSUME NEW rows, IsFiniteSet(rows), NEW key, NEW firstPx, NEW lastPx,
           NEW g, g = Features(rows, key, firstPx, lastPx),
           \A r \in rows : r.event.msg # "CANCEL"
    PROVE  g.cancelRatio = 0
<1> DEFINE cancels == {r \in rows : r.event.msg = "CANCEL"}
           news == {r \in rows : r.event.msg = "NEW"}
           d == most(Cardinality(news), 1)
<1>1. cancels = {}
  OBVIOUS
<1>2. Cardinality(cancels) = 0
  BY <1>1, FS_EmptySet
<1>3. d \in Nat \ {0}
  <2>1. Cardinality(news) \in Nat
    BY FS_Subset, FS_CardinalityType
  <2> HIDE DEF news
  <2> QED
    BY <2>1 DEF most
<1>4. g.cancelRatio = (Cardinality(cancels) * Scale) \div d
  BY DEF Features
<1> HIDE DEF d, cancels
<1>5. Scale \in Nat /\ 0 * Scale = 0 /\ 0 \div d = 0
  BY <1>3, DetectorAssumption DEF DetectorAssumption
<1> QED
  BY <1>2, <1>4, <1>5

(* Orders alone, without a fill or a cancel, alert nobody, however many     *)
(* share the window (_benign_order).                                        *)
LEMMA OrdersOnlyAreQuiet ==
    ASSUME NEW rows, IsFiniteSet(rows), NEW key, NEW firstPx, NEW lastPx,
           NEW g, g = Features(rows, key, firstPx, lastPx), IsGoldFeatures(g),
           \A r \in rows : r.event.msg = "NEW",
           NEW d \in Detector
    PROVE  ~fires(d, g)
<1> DEFINE execs == {r \in rows : r.event.msg = "EXEC"}
<1>1. execs = {}
  OBVIOUS
<1>2. g.nExecs = Cardinality(execs)
  BY DEF Features
<1>3. g.nExecs = 0
  BY <1>1, <1>2, FS_EmptySet
<1>4. g.cancelRatio = 0
  BY NothingCancelled
<1> QED
  BY <1>3, <1>4, OrdersQuiet DEF OrdersAloneAreQuiet

(* A trader who only buys, at one price or at the market, alerts nobody:    *)
(* the client whose order is front-run (front_running).                     *)
LEMMA BuyingIsQuiet ==
    ASSUME NEW rows, IsFiniteSet(rows), NEW key, NEW px \in Nat \ {0},
           \A r \in rows : /\ r.event.side = "BUY" /\ r.event.msg # "CANCEL"
                           /\ r.event.price \in {NoPrice, px},
           NEW firstPx \in FirstPx(Priced(rows)), NEW lastPx \in LastPx(Priced(rows)),
           NEW g, g = Features(rows, key, firstPx, lastPx), IsGoldFeatures(g),
           NEW d \in Detector
    PROVE  ~fires(d, g)
<1> DEFINE news == {r \in rows : r.event.msg = "NEW"}
           priced == Priced(rows)
<1>1. g.cancelRatio = 0
  BY NothingCancelled
<1>2. g.sellQty = 0
  <2> DEFINE q == [r \in OnSide(news, "SELL") |-> r.event.qty]
  <2>1. OnSide(news, "SELL") = {}
    BY DEF OnSide
  <2>2. DOMAIN q = {}
    BY <2>1
  <2>3. g.sellQty = SumFunction(q)
    BY DEF Features
  <2> HIDE DEF q
  <2> QED
    BY <2>2, <2>3, SumEmpty DEF SumFunction
<1>3. g.priceMoveBps = 0
  <2>1. g.priceMoveBps = IF firstPx > 0 THEN Bps(lastPx - firstPx, firstPx) ELSE 0
    BY DEF Features
  <2>2. \A at : PxAt(priced, at) \subseteq {px}
    BY DEF PxAt, Priced
  <2>3. \/ firstPx = 0
        \/ firstPx = px /\ lastPx = px
    <3>1. CASE priced = {}
      BY <3>1 DEF FirstPx
    <3>2. CASE priced # {}
      BY <2>2, <3>2 DEF FirstPx, LastPx
    <3> QED
      BY <3>1, <3>2
  <2> HIDE DEF priced
  <2>4. CASE firstPx = 0
    BY <2>1, <2>4
  <2>5. CASE firstPx = px /\ lastPx = px
    <3>1. lastPx - firstPx = 0
      BY <2>5
    <3> QED
      BY <2>1, <2>5, <3>1, BpsOfNothing
  <2> QED
    BY <2>3, <2>4, <2>5
<1>4. ~WashGate(g) /\ ~FrontGate(g) /\ ~MomentumGate(g) /\ ~MarkingGate(g)
  BY <1>2, <1>3 DEF WashGate, FrontGate, MomentumGate, MarkingGate
<1>5. CASE d = "SPOOFING"
  <2>1. 5 * g.cancelRatio <= Scale
    BY <1>1, DetectorAssumption DEF DetectorAssumption
  <2> QED
    BY <1>5, <2>1, FewCancelsNoSpoofing
<1>6. CASE d # "SPOOFING"
  <2>1. score(d, g) = 0
    BY <1>4, <1>6, ScoreOf DEF Detector, WashTradeScore, FrontRunningScore,
                               MomentumScore, MarkingTheCloseScore
  <2> QED
    BY <2>1, FiringScores
<1> QED
  BY <1>5, <1>6

(* Gold is well formed whatever the raw table holds and however often, as   *)
(* long as its times, prices and quantities are numbers: every ratio has a  *)
(* denominator and every row is one the detectors can score (to_bronze,     *)
(* to_silver and to_gold together).                                         *)
THEOREM GoldIsWellFormed ==
    ASSUME NEW raw, IsFiniteSet(raw), AllMeasured(raw),
           NEW g \in Gold(raw)
    PROVE  /\ IsGoldFeatures(g)
           /\ \E r \in raw : /\ RequiredPresent(r)
                             /\ <<g.trader, g.symbol, g.windowStart>> = KeyOf(r.event)
           /\ g.secsToClose \in (CloseOfDay - DayLen)..CloseOfDay
<1> DEFINE B == to_bronze(raw)
           S == to_silver(B)
<1>1. S \subseteq B /\ B \subseteq raw /\ \A r \in B : RequiredPresent(r)
  BY SilverOneRowPerKey DEF to_bronze
<1>2. IsFiniteSet(S) /\ AllMeasured(S)
  <2>1. S \in SUBSET raw
    BY <1>1
  <2> HIDE DEF S
  <2> QED
    BY <2>1, FS_Subset DEF AllMeasured
<1> HIDE DEF B, S
<1>3. PICK key \in GoldKeys(S) : g \in GoldRows(S, key)
  BY DEF Gold, to_gold, B, S
<1>4. PICK r \in S : key = KeyOf(r.event)
  BY DEF GoldKeys
<1>5. /\ IsGoldFeatures(g)
      /\ g.trader = key[1] /\ g.symbol = key[2] /\ g.windowStart = key[3]
      /\ g.secsToClose \in (CloseOfDay - DayLen)..CloseOfDay
  BY <1>2, <1>3, GoldRowsType DEF WellFormed
<1>6. <<g.trader, g.symbol, g.windowStart>> = KeyOf(r.event)
  BY <1>4, <1>5 DEF KeyOf
<1> QED
  BY <1>1, <1>5, <1>6

-----------------------------------------------------------------------------
(* Which rows carry the events makes no difference to gold *)

(* The function b turns the table S into T, row by row.                     *)
Renames(b, S, T) ==
    {b[r] : r \in S} = T /\ \A q, r \in S : b[q] = b[r] => q = r

SameEvents(b, S) == \A r \in S : b[r].event = r.event

(* It turns rows that are picked by what they say into rows that are picked *)
(* the same way.                                                            *)
LEMMA PartRenamed ==
    ASSUME NEW b, NEW S, NEW T, Renames(b, S, T),
           NEW A, A \subseteq S, NEW C, C \subseteq T, \A r \in S : r \in A <=> b[r] \in C
    PROVE  Renames(b, A, C)
BY DEF Renames

(* Tables of renamed rows have as many rows.                                *)
LEMMA CountRenamed ==
    ASSUME NEW b, NEW S, NEW T, IsFiniteSet(S), Renames(b, S, T)
    PROVE  Cardinality(S) = Cardinality(T)
<1> DEFINE f == [r \in S |-> b[r]]
<1>1. f \in [S -> T] /\ (\A q, r \in S : f[q] = f[r] => q = r)
      /\ \A x \in T : \E r \in S : f[r] = x
  BY DEF Renames
<1> HIDE DEF f
<1>2. f \in Bijection(S, T)
  BY <1>1 DEF Bijection, Injection, Surjection, IsInjective
<1> QED
  BY <1>2, FS_Bijection DEF ExistsBijection

(* They have the same sums.                                                 *)
LEMMA SumOfRenamed ==
    ASSUME NEW b, NEW S, NEW T, IsFiniteSet(S), Renames(b, S, T),
           NEW f, DOMAIN f = S, \A r \in S : f[r] \in Int,
           NEW h, DOMAIN h = T, \A r \in S : f[r] = h[b[r]]
    PROVE  SumFunction(f) = SumFunction(h)
<1>1. {b[r] : r \in S} = T /\ \A q, r \in S : b[q] = b[r] => q = r
  BY DEF Renames
<1>2. SumFunctionOnSet(f, S) = SumFunctionOnSet(h, {b[r] : r \in S})
  BY <1>1, SumRenamed DEF IntOn
<1> QED
  BY <1>1, <1>2 DEF SumFunction

Kind(R, m) == {r \in R : r.event.msg = m}

(* The rows of a kind are renamed to the rows of that kind.                 *)
LEMMA KindRenamed ==
    ASSUME NEW b, NEW S, NEW T, IsFiniteSet(S), Renames(b, S, T), SameEvents(b, S), NEW m
    PROVE  /\ IsFiniteSet(Kind(S, m))
           /\ Renames(b, Kind(S, m), Kind(T, m))
           /\ SameEvents(b, Kind(S, m))
<1> DEFINE A == Kind(S, m)
           C == Kind(T, m)
<1>1. /\ A \subseteq S /\ C \subseteq T
      /\ \A r \in S : b[r] \in T /\ b[r].event = r.event
  BY DEF Renames, SameEvents, Kind
<1>2. \A r \in S : r \in A <=> b[r] \in C
  BY <1>1 DEF Kind
<1>3. IsFiniteSet(A) /\ SameEvents(b, A)
  BY <1>1, FS_Subset DEF SameEvents
<1> HIDE DEF A, C
<1>4. Renames(b, A, C)
  BY <1>1, <1>2, PartRenamed
<1> QED
  BY <1>3, <1>4 DEF A, C

(* The rows of a side are renamed to the rows of that side.                 *)
LEMMA SideRenamed ==
    ASSUME NEW b, NEW S, NEW T, IsFiniteSet(S), Renames(b, S, T), SameEvents(b, S), NEW d
    PROVE  /\ IsFiniteSet(OnSide(S, d))
           /\ Renames(b, OnSide(S, d), OnSide(T, d))
           /\ SameEvents(b, OnSide(S, d))
<1> DEFINE A == OnSide(S, d)
           C == OnSide(T, d)
<1>1. /\ A \subseteq S /\ C \subseteq T
      /\ \A r \in S : b[r] \in T /\ b[r].event = r.event
  BY DEF Renames, SameEvents, OnSide
<1>2. \A r \in S : r \in A <=> b[r] \in C
  BY <1>1 DEF OnSide
<1>3. IsFiniteSet(A) /\ SameEvents(b, A)
  BY <1>1, FS_Subset DEF SameEvents
<1> HIDE DEF A, C
<1>4. Renames(b, A, C)
  BY <1>1, <1>2, PartRenamed
<1> QED
  BY <1>3, <1>4 DEF A, C

(* The filled rows are renamed to the filled rows.                          *)
LEMMA FilledRenamed ==
    ASSUME NEW b, NEW S, NEW T, IsFiniteSet(S), Renames(b, S, T), SameEvents(b, S)
    PROVE  /\ IsFiniteSet(Filled(S)) /\ Filled(S) \subseteq S
           /\ Renames(b, Filled(S), Filled(T))
           /\ SameEvents(b, Filled(S))
<1> DEFINE A == Filled(S)
           C == Filled(T)
<1>1. /\ A \subseteq S /\ C \subseteq T
      /\ \A r \in S : b[r] \in T /\ b[r].event = r.event
  BY DEF Renames, SameEvents, Filled
<1>2. \A r \in S : r \in A <=> b[r] \in C
  BY <1>1 DEF Filled
<1>3. IsFiniteSet(A) /\ SameEvents(b, A)
  BY <1>1, FS_Subset DEF SameEvents
<1> HIDE DEF A, C
<1>4. Renames(b, A, C)
  BY <1>1, <1>2, PartRenamed
<1> QED
  BY <1>1, <1>3, <1>4 DEF A, C

(* Renamed rows have the same volumes, turnovers and ordered quantities.    *)
LEMMA VolumeRenamed ==
    ASSUME NEW b, NEW S, NEW T, IsFiniteSet(S), AllMeasured(S),
           Renames(b, S, T), SameEvents(b, S), NEW d
    PROVE  /\ Volume(S, d) = Volume(T, d)
           /\ Turnover(S, d) = Turnover(T, d)
           /\ SumFunction([r \in OnSide(S, d) |-> r.event.qty])
                = SumFunction([r \in OnSide(T, d) |-> r.event.qty])
<1> DEFINE A == OnSide(S, d)
           C == OnSide(T, d)
           q(R) == [r \in R |-> r.event.qty]
           v(R) == [r \in R |-> r.event.lastQty]
           w(R) == [r \in R |-> r.event.lastQty * r.event.lastPx]
<1>1. IsFiniteSet(A) /\ Renames(b, A, C) /\ SameEvents(b, A)
  BY SideRenamed
<1>2. \A r \in A : r \in S
  BY DEF OnSide
<1>3. ASSUME NEW r \in A
      PROVE  /\ r.event.qty \in Int /\ r.event.lastQty \in Int
             /\ r.event.lastQty * r.event.lastPx \in Int
             /\ b[r] \in C /\ b[r].event = r.event
  <2>1. r.event.qty \in Int /\ r.event.lastQty \in Int /\ r.event.lastPx \in Int
    BY <1>2 DEF AllMeasured, Measured
  <2>2. b[r] \in C /\ b[r].event = r.event
    BY <1>1 DEF Renames, SameEvents
  <2> QED
    BY <2>1, <2>2, ProductInt
<1> HIDE DEF A, C
<1>4. SumFunction(v(A)) = SumFunction(v(C))
  <2> DEFINE f == v(A)
             h == v(C)
  <2>1. DOMAIN f = A /\ DOMAIN h = C /\ \A r \in A : f[r] \in Int /\ f[r] = h[b[r]]
    BY <1>3
  <2> HIDE DEF f, h
  <2>2. SumFunction(f) = SumFunction(h)
    BY <1>1, <2>1, SumOfRenamed
  <2> QED
    BY <2>2 DEF f, h
<1>5. SumFunction(w(A)) = SumFunction(w(C))
  <2> DEFINE f == w(A)
             h == w(C)
  <2>1. DOMAIN f = A /\ DOMAIN h = C /\ \A r \in A : f[r] \in Int /\ f[r] = h[b[r]]
    BY <1>3
  <2> HIDE DEF f, h
  <2>2. SumFunction(f) = SumFunction(h)
    BY <1>1, <2>1, SumOfRenamed
  <2> QED
    BY <2>2 DEF f, h
<1>6. SumFunction(q(A)) = SumFunction(q(C))
  <2> DEFINE f == q(A)
             h == q(C)
  <2>1. DOMAIN f = A /\ DOMAIN h = C /\ \A r \in A : f[r] \in Int /\ f[r] = h[b[r]]
    BY <1>3
  <2> HIDE DEF f, h
  <2>2. SumFunction(f) = SumFunction(h)
    BY <1>1, <2>1, SumOfRenamed
  <2> QED
    BY <2>2 DEF f, h
<1> QED
  BY <1>4, <1>5, <1>6 DEF A, C, Volume, Turnover

(* The events decide the features, not the rows that carry them.            *)
LEMMA FeaturesRenamed ==
    ASSUME NEW b, NEW S, NEW T, IsFiniteSet(S), AllMeasured(S),
           Renames(b, S, T), SameEvents(b, S), NEW key, NEW f, NEW l
    PROVE  Features(S, key, f, l) = Features(T, key, f, l)
<1> DEFINE qty(R, d) == SumFunction([r \in OnSide(Kind(R, "NEW"), d) |-> r.event.qty])
           prices(R) == {r.event.price : r \in R} \ {NoPrice}
           times(R) == {TimeToClose(r.event.t) : r \in R}
<1>1. ASSUME NEW m
      PROVE  /\ Cardinality(Kind(S, m)) = Cardinality(Kind(T, m))
             /\ \A d : /\ Volume(Kind(S, m), d) = Volume(Kind(T, m), d)
                       /\ Turnover(Kind(S, m), d) = Turnover(Kind(T, m), d)
                       /\ SumFunction([r \in OnSide(Kind(S, m), d) |-> r.event.qty])
                            = SumFunction([r \in OnSide(Kind(T, m), d) |-> r.event.qty])
  <2> DEFINE A == Kind(S, m)
             C == Kind(T, m)
  <2>1. IsFiniteSet(A) /\ Renames(b, A, C) /\ SameEvents(b, A)
    BY KindRenamed
  <2>2. AllMeasured(A)
    BY DEF AllMeasured, Kind
  <2> HIDE DEF A, C
  <2>3. Cardinality(A) = Cardinality(C)
    BY <2>1, CountRenamed
  <2>4. \A d : /\ Volume(A, d) = Volume(C, d) /\ Turnover(A, d) = Turnover(C, d)
               /\ SumFunction([r \in OnSide(A, d) |-> r.event.qty])
                    = SumFunction([r \in OnSide(C, d) |-> r.event.qty])
    BY <2>1, <2>2, VolumeRenamed
  <2> QED
    BY <2>3, <2>4 DEF A, C
<1>2. qty(S, "BUY") = qty(T, "BUY") /\ qty(S, "SELL") = qty(T, "SELL")
  BY <1>1
<1>3. RoundTripGain(Filled(Kind(S, "EXEC"))) = RoundTripGain(Filled(Kind(T, "EXEC")))
  <2> DEFINE A == Kind(S, "EXEC")
             C == Kind(T, "EXEC")
  <2>1. IsFiniteSet(A) /\ Renames(b, A, C) /\ SameEvents(b, A)
    BY KindRenamed
  <2>2. AllMeasured(A)
    BY DEF AllMeasured, Kind
  <2> HIDE DEF A, C
  <2>3. /\ IsFiniteSet(Filled(A)) /\ Renames(b, Filled(A), Filled(C))
        /\ SameEvents(b, Filled(A)) /\ AllMeasured(Filled(A))
    BY <2>1, <2>2, FilledRenamed DEF AllMeasured
  <2>4. \A d : /\ Volume(Filled(A), d) = Volume(Filled(C), d)
               /\ Turnover(Filled(A), d) = Turnover(Filled(C), d)
    <3> DEFINE X == Filled(A)
               Y == Filled(C)
    <3>1. IsFiniteSet(X) /\ Renames(b, X, Y) /\ SameEvents(b, X) /\ AllMeasured(X)
      BY <2>3
    <3> HIDE DEF X, Y
    <3>2. \A d : /\ Volume(X, d) = Volume(Y, d) /\ Turnover(X, d) = Turnover(Y, d)
                 /\ SumFunction([r \in OnSide(X, d) |-> r.event.qty])
                      = SumFunction([r \in OnSide(Y, d) |-> r.event.qty])
      BY <3>1, VolumeRenamed
    <3> QED
      BY <3>2 DEF X, Y
  <2>5. RoundTripGain(Filled(A)) = RoundTripGain(Filled(C))
    BY <2>4 DEF RoundTripGain
  <2> QED
    BY <2>5 DEF A, C
<1>4. /\ \A r \in S : b[r] \in T /\ b[r].event = r.event
      /\ \A x \in T : \E r \in S : b[r] = x
  BY DEF Renames, SameEvents
<1>5. prices(S) = prices(T) /\ times(S) = times(T)
  <2>1. {r.event.price : r \in S} = {r.event.price : r \in T}
    BY <1>4
  <2>2. times(S) = times(T)
    BY <1>4
  <2> QED
    BY <2>1, <2>2
<1>6. ASSUME NEW R
      PROVE  Features(R, key, f, l) =
        [trader |-> key[1], symbol |-> key[2], windowStart |-> key[3],
         nOrders |-> Cardinality(Kind(R, "NEW")),
         nCancels |-> Cardinality(Kind(R, "CANCEL")),
         nExecs |-> Cardinality(Kind(R, "EXEC")),
         buyQty |-> qty(R, "BUY"), sellQty |-> qty(R, "SELL"),
         distinctPrices |-> Cardinality(prices(R)),
         cancelRatio |-> (Cardinality(Kind(R, "CANCEL")) * Scale)
                            \div most(Cardinality(Kind(R, "NEW")), 1),
         orderToTradeRatio |-> (Cardinality(Kind(R, "NEW")) * Scale)
                                  \div most(Cardinality(Kind(R, "EXEC")), 1),
         qtyImbalance |-> ((qty(R, "BUY") - qty(R, "SELL")) * Scale)
                             \div most(qty(R, "BUY") + qty(R, "SELL"), 1),
         lastPx |-> l,
         maxPx |-> IF prices(R) = {} THEN 0 ELSE Max(prices(R)),
         priceMoveBps |-> IF f > 0 THEN Bps(l - f, f) ELSE 0,
         roundTripGainBps |-> RoundTripGain(Filled(Kind(R, "EXEC"))),
         secsToClose |-> Min(times(R))]
  BY DEF Features, Kind
<1> HIDE DEF qty, prices, times
<1>7. \A m : Cardinality(Kind(S, m)) = Cardinality(Kind(T, m))
  BY <1>1
<1> QED
  BY <1>2, <1>3, <1>5, <1>6, <1>7

(* Nor do the rows matter to which prices come first and last.              *)
LEMMA EdgesRenamed ==
    ASSUME NEW b, NEW S, NEW T, Renames(b, S, T), SameEvents(b, S)
    PROVE  FirstPx(S) = FirstPx(T) /\ LastPx(S) = LastPx(T)
<1>1. /\ \A r \in S : b[r] \in T /\ b[r].event = r.event
      /\ \A x \in T : \E r \in S : b[r] = x
  BY DEF Renames, SameEvents
<1>2. ASSUME NEW at PROVE PxAt(S, at) = PxAt(T, at)
  BY <1>1 DEF PxAt
<1>3. {r.event.t : r \in S} = {r.event.t : r \in T}
  BY <1>1
<1>4. S = {} <=> T = {}
  BY <1>1
<1> QED
  BY <1>2, <1>3, <1>4 DEF FirstPx, LastPx

(* Gold is made of the events a table carries, not of the rows that carry   *)
(* them: tables with one row for each of the same events have the same      *)
(* gold (to_gold).                                                          *)
THEOREM GoldOfTheEvents ==
    ASSUME NEW S, IsFiniteSet(S), AllMeasured(S), NEW T,
           {r.event : r \in S} = {r.event : r \in T},
           \A q, r \in S : q.event = r.event => q = r,
           \A q, r \in T : q.event = r.event => q = r
    PROVE  to_gold(S) = to_gold(T)
<1> DEFINE b == [r \in S |-> CHOOSE q \in T : q.event = r.event]
<1>1. ASSUME NEW r \in S PROVE b[r] \in T /\ b[r].event = r.event
  <2>1. \E q \in T : q.event = r.event
    OBVIOUS
  <2> QED
    BY <2>1
<1>2. ASSUME NEW x \in T PROVE \E r \in S : b[r] = x
  <2>1. PICK r \in S : r.event = x.event
    OBVIOUS
  <2> QED
    BY <1>1, <2>1
<1> HIDE DEF b
<1>3. Renames(b, S, T) /\ SameEvents(b, S)
  BY <1>1, <1>2 DEF Renames, SameEvents
<1>4. GoldKeys(S) = GoldKeys(T)
  BY <1>1, <1>2 DEF GoldKeys
<1>5. ASSUME NEW key PROVE GoldRows(S, key) = GoldRows(T, key)
  <2> DEFINE A  == {r \in S : KeyOf(r.event) = key}
             C  == {r \in T : KeyOf(r.event) = key}
             pA == {r \in A : r.event.price # NoPrice}
             pC == {r \in C : r.event.price # NoPrice}
  <2>1. Renames(b, A, C) /\ SameEvents(b, A) /\ IsFiniteSet(A) /\ AllMeasured(A)
    <3>1. A \subseteq S /\ C \subseteq T /\ \A r \in S : r \in A <=> b[r] \in C
      BY <1>1
    <3>2. IsFiniteSet(A) /\ AllMeasured(A) /\ SameEvents(b, A)
      BY <1>1, <3>1, FS_Subset DEF AllMeasured, SameEvents
    <3> HIDE DEF A, C
    <3> QED
      BY <1>3, <3>1, <3>2, PartRenamed
  <2> HIDE DEF A, C
  <2>2. Renames(b, pA, pC) /\ SameEvents(b, pA)
    <3>1. \A r \in A : b[r] \in C /\ b[r].event = r.event
      BY <2>1 DEF Renames, SameEvents
    <3>2. pA \subseteq A /\ pC \subseteq C /\ \A r \in A : r \in pA <=> b[r] \in pC
      BY <3>1
    <3>3. SameEvents(b, pA)
      BY <3>1 DEF SameEvents
    <3> HIDE DEF pA, pC
    <3> QED
      BY <2>1, <3>2, <3>3, PartRenamed
  <2>3. FirstPx(pA) = FirstPx(pC) /\ LastPx(pA) = LastPx(pC)
    BY <2>2, EdgesRenamed
  <2>4. \A f, l : Features(A, key, f, l) = Features(C, key, f, l)
    BY <2>1, FeaturesRenamed
  <2>5. /\ GoldRows(S, key) = {Features(A, key, f, l) : f \in FirstPx(pA), l \in LastPx(pA)}
        /\ GoldRows(T, key) = {Features(C, key, f, l) : f \in FirstPx(pC), l \in LastPx(pC)}
    BY DEF GoldRows, A, C
  <2> HIDE DEF pA, pC
  <2> QED
    BY <2>3, <2>4, <2>5
<1> QED
  BY <1>4, <1>5 DEF to_gold

-----------------------------------------------------------------------------
(* The scenarios *)

Side  == {"BUY", "SELL"}

FixFields == {"msg", "id", "trader", "symbol", "side", "qty", "t", "price", "exec",
              "lastQty", "lastPx", "sid"}

(* An event as the FIX layer lets it through: numbers and a side, and what  *)
(* was filled if it is a fill.                                              *)
Whole(e) ==
    /\ DOMAIN e = FixFields
    /\ Measured(e) /\ e.qty # 0 /\ e.side \in Side
    /\ e.msg = "EXEC" => e.lastQty # 0 /\ e.lastPx # 0

(* What a scenario may be called with: prices leave room for its layers.    *)
IsContext(c) ==
    /\ c.t0 \in Nat /\ c.mid \in Nat \ (0..5) /\ c.symbol = c.mid
    /\ \E m \in Nat : c.sid = <<"abuse", m>>
    /\ IsDraws(c.draws)
    /\ c.trader # Client(c.sid)

Parties(c) == {c.trader, Client(c.sid)}

(* An event of a scenario that ends at hi.                                  *)
Belongs(e, c, hi) ==
    /\ Whole(e) /\ e.trader \in Parties(c)
    /\ e.sid = c.sid /\ e.symbol = c.symbol
    /\ c.t0 <= e.t /\ e.t <= hi
    /\ e.id[1] = c.sid[1] /\ e.id[2] = c.sid[2]

(* What the event is, whose, when and at what price.                        *)
Told(e, c, hi, who, role, n, msg, side, at, px) ==
    /\ Belongs(e, c, hi) /\ e.trader = who
    /\ e.id[3] = role /\ e.id[4] = n /\ e.msg = msg
    /\ e.side = side /\ e.t = c.t0 + at /\ e.price = px

KeysApart(s) == \A j, k \in DOMAIN s : DedupKey(s[j]) = DedupKey(s[k]) => j = k

IsRun(s) == s \in Seq(Range(s)) /\ KeysApart(s)

(* A run of events of a scenario.                                           *)
Part(s, c, hi) == IsRun(s) /\ \A e \in Range(s) : Belongs(e, c, hi)

(* No event of the one has the order and kind of an event of the other.     *)
Apart(S, T) == \A e \in S, f \in T : e.id # f.id \/ e.msg # f.msg

(* The parts of a context.                                                  *)
LEMMA ContextParts ==
    ASSUME NEW c, IsContext(c)
    PROVE  /\ c.t0 \in Nat /\ c.mid \in Nat \ (0..5) /\ c.symbol = c.mid
           /\ c.sid = <<"abuse", c.sid[2]>> /\ c.sid[1] = "abuse" /\ c.sid[2] \in Nat
           /\ IsDraws(c.draws)
           /\ c.trader \in Parties(c) /\ Client(c.sid) \in Parties(c)
           /\ c.trader # Client(c.sid)
<1>1. PICK m \in Nat : c.sid = <<"abuse", m>>
  BY DEF IsContext
<1>2. c.sid = <<"abuse", c.sid[2]>> /\ c.sid[1] = "abuse" /\ c.sid[2] \in Nat
  BY <1>1
<1> QED
  BY <1>2 DEF IsContext, Parties

(* The orders, fills and cancels a scenario is made of belong to it.        *)
LEMMA OrderBelongs ==
    ASSUME NEW c, IsContext(c), NEW who \in Parties(c), NEW role,
           NEW n \in Nat, NEW side \in Side, NEW qty \in Nat \ {0},
           NEW at \in Nat, NEW px \in Nat, NEW hi \in Nat, c.t0 + at <= hi
    PROVE  Told(NewOrder(c, who, role, n, side, qty, at, px), c, hi,
                who, role, n, "NEW", side, at, px)
<1> DEFINE e == NewOrder(c, who, role, n, side, qty, at, px)
<1>0. c.t0 \in Nat
  BY ContextParts
<1>1. e = [msg |-> "NEW", id |-> <<c.sid[1], c.sid[2], role, n>>, trader |-> who,
           symbol |-> c.symbol, side |-> side, qty |-> qty, t |-> c.t0 + at,
           price |-> px, exec |-> NoExec, lastQty |-> 0, lastPx |-> NoPrice,
           sid |-> c.sid]
  BY DEF NewOrder, Id
<1>2. c.t0 + at \in Nat /\ c.t0 <= c.t0 + at
  BY <1>0
<1> HIDE DEF e
<1>3. Whole(e) /\ e.trader \in Parties(c)
  BY <1>1, <1>2 DEF Whole, FixFields, Measured, NoPrice
<1>4. Told(e, c, hi, who, role, n, "NEW", side, at, px)
  BY <1>1, <1>2, <1>3 DEF Belongs, Told
<1> QED
  BY <1>4 DEF e

(* A fill belongs to the scenario it is made for.                           *)
LEMMA FillBelongs ==
    ASSUME NEW c, IsContext(c), NEW who \in Parties(c), NEW role,
           NEW n \in Nat, NEW side \in Side, NEW qty \in Nat \ {0},
           NEW at \in Nat, NEW px \in Nat \ {0}, NEW eid,
           NEW hi \in Nat, c.t0 + at <= hi
    PROVE  Told(Fill(c, who, role, n, side, qty, at, px, eid), c, hi,
                who, role, n, "EXEC", side, at, px)
<1> DEFINE e == Fill(c, who, role, n, side, qty, at, px, eid)
<1>0. c.t0 \in Nat
  BY ContextParts
<1>1. e = [msg |-> "EXEC", id |-> Id(c.sid, role, n), trader |-> who,
           symbol |-> c.symbol, side |-> side, qty |-> qty, t |-> c.t0 + at,
           price |-> px, exec |-> Id(c.sid, eid, n), lastQty |-> qty,
           lastPx |-> px, sid |-> c.sid]
  <2> DEFINE o == NewOrder(c, who, role, n, side, qty, at, px)
  <2>1. o = [msg |-> "NEW", id |-> Id(c.sid, role, n), trader |-> who,
             symbol |-> c.symbol, side |-> side, qty |-> qty, t |-> c.t0 + at,
             price |-> px, exec |-> NoExec, lastQty |-> 0, lastPx |-> NoPrice,
             sid |-> c.sid]
    BY DEF NewOrder
  <2>2. e = [o EXCEPT !.msg = "EXEC", !.exec = Id(c.sid, eid, n),
                      !.lastQty = qty, !.lastPx = px]
    BY DEF Fill
  <2> HIDE DEF o, e
  <2> QED
    BY <2>1, <2>2
<1>2. /\ c.t0 + at \in Nat /\ c.t0 <= c.t0 + at
      /\ Id(c.sid, role, n) = <<c.sid[1], c.sid[2], role, n>>
  BY <1>0 DEF Id
<1> HIDE DEF e
<1>3. Whole(e) /\ e.trader \in Parties(c)
  BY <1>1, <1>2 DEF Whole, FixFields, Measured
<1>4. Told(e, c, hi, who, role, n, "EXEC", side, at, px)
  BY <1>1, <1>2, <1>3 DEF Belongs, Told
<1> QED
  BY <1>4 DEF e

(* So does a cancel, which has no price.                                    *)
LEMMA CancelBelongs ==
    ASSUME NEW c, IsContext(c), NEW role, NEW n \in Nat,
           NEW qty \in Nat \ {0}, NEW at \in Nat, NEW hi \in Nat, c.t0 + at <= hi
    PROVE  Told(Cancel(c, role, n, qty, at), c, hi,
                c.trader, role, n, "CANCEL", "BUY", at, NoPrice)
<1> DEFINE e == Cancel(c, role, n, qty, at)
<1>0. c.t0 \in Nat /\ c.trader \in Parties(c)
  BY ContextParts
<1>1. e = [msg |-> "CANCEL", id |-> <<c.sid[1], c.sid[2], role, n>>,
           trader |-> c.trader, symbol |-> c.symbol, side |-> "BUY", qty |-> qty,
           t |-> c.t0 + at, price |-> NoPrice, exec |-> NoExec, lastQty |-> 0,
           lastPx |-> NoPrice, sid |-> c.sid]
  BY DEF NewOrder, Cancel, Id
<1>2. c.t0 + at \in Nat /\ c.t0 <= c.t0 + at
  BY <1>0
<1> HIDE DEF e
<1>3. Whole(e) /\ e.trader \in Parties(c)
  BY <1>0, <1>1, <1>2 DEF Whole, FixFields, Measured, NoPrice, Side
<1>4. Told(e, c, hi, c.trader, role, n, "CANCEL", "BUY", at, NoPrice)
  BY <1>1, <1>2, <1>3 DEF Belongs, Told
<1> QED
  BY <1>4 DEF e

(* Events that differ in id or kind differ in the columns that are compared. *)
LEMMA MakePart ==
    ASSUME NEW c, NEW hi, NEW n \in Nat, NEW s, DOMAIN s = 1..n,
           s = [k \in 1..n |-> s[k]],
           \A k \in 1..n : Belongs(s[k], c, hi),
           \A j, k \in 1..n : s[j].id = s[k].id /\ s[j].msg = s[k].msg => j = k
    PROVE  Part(s, c, hi)
<1>1. s \in [1..n -> Range(s)]
  BY DEF Range
<1>2. s \in Seq(Range(s))
  BY <1>1
<1>3. KeysApart(s)
  BY DEF KeysApart, DedupKey
<1>4. \A e \in Range(s) : Belongs(e, c, hi)
  BY DEF Range
<1> QED
  BY <1>2, <1>3, <1>4 DEF Part, IsRun

(* Runs of different events, one after the other.                           *)
LEMMA JoinRuns ==
    ASSUME NEW s1, IsRun(s1), NEW s2, IsRun(s2), Apart(Range(s1), Range(s2))
    PROVE  IsRun(s1 \o s2) /\ Range(s1 \o s2) = Range(s1) \cup Range(s2)
<1> DEFINE m == Len(s1)
           n == Len(s2)
           s == s1 \o s2
           X == Range(s1) \cup Range(s2)
<1>1. s1 \in Seq(X) /\ s2 \in Seq(X) /\ m \in Nat /\ n \in Nat
      /\ DOMAIN s1 = 1..m /\ DOMAIN s2 = 1..n
  BY DEF IsRun
<1>2. /\ s \in Seq(X) /\ Len(s) = m + n
      /\ \A k \in 1..(m + n) : s[k] = IF k <= m THEN s1[k] ELSE s2[k - m]
  BY <1>1, ConcatProperties
<1> HIDE DEF s
<1>3. DOMAIN s = 1..(m + n)
  BY <1>2
<1> HIDE DEF m, n
<1>4. /\ \A k \in 1..(m + n) : k <= m => k \in DOMAIN s1 /\ s[k] = s1[k]
      /\ \A k \in 1..(m + n) : ~(k <= m) => k - m \in DOMAIN s2 /\ s[k] = s2[k - m]
  BY <1>1, <1>2
<1>5. /\ \A k \in DOMAIN s1 : s1[k] \in Range(s1)
      /\ \A k \in DOMAIN s2 : s2[k] \in Range(s2)
  BY DEF Range
<1>6. ASSUME NEW j \in DOMAIN s1, NEW k \in DOMAIN s2, DedupKey(s1[j]) = DedupKey(s2[k])
      PROVE  FALSE
  BY <1>5, <1>6 DEF DedupKey, Apart
<1>7. ASSUME NEW j \in DOMAIN s, NEW k \in DOMAIN s, DedupKey(s[j]) = DedupKey(s[k])
      PROVE  j = k
  <2>0. KeysApart(s1) /\ KeysApart(s2) /\ j \in 1..(m + n) /\ k \in 1..(m + n)
    BY <1>3 DEF IsRun
  <2>1. CASE j <= m /\ k <= m
    BY <1>4, <1>7, <2>0, <2>1 DEF KeysApart
  <2>2. CASE ~(j <= m) /\ ~(k <= m)
    <3>1. j - m = k - m
      BY <1>4, <1>7, <2>0, <2>2 DEF KeysApart
    <3> QED
      BY <1>1, <2>0, <3>1
  <2>3. CASE j <= m /\ ~(k <= m)
    BY <1>4, <1>6, <1>7, <2>0, <2>3
  <2>4. CASE ~(j <= m) /\ k <= m
    BY <1>4, <1>6, <1>7, <2>0, <2>4
  <2> QED
    BY <2>1, <2>2, <2>3, <2>4
<1>8. Range(s) = X
  <2>1. \A k \in DOMAIN s1 : k \in 1..(m + n) /\ k <= m
    BY <1>1
  <2>2. \A k \in DOMAIN s2 : k + m \in 1..(m + n) /\ ~(k + m <= m) /\ (k + m) - m = k
    BY <1>1
  <2>3. \A k \in DOMAIN s1 : s1[k] \in Range(s)
    BY <1>3, <1>4, <2>1 DEF Range
  <2>4. \A k \in DOMAIN s2 : s2[k] \in Range(s)
    BY <1>3, <1>4, <2>2 DEF Range
  <2>5. \A k \in DOMAIN s : s[k] \in Range(s1) \/ s[k] \in Range(s2)
    BY <1>3, <1>4 DEF Range
  <2> QED
    BY <2>3, <2>4, <2>5 DEF Range
<1>9. IsRun(s)
  BY <1>2, <1>7, <1>8 DEF IsRun, KeysApart
<1> QED
  BY <1>8, <1>9 DEF s

(* Two parts without an order and kind in common are one part together.     *)
LEMMA JoinParts ==
    ASSUME NEW c, NEW hi, NEW s1, Part(s1, c, hi), NEW s2, Part(s2, c, hi),
           Apart(Range(s1), Range(s2))
    PROVE  /\ Part(s1 \o s2, c, hi)
           /\ Range(s1 \o s2) = Range(s1) \cup Range(s2)
<1>1. IsRun(s1 \o s2) /\ Range(s1 \o s2) = Range(s1) \cup Range(s2)
  BY JoinRuns DEF Part
<1> QED
  BY <1>1 DEF Part

(* One event, and two of different orders or kinds.                         *)
LEMMA OnePart ==
    ASSUME NEW c, NEW hi, NEW a, Belongs(a, c, hi)
    PROVE  Part(<<a>>, c, hi) /\ Range(<<a>>) = {a}
<1> DEFINE s == <<a>>
<1>1. DOMAIN s = 1..1 /\ s[1] = a /\ s = [k \in 1..1 |-> s[k]]
  OBVIOUS
<1> HIDE DEF s
<1>2. Range(s) = {a}
  BY <1>1 DEF Range
<1>3. \A k \in 1..1 : Belongs(s[k], c, hi)
  BY <1>1
<1>4. \A j, k \in 1..1 : j = k
  OBVIOUS
<1>5. Part(s, c, hi)
  BY <1>1, <1>3, <1>4, MakePart
<1> QED
  BY <1>2, <1>5 DEF s

(* Two events of different orders or kinds are a part.                      *)
LEMMA PairPart ==
    ASSUME NEW c, NEW hi, NEW a, Belongs(a, c, hi), NEW b, Belongs(b, c, hi),
           a.id # b.id \/ a.msg # b.msg
    PROVE  Part(<<a, b>>, c, hi) /\ Range(<<a, b>>) = {a, b}
<1> DEFINE s == <<a, b>>
<1>1. DOMAIN s = 1..2 /\ s[1] = a /\ s[2] = b /\ s = [k \in 1..2 |-> s[k]]
  OBVIOUS
<1> HIDE DEF s
<1>2. Range(s) = {a, b}
  BY <1>1 DEF Range
<1>3. \A k \in 1..2 : Belongs(s[k], c, hi)
  BY <1>1
<1>4. ASSUME NEW j \in 1..2, NEW k \in 1..2, s[j].id = s[k].id, s[j].msg = s[k].msg
      PROVE  j = k
  BY <1>1, <1>4
<1>5. Part(s, c, hi)
  BY <1>1, <1>3, <1>4, MakePart
<1> QED
  BY <1>2, <1>5 DEF s

(* What the scenarios draw lies in the ranges they draw from.               *)
LEMMA DrawnFrom ==
    ASSUME NEW c, IsContext(c), NEW k \in 1..6
    PROVE  /\ randint(c, k, 50, 55) \in 50..55 /\ randint(c, k, 2, 3) \in 2..3
           /\ randint(c, k, 5, 7) \in 5..7 /\ randint(c, k, 5, 20) \in 5..20
<1> DEFINE x == c.draws[k]
<1>1. x \in Nat
  BY DEF IsContext, IsDraws
<1>2. /\ randint(c, k, 50, 55) = 50 + (x % 6) /\ randint(c, k, 2, 3) = 2 + (x % 2)
      /\ randint(c, k, 5, 7) = 5 + (x % 3) /\ randint(c, k, 5, 20) = 5 + (x % 16)
  <2>1. 55 - 50 + 1 = 6 /\ 3 - 2 + 1 = 2 /\ 7 - 5 + 1 = 3 /\ 20 - 5 + 1 = 16
    OBVIOUS
  <2> QED
    BY <2>1 DEF randint
<1> HIDE DEF x
<1>3. x % 6 \in 0..5 /\ x % 2 \in 0..1 /\ x % 3 \in 0..2 /\ x % 16 \in 0..15
  BY <1>1
<1> QED
  BY <1>2, <1>3

(* The times the scenarios are made of.                                     *)
LEMMA Millis ==
    /\ ms(20) = 2 /\ ms(30) = 3 /\ ms(50) = 5 /\ ms(80) = 8 /\ ms(100) = 10
    /\ ms(150) = 15 /\ ms(200) = 20 /\ ms(300) = 30 /\ ms(350) = 35
    /\ ms(400) = 40 /\ ms(500) = 50 /\ ms(2000) = 200 /\ ms(15000) = 1500
BY DEF ms

(* What the client of a scenario does: it buys, at the market or at mid.    *)
Flow(e, c) ==
    e.trader = Client(c.sid)
        => e.side = "BUY" /\ e.msg # "CANCEL" /\ e.price \in {NoPrice, c.mid}

(* Priced events of one trader at one time have one price: no tie for       *)
(* min_by or max_by to break.                                               *)
Untied(E) ==
    \A d, e \in E :
        d.trader = e.trader /\ d.t = e.t /\ d.price # NoPrice /\ e.price # NoPrice
            => d.price = e.price

(* A scenario and its label agree.                                          *)
Faithful(made, type, c) ==
    /\ Part(made.events, c, made.label.end)
    /\ made.label.sid = c.sid /\ made.label.type = type
    /\ made.label.trader = c.trader /\ made.label.symbol = c.symbol
    /\ made.label.start = c.t0 /\ made.label.end \in Nat /\ c.t0 <= made.label.end
    /\ type # "MARKING_THE_CLOSE" => made.label.end < c.t0 + 200
    /\ \A id \in made.label.ids :
            \E e \in Range(made.events) : e.trader = c.trader /\ e.id = id
    /\ \A e \in Range(made.events) : Flow(e, c)
    /\ Untied(Range(made.events))

(* A scenario is faithful whose events are a part that lasts until its      *)
(* label's end, and whose label names orders of the abuser.                 *)
LEMMA MadeFaithful ==
    ASSUME NEW c, IsContext(c), NEW type, NEW end \in Nat, c.t0 <= end,
           type = "MARKING_THE_CLOSE" \/ end < c.t0 + 200,
           NEW s, Part(s, c, end), NEW ids,
           \A id \in ids : \E e \in Range(s) : e.trader = c.trader /\ e.id = id,
           \A e \in Range(s) : Flow(e, c), Untied(Range(s))
    PROVE  Faithful([events |-> s, label |-> Label(c, type, c.t0, end, ids)], type, c)
BY DEF Faithful, Label

(* Two orders and their fills, at one price (wash_trade).                   *)
LEMMA WashFaithful ==
    ASSUME NEW c, IsContext(c)
    PROVE  Faithful(wash_trade(c), "WASH_TRADE", c)
<1> DEFINE b  == NewOrder(c, c.trader, "wash-buy", 0, "BUY", 10, 0, c.mid)
           s  == NewOrder(c, c.trader, "wash-sell", 0, "SELL", 10, 10, c.mid)
           fb == Fill(c, c.trader, "wash-buy", 0, "BUY", 10, 15, c.mid, "beid")
           fs == Fill(c, c.trader, "wash-sell", 0, "SELL", 10, 15, c.mid, "seid")
           hi == c.t0 + 15
           all == <<b, s>> \o <<fb, fs>>
           ids == IdsOf(<<b, s>>)
<1>0. /\ c.t0 \in Nat /\ c.mid \in Nat \ {0} /\ c.trader \in Parties(c)
      /\ c.trader # Client(c.sid) /\ "BUY" \in Side /\ "SELL" \in Side
  BY ContextParts DEF Side
<1>1. /\ hi \in Nat /\ c.t0 + 0 <= hi /\ c.t0 + 10 <= hi /\ c.t0 + 15 <= hi
      /\ c.t0 <= hi /\ hi < c.t0 + 200
  BY <1>0
<1>2. wash_trade(c) = [events |-> all,
                       label |-> Label(c, "WASH_TRADE", c.t0, hi, ids)]
  BY Millis DEF wash_trade
<1> HIDE DEF hi
<1>3. Told(b, c, hi, c.trader, "wash-buy", 0, "NEW", "BUY", 0, c.mid)
  BY <1>0, <1>1, OrderBelongs
<1>4. Told(s, c, hi, c.trader, "wash-sell", 0, "NEW", "SELL", 10, c.mid)
  BY <1>0, <1>1, OrderBelongs
<1>5. Told(fb, c, hi, c.trader, "wash-buy", 0, "EXEC", "BUY", 15, c.mid)
  BY <1>0, <1>1, FillBelongs
<1>6. Told(fs, c, hi, c.trader, "wash-sell", 0, "EXEC", "SELL", 15, c.mid)
  BY <1>0, <1>1, FillBelongs
<1> HIDE DEF b, s, fb, fs
<1>7. ids = {b.id, s.id}
  BY DEF IdsOf
<1>8. Part(<<b, s>>, c, hi) /\ Range(<<b, s>>) = {b, s}
  <2>1. b.id # s.id
    BY <1>3, <1>4 DEF Told
  <2> QED
    BY <1>3, <1>4, <2>1, PairPart DEF Told
<1>9. Part(<<fb, fs>>, c, hi) /\ Range(<<fb, fs>>) = {fb, fs}
  <2>1. fb.id # fs.id
    BY <1>5, <1>6 DEF Told
  <2> QED
    BY <1>5, <1>6, <2>1, PairPart DEF Told
<1>10. Part(all, c, hi) /\ Range(all) = {b, s, fb, fs}
  <2>1. Apart({b, s}, {fb, fs})
    BY <1>3, <1>4, <1>5, <1>6 DEF Told, Apart
  <2> QED
    BY <1>8, <1>9, <2>1, JoinParts
<1> HIDE DEF all, ids
<1>11. \A e \in Range(all) : Flow(e, c)
  BY <1>0, <1>3, <1>4, <1>5, <1>6, <1>10 DEF Flow, Told
<1>12. \A id \in ids : \E e \in Range(all) : e.trader = c.trader /\ e.id = id
  BY <1>3, <1>4, <1>7, <1>10 DEF Told
<1>13. Untied(Range(all))
  BY <1>3, <1>4, <1>5, <1>6, <1>10 DEF Untied, Told
<1>14. Faithful([events |-> all, label |-> Label(c, "WASH_TRADE", c.t0, hi, ids)],
                "WASH_TRADE", c)
  BY <1>1, <1>10, <1>11, <1>12, <1>13, MadeFaithful
<1> QED
  BY <1>2, <1>14

(* The client's order and the abuser's round trip around it                 *)
(* (front_running).                                                         *)
LEMMA FrontFaithful ==
    ASSUME NEW c, IsContext(c)
    PROVE  Faithful(front_running(c), "FRONT_RUNNING", c)
<1> DEFINE who   == Client(c.sid)
           qty   == randint(c, 1, 5, 7)
           after == c.mid + randint(c, 6, 5, 20)
           hi    == c.t0 + 35
           e1 == NewOrder(c, who, "client-buy", 0, "BUY", ClientQty, 0, NoPrice)
           e2 == NewOrder(c, c.trader, "abuser-buy", 0, "BUY", qty, 5, c.mid)
           e3 == Fill(c, c.trader, "abuser-buy", 0, "BUY", qty, 10, c.mid, "abuser-eid")
           e4 == Fill(c, who, "client-buy", 0, "BUY", ClientQty, 20, c.mid, "client-eid")
           e5 == NewOrder(c, c.trader, "abuser-sell", 0, "SELL", qty, 30, after)
           e6 == Fill(c, c.trader, "abuser-sell", 0, "SELL", qty, 35, after,
                      "abuser-exit-eid")
           all == <<e1, e2, e3, e4, e5, e6>>
           ids == {e2.id}
<1>0. /\ c.t0 \in Nat /\ c.mid \in Nat \ {0} /\ c.trader \in Parties(c) /\ who \in Parties(c)
      /\ c.trader # who /\ "BUY" \in Side /\ "SELL" \in Side
      /\ NoPrice \in Nat
  BY ContextParts DEF Side, NoPrice
<1>1. /\ hi \in Nat /\ c.t0 + 0 <= hi /\ c.t0 + 5 <= hi /\ c.t0 + 10 <= hi
      /\ c.t0 + 20 <= hi /\ c.t0 + 30 <= hi /\ c.t0 + 35 <= hi
      /\ c.t0 <= hi /\ hi < c.t0 + 200
  BY <1>0
<1>2. front_running(c) = [events |-> all,
                          label |-> Label(c, "FRONT_RUNNING", c.t0, hi, ids)]
  BY Millis DEF front_running
<1>3. qty \in Nat \ {0} /\ ClientQty \in Nat \ {0} /\ after \in Nat \ {0}
  <2>1. qty \in Nat \ {0} /\ ClientQty \in Nat \ {0}
    <3>1. qty \in 5..7
      BY DrawnFrom
    <3> HIDE DEF qty
    <3> QED
      BY <3>1 DEF ClientQty
  <2>2. after \in Nat \ {0}
    <3> DEFINE rise == randint(c, 6, 5, 20)
    <3>1. rise \in 5..20
      BY DrawnFrom
    <3> HIDE DEF rise
    <3>2. c.mid + rise \in Nat \ {0}
      BY <1>0, <3>1
    <3> QED
      BY <3>2 DEF rise
  <2> QED
    BY <2>1, <2>2
<1> HIDE DEF hi, after, qty, who
<1>4. Told(e1, c, hi, who, "client-buy", 0, "NEW", "BUY", 0, NoPrice)
  BY <1>0, <1>1, <1>3, OrderBelongs
<1>5. Told(e2, c, hi, c.trader, "abuser-buy", 0, "NEW", "BUY", 5, c.mid)
  BY <1>0, <1>1, <1>3, OrderBelongs
<1>6. Told(e3, c, hi, c.trader, "abuser-buy", 0, "EXEC", "BUY", 10, c.mid)
  BY <1>0, <1>1, <1>3, FillBelongs
<1>7. Told(e4, c, hi, who, "client-buy", 0, "EXEC", "BUY", 20, c.mid)
  BY <1>0, <1>1, <1>3, FillBelongs
<1>8. Told(e5, c, hi, c.trader, "abuser-sell", 0, "NEW", "SELL", 30, after)
  BY <1>0, <1>1, <1>3, OrderBelongs
<1>9. Told(e6, c, hi, c.trader, "abuser-sell", 0, "EXEC", "SELL", 35, after)
  BY <1>0, <1>1, <1>3, FillBelongs
<1> HIDE DEF e1, e2, e3, e4, e5, e6
<1>10. /\ DOMAIN all = 1..6 /\ all = [k \in 1..6 |-> all[k]]
       /\ all[1] = e1 /\ all[2] = e2 /\ all[3] = e3
       /\ all[4] = e4 /\ all[5] = e5 /\ all[6] = e6
  OBVIOUS
<1> HIDE DEF all
<1>11. \A k \in 1..6 : k = 1 \/ k = 2 \/ k = 3 \/ k = 4 \/ k = 5 \/ k = 6
  OBVIOUS
<1>12. \A k \in 1..6 : Belongs(all[k], c, hi)
  BY <1>4, <1>5, <1>6, <1>7, <1>8, <1>9, <1>10, <1>11 DEF Told
<1>13. ASSUME NEW j \in 1..6, NEW k \in 1..6,
              all[j].id = all[k].id, all[j].msg = all[k].msg
       PROVE  j = k
  <2>1. /\ e1.id[3] = "client-buy" /\ e1.msg = "NEW"
        /\ e2.id[3] = "abuser-buy" /\ e2.msg = "NEW"
        /\ e3.id[3] = "abuser-buy" /\ e3.msg = "EXEC"
        /\ e4.id[3] = "client-buy" /\ e4.msg = "EXEC"
        /\ e5.id[3] = "abuser-sell" /\ e5.msg = "NEW"
        /\ e6.id[3] = "abuser-sell" /\ e6.msg = "EXEC"
    BY <1>4, <1>5, <1>6, <1>7, <1>8, <1>9 DEF Told
  <2> QED
    BY <1>10, <1>11, <1>13, <2>1
<1>14. Part(all, c, hi) /\ Range(all) = {e1, e2, e3, e4, e5, e6}
  <2>1. Part(all, c, hi)
    BY <1>10, <1>12, <1>13, MakePart
  <2> QED
    BY <1>10, <1>11, <2>1 DEF Range
<1>15. \A e \in Range(all) : Flow(e, c)
  BY <1>0, <1>4, <1>5, <1>6, <1>7, <1>8, <1>9, <1>14 DEF Flow, Told, who
<1>16. \A id \in ids : \E e \in Range(all) : e.trader = c.trader /\ e.id = id
  BY <1>5, <1>14 DEF Told
<1> HIDE DEF ids
<1>17. Untied(Range(all))
  <2>1. \A e \in Range(all) :
            /\ e.trader = c.trader /\ e.t <= c.t0 + 10 => e.price = c.mid
            /\ e.trader = c.trader /\ ~(e.t <= c.t0 + 10) => e.price = after
            /\ e.trader # c.trader => e.price \in {NoPrice, c.mid}
    BY <1>0, <1>4, <1>5, <1>6, <1>7, <1>8, <1>9, <1>14 DEF Told
  <2> QED
    BY <2>1 DEF Untied
<1>18. Faithful([events |-> all, label |-> Label(c, "FRONT_RUNNING", c.t0, hi, ids)],
                "FRONT_RUNNING", c)
  BY <1>1, <1>14, <1>15, <1>16, <1>17, MadeFaithful
<1> QED
  BY <1>2, <1>18

(* Layered orders, a genuine sell, and the cancels (spoofing).              *)
LEMMA SpoofingFaithful ==
    ASSUME NEW c, IsContext(c)
    PROVE  Faithful(spoofing(c), "SPOOFING", c)
<1> DEFINE qty(k) == randint(c, k, 50, 55)
           hi  == c.t0 + ms(400) + Layers * ms(20)
           o(k) == NewOrder(c, c.trader, "spoof", k - 1, "BUY", qty(k),
                            ms(50) * (k - 1), c.mid - k)
           x(k) == Cancel(c, "cancel", k - 1, 50, ms(400) + ms(20) * (k - 1))
           spoofs  == [k \in 1..Layers |-> o(k)]
           cancels == [k \in 1..Layers |-> x(k)]
           e1 == NewOrder(c, c.trader, "genuine-sell", 0, "SELL", 2, ms(300), c.mid)
           e2 == Fill(c, c.trader, "genuine-sell", 0, "SELL", 2, ms(350), c.mid, "eid")
           sell  == <<e1, e2>>
           front == spoofs \o sell
           all   == front \o cancels
           ids == IdsOf(spoofs) \cup IdsOf(cancels) \cup IdsOf(sell)
           S   == {o(k) : k \in 1..Layers}
           C   == {x(k) : k \in 1..Layers}
<1>0. /\ c.t0 \in Nat /\ c.mid \in Nat \ (0..5) /\ c.trader \in Parties(c)
      /\ c.trader # Client(c.sid) /\ "BUY" \in Side /\ "SELL" \in Side
  BY ContextParts DEF Side
<1>1. /\ hi \in Nat /\ ms(300) \in Nat /\ c.t0 + ms(300) <= hi
      /\ ms(350) \in Nat /\ c.t0 + ms(350) <= hi
      /\ c.t0 <= hi /\ hi < c.t0 + 200
      /\ \A k \in 1..Layers :
            /\ k - 1 \in Nat /\ c.mid - k \in Nat
            /\ ms(50) * (k - 1) \in Nat /\ c.t0 + ms(50) * (k - 1) <= hi
            /\ ms(400) + ms(20) * (k - 1) \in Nat
            /\ c.t0 + (ms(400) + ms(20) * (k - 1)) <= hi
  <2>1. /\ Layers = 4 /\ ms(300) = 30 /\ ms(350) = 35 /\ ms(50) = 5
        /\ ms(400) = 40 /\ ms(20) = 2
    BY Millis DEF Layers
  <2>2. hi = c.t0 + 48
    BY <1>0, <2>1
  <2> HIDE DEF hi
  <2>3. ASSUME NEW k \in 1..Layers
        PROVE  /\ k - 1 \in Nat /\ c.mid - k \in Nat
               /\ 5 * (k - 1) \in Nat /\ c.t0 + 5 * (k - 1) <= hi
               /\ 40 + 2 * (k - 1) \in Nat /\ c.t0 + (40 + 2 * (k - 1)) <= hi
    BY <1>0, <2>1, <2>2
  <2>4. ASSUME NEW k \in 1..Layers
        PROVE  /\ ms(50) * (k - 1) = 5 * (k - 1)
               /\ ms(400) + ms(20) * (k - 1) = 40 + 2 * (k - 1)
    BY <2>1
  <2>5. /\ hi \in Nat /\ 30 \in Nat /\ c.t0 + 30 <= hi
        /\ 35 \in Nat /\ c.t0 + 35 <= hi /\ c.t0 <= hi /\ hi < c.t0 + 200
    BY <1>0, <2>2
  <2> HIDE DEF hi
  <2> QED
    BY <2>1, <2>3, <2>4, <2>5
<1>2. spoofing(c) = [events |-> all,
                     label |-> Label(c, "SPOOFING", c.t0, hi, ids)]
  BY DEF spoofing
<1>3. (\A k \in 1..Layers : qty(k) \in Nat \ {0}) /\ c.mid \in Nat
  <2>1. \A k \in 1..4 : qty(k) \in 50..55
    BY DrawnFrom
  <2> HIDE DEF qty
  <2> QED
    BY <1>0, <2>1 DEF Layers
<1> HIDE DEF hi, qty
<1>4. ASSUME NEW k \in 1..Layers
      PROVE  Told(o(k), c, hi, c.trader, "spoof", k - 1, "NEW", "BUY",
                  ms(50) * (k - 1), c.mid - k)
  <2> DEFINE at == ms(50) * (k - 1)
             px == c.mid - k
             n  == k - 1
             q  == qty(k)
  <2>1. n \in Nat /\ px \in Nat /\ at \in Nat /\ c.t0 + at <= hi /\ q \in Nat \ {0}
    BY <1>1, <1>3
  <2> HIDE DEF at, px, n, q
  <2>2. Told(NewOrder(c, c.trader, "spoof", n, "BUY", q, at, px), c, hi,
             c.trader, "spoof", n, "NEW", "BUY", at, px)
    BY <1>0, <1>1, <2>1, OrderBelongs
  <2> QED
    BY <2>2 DEF at, px, n, q
<1>5. ASSUME NEW k \in 1..Layers
      PROVE  Told(x(k), c, hi, c.trader, "cancel", k - 1, "CANCEL", "BUY",
                  ms(400) + ms(20) * (k - 1), NoPrice)
  <2> DEFINE at == ms(400) + ms(20) * (k - 1)
             n  == k - 1
  <2>1. n \in Nat /\ at \in Nat /\ c.t0 + at <= hi
    BY <1>1
  <2> HIDE DEF at, n
  <2>2. Told(Cancel(c, "cancel", n, 50, at), c, hi,
             c.trader, "cancel", n, "CANCEL", "BUY", at, NoPrice)
    BY <1>1, <2>1, CancelBelongs
  <2> QED
    BY <2>2 DEF at, n
<1>6. Told(e1, c, hi, c.trader, "genuine-sell", 0, "NEW", "SELL", ms(300), c.mid)
  BY <1>0, <1>1, <1>3, OrderBelongs
<1>7. Told(e2, c, hi, c.trader, "genuine-sell", 0, "EXEC", "SELL", ms(350), c.mid)
  BY <1>0, <1>1, <1>3, FillBelongs
<1> HIDE DEF o, x, e1, e2
<1>8. Part(sell, c, hi) /\ Range(sell) = {e1, e2}
  <2>1. e1.msg # e2.msg
    BY <1>6, <1>7 DEF Told
  <2> QED
    BY <1>6, <1>7, <2>1, PairPart DEF Told
<1>9. Part(spoofs, c, hi) /\ Range(spoofs) = S
  <2>0. Layers \in Nat
    BY DEF Layers
  <2>1. \A j, k \in 1..Layers : o(j).id = o(k).id => j = k
    BY <1>4 DEF Told
  <2>2. Part(spoofs, c, hi)
    BY <1>4, <2>0, <2>1, MakePart DEF Told
  <2> QED
    BY <2>2 DEF Range
<1>10. Part(cancels, c, hi) /\ Range(cancels) = C
  <2>0. Layers \in Nat
    BY DEF Layers
  <2>1. \A j, k \in 1..Layers : x(j).id = x(k).id => j = k
    BY <1>5 DEF Told
  <2>2. Part(cancels, c, hi)
    BY <1>5, <2>0, <2>1, MakePart DEF Told
  <2> QED
    BY <2>2 DEF Range
<1>11. /\ Apart(S, {e1, e2}) /\ Apart(S \cup {e1, e2}, C)
       /\ \A e \in S \cup {e1, e2} \cup C : e.trader = c.trader
  BY <1>4, <1>5, <1>6, <1>7 DEF Told, Apart
<1>12. IdsOf(sell) = {e.id : e \in {e1, e2}}
  BY DEF IdsOf
<1>13. /\ IdsOf(spoofs) = {e.id : e \in Range(spoofs)}
       /\ IdsOf(cancels) = {e.id : e \in Range(cancels)}
  BY DEF IdsOf, Range
<1>13a. Untied(S \cup {e1, e2} \cup C)
  <2>1. ms(300) = 30 /\ ms(350) = 35 /\ \A k \in 1..Layers : ms(50) * (k - 1) = 5 * (k - 1)
    BY Millis DEF Layers
  <2>2. \A k \in 1..Layers : o(k).t = c.t0 + 5 * (k - 1) /\ o(k).price = c.mid - k
    BY <1>4, <2>1 DEF Told
  <2>3. \A e \in {e1, e2} : e.price = c.mid /\ e.t \in {c.t0 + 30, c.t0 + 35}
    BY <1>6, <1>7, <2>1 DEF Told
  <2>4. \A e \in C : e.price = NoPrice
    BY <1>5 DEF Told
  <2>5. ASSUME NEW d \in S, NEW e \in S, d.t = e.t PROVE d.price = e.price
    <3>1. PICK j \in 1..Layers : d = o(j)
      OBVIOUS
    <3>2. PICK k \in 1..Layers : e = o(k)
      OBVIOUS
    <3>3. j = k
      BY <1>0, <2>2, <2>5, <3>1, <3>2 DEF Layers
    <3> QED
      BY <3>1, <3>2, <3>3
  <2>6. ASSUME NEW d \in S, NEW e \in {e1, e2} PROVE d.t # e.t
    <3>1. PICK j \in 1..Layers : d = o(j)
      OBVIOUS
    <3> QED
      BY <1>0, <2>2, <2>3, <3>1 DEF Layers
  <2> HIDE DEF S, C
  <2> QED
    BY <2>3, <2>4, <2>5, <2>6 DEF Untied
<1> HIDE DEF S, C, spoofs, cancels, sell
<1>14. Part(front, c, hi) /\ Range(front) = S \cup {e1, e2}
  BY <1>8, <1>9, <1>11, JoinParts
<1> HIDE DEF front
<1>15. Part(all, c, hi) /\ Range(all) = S \cup {e1, e2} \cup C
  <2>1. Apart(Range(front), Range(cancels))
    BY <1>10, <1>11, <1>14
  <2>2. Range(all) = Range(front) \cup Range(cancels) /\ Part(all, c, hi)
    BY <1>10, <1>14, <2>1, JoinParts
  <2> QED
    BY <1>10, <1>14, <2>2
<1> HIDE DEF all
<1>16. \A e \in Range(all) : Flow(e, c)
  BY <1>0, <1>11, <1>15 DEF Flow
<1>17. \A id \in ids : \E e \in Range(all) : e.trader = c.trader /\ e.id = id
  BY <1>9, <1>10, <1>11, <1>12, <1>13, <1>15
<1> HIDE DEF ids
<1>18. Faithful([events |-> all, label |-> Label(c, "SPOOFING", c.t0, hi, ids)],
                "SPOOFING", c)
  BY <1>1, <1>15, <1>16, <1>17, <1>13a, MadeFaithful
<1> QED
  BY <1>2, <1>18

(* Waves of orders, a fill, and cancels (marking_the_close).                *)
LEMMA MarkingFaithful ==
    ASSUME NEW c, IsContext(c)
    PROVE  Faithful(marking_the_close(c), "MARKING_THE_CLOSE", c)
<1> DEFINE qty(k) == randint(c, k, 5, 7)
           fillAt == (Waves - 1) * Spacing + ms(500)
           hi     == c.t0 + fillAt + ms(200) + (Waves - 2) * ms(50)
           o(k) == NewOrder(c, c.trader, "mtc", k - 1, "BUY", qty(k),
                            Spacing * (k - 1), c.mid + k)
           x(k) == Cancel(c, "mtc-cancel", k - 1, qty(k),
                          fillAt + ms(200) + ms(50) * (k - 1))
           fill == Fill(c, c.trader, "mtc", Waves - 1, "BUY", qty(Waves), fillAt,
                        c.mid + Waves, "eid")
           waves   == [k \in 1..Waves |-> o(k)]
           cancels == [k \in 1..(Waves - 1) |-> x(k)]
           front == waves \o <<fill>>
           all   == front \o cancels
           ids   == IdsOf(waves)
           W     == {o(k) : k \in 1..Waves}
           C     == {x(k) : k \in 1..(Waves - 1)}
<1>0. /\ c.t0 \in Nat /\ c.mid \in Nat /\ c.trader \in Parties(c)
      /\ c.trader # Client(c.sid) /\ "BUY" \in Side
  BY ContextParts DEF Side
<1>1. /\ hi \in Nat /\ fillAt \in Nat /\ c.t0 + fillAt <= hi /\ c.t0 <= hi
      /\ Waves \in Nat /\ Waves - 1 \in Nat /\ c.mid + Waves \in Nat \ {0}
      /\ \A k \in 1..Waves :
            /\ k - 1 \in Nat /\ c.mid + k \in Nat
            /\ Spacing * (k - 1) \in Nat /\ c.t0 + Spacing * (k - 1) <= hi
      /\ \A k \in 1..(Waves - 1) :
            /\ k - 1 \in Nat
            /\ fillAt + ms(200) + ms(50) * (k - 1) \in Nat
            /\ c.t0 + (fillAt + ms(200) + ms(50) * (k - 1)) <= hi
  <2>1. /\ Waves = 3 /\ Spacing = 1500 /\ ms(500) = 50 /\ ms(200) = 20 /\ ms(50) = 5
    BY Millis DEF Waves, Spacing
  <2>2. fillAt = 3050
    BY <2>1
  <2> HIDE DEF fillAt
  <2>3. hi = c.t0 + 3075
    BY <1>0, <2>1, <2>2
  <2> HIDE DEF hi
  <2>4. ASSUME NEW k \in 1..Waves
        PROVE  /\ k - 1 \in Nat /\ c.mid + k \in Nat
               /\ 1500 * (k - 1) \in Nat /\ c.t0 + 1500 * (k - 1) <= hi
               /\ Spacing * (k - 1) = 1500 * (k - 1)
    BY <1>0, <2>1, <2>3
  <2>5. ASSUME NEW k \in 1..(Waves - 1)
        PROVE  /\ k - 1 \in Nat
               /\ 3070 + 5 * (k - 1) \in Nat /\ c.t0 + (3070 + 5 * (k - 1)) <= hi
    BY <1>0, <2>1, <2>3
  <2>6. ASSUME NEW k \in 1..(Waves - 1)
        PROVE  fillAt + ms(200) + ms(50) * (k - 1) = 3070 + 5 * (k - 1)
    <3>1. ms(50) * (k - 1) = 5 * (k - 1)
      BY <2>1
    <3>2. fillAt + ms(200) = 3070
      BY <2>1, <2>2
    <3> QED
      BY <3>1, <3>2
  <2>7. /\ hi \in Nat /\ 3050 \in Nat /\ c.t0 + 3050 <= hi /\ c.t0 <= hi
        /\ 3 \in Nat /\ 3 - 1 \in Nat /\ c.mid + 3 \in Nat \ {0}
    BY <1>0, <2>3
  <2> QED
    BY <2>1, <2>2, <2>4, <2>5, <2>6, <2>7
<1>2. marking_the_close(c) =
        [events |-> all, label |-> Label(c, "MARKING_THE_CLOSE", c.t0, hi, ids)]
  BY DEF marking_the_close
<1>3. \A k \in 1..Waves : qty(k) \in Nat \ {0}
  <2>1. \A k \in 1..3 : qty(k) \in 5..7
    BY DrawnFrom
  <2> HIDE DEF qty
  <2> QED
    BY <2>1 DEF Waves
<1> HIDE DEF hi, qty, fillAt
<1>4. ASSUME NEW k \in 1..Waves
      PROVE  Told(o(k), c, hi, c.trader, "mtc", k - 1, "NEW", "BUY",
                  Spacing * (k - 1), c.mid + k)
  <2> DEFINE at == Spacing * (k - 1)
             px == c.mid + k
             n  == k - 1
             q  == qty(k)
  <2>1. n \in Nat /\ px \in Nat /\ at \in Nat /\ c.t0 + at <= hi /\ q \in Nat \ {0}
    BY <1>1, <1>3
  <2> HIDE DEF at, px, n, q
  <2>2. Told(NewOrder(c, c.trader, "mtc", n, "BUY", q, at, px), c, hi,
             c.trader, "mtc", n, "NEW", "BUY", at, px)
    BY <1>0, <1>1, <1>3, <2>1, OrderBelongs
  <2> QED
    BY <2>2 DEF at, px, n, q
<1>5. ASSUME NEW k \in 1..(Waves - 1)
      PROVE  Told(x(k), c, hi, c.trader, "mtc-cancel", k - 1, "CANCEL", "BUY",
                  fillAt + ms(200) + ms(50) * (k - 1), NoPrice)
  <2> DEFINE at == fillAt + ms(200) + ms(50) * (k - 1)
             n  == k - 1
             q  == qty(k)
  <2>1. n \in Nat /\ at \in Nat /\ c.t0 + at <= hi /\ q \in Nat \ {0}
    <3>1. k \in 1..Waves
      BY <1>1
    <3> QED
      BY <1>1, <1>3, <3>1
  <2> HIDE DEF at, n, q
  <2>2. Told(Cancel(c, "mtc-cancel", n, q, at), c, hi,
             c.trader, "mtc-cancel", n, "CANCEL", "BUY", at, NoPrice)
    BY <1>1, <2>1, CancelBelongs
  <2> QED
    BY <2>2 DEF at, n, q
<1>6. Told(fill, c, hi, c.trader, "mtc", Waves - 1, "EXEC", "BUY", fillAt,
                c.mid + Waves)
  <2> DEFINE px == c.mid + Waves
             n  == Waves - 1
             q  == qty(Waves)
  <2>1. n \in Nat /\ px \in Nat \ {0} /\ q \in Nat \ {0}
    <3>1. Waves \in 1..Waves
      BY DEF Waves
    <3> QED
      BY <1>1, <1>3, <3>1
  <2> HIDE DEF px, n, q
  <2>2. Told(Fill(c, c.trader, "mtc", n, "BUY", q, fillAt, px, "eid"), c, hi,
             c.trader, "mtc", n, "EXEC", "BUY", fillAt, px)
    BY <1>0, <1>1, <2>1, FillBelongs
  <2> QED
    BY <2>2 DEF px, n, q
<1> HIDE DEF o, x, fill
<1>7. Part(<<fill>>, c, hi) /\ Range(<<fill>>) = {fill}
  BY <1>6, OnePart DEF Told
<1>8. Part(waves, c, hi) /\ Range(waves) = W
  <2>1. \A j, k \in 1..Waves : o(j).id = o(k).id => j = k
    BY <1>4 DEF Told
  <2>2. Part(waves, c, hi)
    BY <1>1, <1>4, <2>1, MakePart DEF Told
  <2> QED
    BY <2>2 DEF Range
<1>9. Part(cancels, c, hi) /\ Range(cancels) = C
  <2> DEFINE n == Waves - 1
  <2>0. n \in Nat
    BY <1>1
  <2> HIDE DEF n
  <2>1. \A k \in 1..n : Belongs(x(k), c, hi)
    BY <1>5 DEF Told, n
  <2>2. \A j, k \in 1..n : x(j).id = x(k).id => j = k
    BY <1>5 DEF Told, n
  <2>3. cancels = [k \in 1..n |-> x(k)] /\ C = {x(k) : k \in 1..n}
    BY DEF n
  <2> HIDE DEF cancels, C
  <2>4. Part(cancels, c, hi)
    BY <2>0, <2>1, <2>2, <2>3, MakePart
  <2> QED
    BY <2>3, <2>4 DEF Range
<1>10. /\ Apart(W, {fill}) /\ Apart(W \cup {fill}, C)
       /\ \A e \in W \cup {fill} \cup C : e.trader = c.trader
  BY <1>4, <1>5, <1>6 DEF Told, Apart
<1>11. ids = {e.id : e \in Range(waves)}
  BY DEF IdsOf, Range
<1> DEFINE one == <<fill>>
<1>12. Part(one, c, hi) /\ Range(one) = {fill} /\ front = waves \o one
  BY <1>7
<1>13a. Untied(W \cup {fill} \cup C)
  <2>1. /\ Waves = 3 /\ fillAt = 3050
        /\ \A k \in 1..Waves : Spacing * (k - 1) = 1500 * (k - 1)
    BY Millis DEF Waves, Spacing, fillAt
  <2>2. \A k \in 1..Waves : o(k).t = c.t0 + 1500 * (k - 1) /\ o(k).price = c.mid + k
    BY <1>4, <2>1 DEF Told
  <2>3. fill.t = c.t0 + 3050
    BY <1>6, <2>1 DEF Told
  <2>4. \A e \in C : e.price = NoPrice
    BY <1>5 DEF Told
  <2>5. ASSUME NEW d \in W, NEW e \in W, d.t = e.t PROVE d.price = e.price
    <3>1. PICK j \in 1..Waves : d = o(j)
      OBVIOUS
    <3>2. PICK k \in 1..Waves : e = o(k)
      OBVIOUS
    <3>3. j = k
      BY <1>0, <2>1, <2>2, <2>5, <3>1, <3>2
    <3> QED
      BY <3>1, <3>2, <3>3
  <2>6. ASSUME NEW d \in W PROVE d.t # fill.t
    <3>1. PICK j \in 1..Waves : d = o(j)
      OBVIOUS
    <3> QED
      BY <1>0, <2>1, <2>2, <2>3, <3>1
  <2> HIDE DEF W, C
  <2> QED
    BY <2>4, <2>5, <2>6 DEF Untied
<1> HIDE DEF W, C, waves, cancels, one, front
<1>13. Part(front, c, hi) /\ Range(front) = W \cup {fill}
  <2>1. Apart(Range(waves), Range(one))
    BY <1>8, <1>10, <1>12
  <2>2. /\ Part(waves \o one, c, hi)
        /\ Range(waves \o one) = Range(waves) \cup Range(one)
    <3>1. Part(waves, c, hi) /\ Part(one, c, hi)
      BY <1>8, <1>12
    <3> QED
      BY <2>1, <3>1, JoinParts
  <2> QED
    BY <1>8, <1>12, <2>2
<1>14. Part(all, c, hi) /\ Range(all) = W \cup {fill} \cup C
  <2>1. Apart(Range(front), Range(cancels))
    BY <1>9, <1>10, <1>13
  <2>2. Part(all, c, hi) /\ Range(all) = Range(front) \cup Range(cancels)
    BY <1>9, <1>13, <2>1, JoinParts
  <2> QED
    BY <1>9, <1>13, <2>2
<1> HIDE DEF all, ids
<1>15. \A e \in Range(all) : Flow(e, c)
  BY <1>0, <1>10, <1>14 DEF Flow
<1>16. \A id \in ids : \E e \in Range(all) : e.trader = c.trader /\ e.id = id
  BY <1>8, <1>10, <1>11, <1>14
<1>17. Faithful([events |-> all,
                 label |-> Label(c, "MARKING_THE_CLOSE", c.t0, hi, ids)],
                "MARKING_THE_CLOSE", c)
  BY <1>1, <1>14, <1>15, <1>16, <1>13a, MadeFaithful
<1> QED
  BY <1>2, <1>17

(* A burst of orders and fills, and the exit (momentum_ignition).           *)
LEMMA MomentumFaithful ==
    ASSUME NEW c, IsContext(c)
    PROVE  Faithful(momentum_ignition(c), "MOMENTUM_IGNITION", c)
<1> DEFINE qty(k) == randint(c, k, 2, 3)
           peak == c.mid + BurstSize
           exit == BurstSize * ms(80) + ms(150)
           hi   == c.t0 + exit + ms(30)
           o(k) == NewOrder(c, c.trader, "burst", k - 1, "BUY", qty(k),
                            ms(80) * (k - 1), c.mid + k)
           f(k) == Fill(c, c.trader, "burst", k - 1, "BUY", qty(k),
                        ms(80) * (k - 1) + ms(20), c.mid + k, "beid")
           news  == [k \in 1..BurstSize |-> o(k)]
           fills == [k \in 1..BurstSize |-> f(k)]
           burst == [k \in 1..(2 * BurstSize) |->
                        IF k % 2 = 1 THEN news[(k + 1) \div 2] ELSE fills[k \div 2]]
           e1 == NewOrder(c, c.trader, "exit-sell", 0, "SELL", ExitQty, exit, peak)
           e2 == Fill(c, c.trader, "exit-sell", 0, "SELL", ExitQty, exit + ms(30),
                      peak, "seid")
           sell == <<e1, e2>>
           all  == burst \o sell
           ids  == IdsOf(news) \cup {e1.id}
           O    == {o(k) : k \in 1..BurstSize}
           F    == {f(k) : k \in 1..BurstSize}
<1>0. /\ c.t0 \in Nat /\ c.mid \in Nat /\ c.trader \in Parties(c)
      /\ c.trader # Client(c.sid) /\ "BUY" \in Side /\ "SELL" \in Side
  BY ContextParts DEF Side
<1>1. /\ hi \in Nat /\ c.t0 <= hi /\ hi < c.t0 + 200
      /\ exit \in Nat /\ c.t0 + exit <= hi
      /\ exit + ms(30) \in Nat /\ c.t0 + (exit + ms(30)) <= hi
      /\ BurstSize = 5 /\ peak \in Nat \ {0} /\ ExitQty \in Nat \ {0}
      /\ \A k \in 1..BurstSize :
            /\ k - 1 \in Nat /\ c.mid + k \in Nat \ {0}
            /\ ms(80) * (k - 1) \in Nat /\ c.t0 + ms(80) * (k - 1) <= hi
            /\ ms(80) * (k - 1) + ms(20) \in Nat
            /\ c.t0 + (ms(80) * (k - 1) + ms(20)) <= hi
  <2>1. /\ BurstSize = 5 /\ ExitQty = 20
        /\ ms(80) = 8 /\ ms(150) = 15 /\ ms(30) = 3 /\ ms(20) = 2
    BY Millis DEF BurstSize, ExitQty
  <2>2. exit = 55
    BY <2>1
  <2> HIDE DEF exit
  <2>3. hi = c.t0 + 58
    BY <1>0, <2>1, <2>2
  <2> HIDE DEF hi
  <2>4. ASSUME NEW k \in 1..BurstSize
        PROVE  /\ k - 1 \in Nat /\ c.mid + k \in Nat \ {0}
               /\ 8 * (k - 1) \in Nat /\ c.t0 + 8 * (k - 1) <= hi
               /\ 8 * (k - 1) + 2 \in Nat /\ c.t0 + (8 * (k - 1) + 2) <= hi
               /\ ms(80) * (k - 1) = 8 * (k - 1)
    BY <1>0, <2>1, <2>3
  <2>5. /\ hi \in Nat /\ c.t0 <= hi /\ hi < c.t0 + 200
        /\ 55 \in Nat /\ c.t0 + 55 <= hi
        /\ 55 + 3 \in Nat /\ c.t0 + (55 + 3) <= hi
        /\ c.mid + 5 \in Nat \ {0} /\ 20 \in Nat \ {0}
    BY <1>0, <2>3
  <2> QED
    BY <2>1, <2>2, <2>4, <2>5
<1>2. momentum_ignition(c) =
        [events |-> all, label |-> Label(c, "MOMENTUM_IGNITION", c.t0, hi, ids)]
  BY DEF momentum_ignition
<1>3. \A k \in 1..BurstSize : qty(k) \in Nat \ {0}
  <2>1. \A k \in 1..5 : qty(k) \in 2..3
    BY DrawnFrom
  <2> HIDE DEF qty
  <2> QED
    BY <2>1 DEF BurstSize
<1> HIDE DEF hi, qty, exit, peak
<1>4. ASSUME NEW k \in 1..BurstSize
      PROVE  Told(o(k), c, hi, c.trader, "burst", k - 1, "NEW", "BUY",
                  ms(80) * (k - 1), c.mid + k)
  <2> DEFINE at == ms(80) * (k - 1)
             px == c.mid + k
             n  == k - 1
             q  == qty(k)
  <2>1. /\ n \in Nat /\ px \in Nat \ {0} /\ at \in Nat /\ c.t0 + at <= hi
        /\ q \in Nat \ {0}
    BY <1>1, <1>3
  <2> HIDE DEF at, px, n, q
  <2>2. Told(NewOrder(c, c.trader, "burst", n, "BUY", q, at, px), c, hi,
             c.trader, "burst", n, "NEW", "BUY", at, px)
    BY <1>0, <1>1, <1>3, <2>1, OrderBelongs
  <2> QED
    BY <2>2 DEF at, px, n, q
<1>5. ASSUME NEW k \in 1..BurstSize
      PROVE  Told(f(k), c, hi, c.trader, "burst", k - 1, "EXEC", "BUY",
                  ms(80) * (k - 1) + ms(20), c.mid + k)
  <2> DEFINE at == ms(80) * (k - 1) + ms(20)
             px == c.mid + k
             n  == k - 1
             q  == qty(k)
  <2>1. /\ n \in Nat /\ px \in Nat \ {0} /\ at \in Nat /\ c.t0 + at <= hi
        /\ q \in Nat \ {0}
    BY <1>1, <1>3
  <2> HIDE DEF at, px, n, q
  <2>2. Told(Fill(c, c.trader, "burst", n, "BUY", q, at, px, "beid"), c, hi,
             c.trader, "burst", n, "EXEC", "BUY", at, px)
    BY <1>0, <1>1, <1>3, <2>1, FillBelongs
  <2> QED
    BY <2>2 DEF at, px, n, q
<1>6. Told(e1, c, hi, c.trader, "exit-sell", 0, "NEW", "SELL", exit, peak)
  BY <1>0, <1>1, OrderBelongs
<1>7. Told(e2, c, hi, c.trader, "exit-sell", 0, "EXEC", "SELL", exit + ms(30),
                peak)
  <2> DEFINE at == exit + ms(30)
  <2>1. at \in Nat /\ c.t0 + at <= hi
    BY <1>1
  <2> HIDE DEF at
  <2>2. Told(Fill(c, c.trader, "exit-sell", 0, "SELL", ExitQty, at, peak, "seid"),
             c, hi, c.trader, "exit-sell", 0, "EXEC", "SELL", at, peak)
    BY <1>0, <1>1, <2>1, FillBelongs
  <2> QED
    BY <2>2 DEF at
<1> HIDE DEF o, f, e1, e2
<1>8. Part(sell, c, hi) /\ Range(sell) = {e1, e2}
  <2>1. e1.msg # e2.msg
    BY <1>6, <1>7 DEF Told
  <2> QED
    BY <1>6, <1>7, <2>1, PairPart DEF Told
(* Odd places hold the orders, even ones the fills, each once.              *)
<1>9. DOMAIN burst = 1..10 /\ burst = [k \in 1..10 |-> burst[k]]
  <2>1. 2 * BurstSize = 10
    BY <1>1
  <2> QED
    BY <2>1
<1>10. ASSUME NEW k \in 1..10
       PROVE  /\ k % 2 = 1 => (k + 1) \div 2 \in 1..BurstSize
                              /\ burst[k] = o((k + 1) \div 2)
              /\ k % 2 # 1 => k \div 2 \in 1..BurstSize
                              /\ burst[k] = f(k \div 2)
  <2>1. /\ k % 2 = 1 => (k + 1) \div 2 \in 1..5
        /\ k % 2 # 1 => k \div 2 \in 1..5
    OBVIOUS
  <2>2. k \in 1..(2 * BurstSize) /\ BurstSize = 5
    BY <1>1
  <2> QED
    BY <2>1, <2>2
<1>11. ASSUME NEW m \in 1..BurstSize
       PROVE  \E k \in 1..10 : burst[k] = o(m)
  <2>1. 2 * m - 1 \in 1..10 /\ (2 * m - 1) % 2 = 1 /\ ((2 * m - 1) + 1) \div 2 = m
    BY <1>1
  <2> QED
    BY <1>10, <2>1
<1>12. IdsOf(news) = {e.id : e \in O}
  BY DEF IdsOf
<1> HIDE DEF burst, news, fills, sell
<1>13. /\ \A e \in O : Belongs(e, c, hi) /\ e.trader = c.trader
                       /\ e.id[3] = "burst" /\ e.msg = "NEW"
       /\ \A e \in F : Belongs(e, c, hi) /\ e.trader = c.trader
                       /\ e.id[3] = "burst" /\ e.msg = "EXEC"
  BY <1>4, <1>5 DEF Told
<1>13a. Untied(O \cup F \cup {e1, e2})
  <2>1. /\ BurstSize = 5 /\ exit = 55 /\ ms(30) = 3
        /\ \A k \in 1..BurstSize : /\ ms(80) * (k - 1) = 8 * (k - 1)
                                  /\ ms(80) * (k - 1) + ms(20) = 8 * (k - 1) + 2
    BY Millis DEF BurstSize, exit
  <2>2. ASSUME NEW e \in O \cup F
        PROVE  \E k \in 1..BurstSize : /\ e.price = c.mid + k
                                       /\ \/ e.t = c.t0 + 8 * (k - 1)
                                          \/ e.t = c.t0 + (8 * (k - 1) + 2)
    <3>1. CASE e \in O
      <4>1. PICK k \in 1..BurstSize : e = o(k)
        BY <3>1
      <4>2. e.price = c.mid + k /\ e.t = c.t0 + 8 * (k - 1)
        BY <1>4, <2>1, <4>1 DEF Told
      <4> QED
        BY <4>2
    <3>2. CASE e \in F
      <4>1. PICK k \in 1..BurstSize : e = f(k)
        BY <3>2
      <4>2. e.price = c.mid + k /\ e.t = c.t0 + (8 * (k - 1) + 2)
        BY <1>5, <2>1, <4>1 DEF Told
      <4> QED
        BY <4>2
    <3> QED
      BY <3>1, <3>2
  <2>3. \A e \in {e1, e2} : e.price = peak /\ e.t \in {c.t0 + 55, c.t0 + 58}
    <3>1. exit + ms(30) = 58
      BY <2>1
    <3> QED
      BY <1>6, <1>7, <2>1, <3>1 DEF Told
  <2> HIDE DEF O, F
  <2>4. ASSUME NEW d \in O \cup F, NEW e \in O \cup F, d.t = e.t PROVE d.price = e.price
    <3>1. PICK j \in 1..BurstSize : /\ d.price = c.mid + j
                                   /\ \/ d.t = c.t0 + 8 * (j - 1)
                                      \/ d.t = c.t0 + (8 * (j - 1) + 2)
      BY <2>2
    <3>2. PICK k \in 1..BurstSize : /\ e.price = c.mid + k
                                   /\ \/ e.t = c.t0 + 8 * (k - 1)
                                      \/ e.t = c.t0 + (8 * (k - 1) + 2)
      BY <2>2
    <3>3. j = k
      BY <1>0, <2>1, <2>4, <3>1, <3>2
    <3> QED
      BY <3>1, <3>2, <3>3
  <2>5. ASSUME NEW d \in O \cup F, NEW e \in {e1, e2} PROVE d.t # e.t
    <3>1. PICK j \in 1..BurstSize : \/ d.t = c.t0 + 8 * (j - 1)
                                   \/ d.t = c.t0 + (8 * (j - 1) + 2)
      BY <2>2
    <3> QED
      BY <1>0, <2>1, <2>3, <3>1
  <2> QED
    BY <2>3, <2>4, <2>5 DEF Untied
<1>14. Part(burst, c, hi) /\ Range(burst) \subseteq O \cup F /\ O \subseteq Range(burst)
  <2>1. \A k \in 1..10 : burst[k] \in O \cup F
    BY <1>10
  <2>2. \A k \in 1..10 : Belongs(burst[k], c, hi)
    BY <1>13, <2>1
  <2>3. ASSUME NEW j \in 1..10, NEW k \in 1..10,
               burst[j].id = burst[k].id, burst[j].msg = burst[k].msg
        PROVE  j = k
    <3>1. \A m \in 1..BurstSize : /\ o(m).id[4] = m - 1 /\ f(m).id[4] = m - 1
                                  /\ o(m).msg = "NEW" /\ f(m).msg = "EXEC"
      BY <1>4, <1>5 DEF Told
    <3>2. CASE j % 2 = 1 /\ k % 2 = 1
      <4>1. ((j + 1) \div 2) - 1 = ((k + 1) \div 2) - 1
        BY <1>10, <2>3, <3>1, <3>2
      <4> QED
        BY <3>2, <4>1
    <3>3. CASE j % 2 # 1 /\ k % 2 # 1
      <4>1. (j \div 2) - 1 = (k \div 2) - 1
        BY <1>10, <2>3, <3>1, <3>3
      <4> QED
        BY <3>3, <4>1
    <3>4. CASE (j % 2 = 1) # (k % 2 = 1)
      BY <1>10, <2>3, <3>1, <3>4
    <3> QED
      BY <3>2, <3>3, <3>4
  <2>4. Part(burst, c, hi)
    BY <1>9, <2>2, <2>3, MakePart
  <2> QED
    BY <1>9, <1>11, <2>1, <2>4 DEF Range
<1>15. /\ Apart(Range(burst), {e1, e2})
       /\ \A e \in Range(burst) \cup {e1, e2} : e.trader = c.trader
  BY <1>6, <1>7, <1>13, <1>14 DEF Told, Apart
<1>16. Part(all, c, hi) /\ Range(all) = Range(burst) \cup {e1, e2}
  <2>1. Apart(Range(burst), Range(sell))
    BY <1>8, <1>15
  <2>2. Part(all, c, hi) /\ Range(all) = Range(burst) \cup Range(sell)
    BY <1>8, <1>14, <2>1, JoinParts
  <2> QED
    BY <1>8, <2>2
<1>16a. Untied(Range(all))
  BY <1>14, <1>16, <1>13a DEF Untied
<1> HIDE DEF all, O, F
<1>17. \A e \in Range(all) : Flow(e, c)
  BY <1>0, <1>15, <1>16 DEF Flow
<1>18. \A id \in ids : \E e \in Range(all) : e.trader = c.trader /\ e.id = id
  BY <1>12, <1>14, <1>15, <1>16
<1> HIDE DEF ids
<1>19. Faithful([events |-> all,
                 label |-> Label(c, "MOMENTUM_IGNITION", c.t0, hi, ids)],
                "MOMENTUM_IGNITION", c)
  BY <1>1, <1>16, <1>17, <1>18, <1>16a, MadeFaithful
<1> QED
  BY <1>2, <1>19

(* Whatever it is called with, a scenario returns events that are whole,    *)
(* apart in the columns deduplication compares, and its own, and a label    *)
(* that says of them what is true: when and on what they happen, and whose  *)
(* they are; and it is over within two seconds unless it marks the close    *)
(* (scenarios.py).                                                          *)
THEOREM ScenarioFaithful ==
    ASSUME NEW type \in Range(Archetypes), NEW c, IsContext(c)
    PROVE  Faithful(Scenario(type, c), type, c)
<1>1. type \in {"SPOOFING", "WASH_TRADE", "FRONT_RUNNING", "MOMENTUM_IGNITION",
                "MARKING_THE_CLOSE"}
  BY DEF Archetypes, Range
<1>2. CASE type = "SPOOFING"
  BY <1>2, SpoofingFaithful DEF Scenario
<1>3. CASE type = "WASH_TRADE"
  BY <1>3, WashFaithful DEF Scenario
<1>4. CASE type = "FRONT_RUNNING"
  BY <1>4, FrontFaithful DEF Scenario
<1>5. CASE type = "MOMENTUM_IGNITION"
  BY <1>5, MomentumFaithful DEF Scenario
<1>6. CASE type = "MARKING_THE_CLOSE"
  BY <1>6, MarkingFaithful DEF Scenario
<1> QED
  BY <1>1, <1>2, <1>3, <1>4, <1>5, <1>6

-----------------------------------------------------------------------------
(* What a row of gold says of the rows it is made of *)

(* The quantity ordered on a side.                                          *)
Ordered(rows, side) ==
    SumFunction([r \in OnSide(Kind(rows, "NEW"), side) |-> r.event.qty])

(* Each row carries an event of its own.                                    *)
OneRowEach(rows) == \A q, r \in rows : q.event = r.event => q = r

(* Who does not buy sells, and every execution says what was filled.        *)
TwoSided(rows) == \A r \in rows : r.event.side \in {"BUY", "SELL"}

Ordinary(rows) == TwoSided(rows) /\ Filled(Kind(rows, "EXEC")) = Kind(rows, "EXEC")

(* What the features of the rows are, each by itself.                       *)
Reads(g, rows, f, l) ==
    /\ g.nOrders = Cardinality(Kind(rows, "NEW"))
    /\ g.nCancels = Cardinality(Kind(rows, "CANCEL"))
    /\ g.nExecs = Cardinality(Kind(rows, "EXEC"))
    /\ g.buyQty = Ordered(rows, "BUY") /\ g.sellQty = Ordered(rows, "SELL")
    /\ g.cancelRatio = (g.nCancels * Scale) \div most(g.nOrders, 1)
    /\ g.orderToTradeRatio = (g.nOrders * Scale) \div most(g.nExecs, 1)
    /\ g.qtyImbalance = ((g.buyQty - g.sellQty) * Scale)
                           \div most(g.buyQty + g.sellQty, 1)
    /\ g.lastPx = l
    /\ g.maxPx = LET prices == {r.event.price : r \in rows} \ {NoPrice}
                 IN  IF prices = {} THEN 0 ELSE Max(prices)
    /\ g.priceMoveBps = IF f > 0 THEN Bps(l - f, f) ELSE 0
    /\ g.roundTripGainBps = RoundTripGain(Filled(Kind(rows, "EXEC")))
    /\ g.secsToClose = Min({TimeToClose(r.event.t) : r \in rows})

(* A gold row reads as its features say.                                    *)
LEMMA FeatureParts ==
    ASSUME NEW rows, NEW key, NEW f, NEW l, NEW g, g = Features(rows, key, f, l)
    PROVE  Reads(g, rows, f, l)
<1> DEFINE n == Cardinality(Kind(rows, "NEW"))
           c == Cardinality(Kind(rows, "CANCEL"))
           x == Cardinality(Kind(rows, "EXEC"))
           b == Ordered(rows, "BUY")
           s == Ordered(rows, "SELL")
           p == {r.event.price : r \in rows} \ {NoPrice}
           high == IF p = {} THEN 0 ELSE Max(p)
           t == Min({TimeToClose(r.event.t) : r \in rows})
           gain == RoundTripGain(Filled(Kind(rows, "EXEC")))
           move == IF f > 0 THEN Bps(l - f, f) ELSE 0
           d == Cardinality(p)
<1>1. g = [trader |-> key[1], symbol |-> key[2], windowStart |-> key[3],
           nOrders |-> n, nCancels |-> c, nExecs |-> x, buyQty |-> b, sellQty |-> s,
           distinctPrices |-> d,
           cancelRatio |-> (c * Scale) \div most(n, 1),
           orderToTradeRatio |-> (n * Scale) \div most(x, 1),
           qtyImbalance |-> ((b - s) * Scale) \div most(b + s, 1),
           lastPx |-> l, maxPx |-> high, priceMoveBps |-> move,
           roundTripGainBps |-> gain, secsToClose |-> t]
  BY DEF Features, Kind, Ordered
<1>2. g.maxPx = high
  BY <1>1
<1> HIDE DEF n, c, x, b, s, p, high, t, gain, move, d
<1> QED
  BY <1>1, <1>2 DEF Reads, n, c, x, b, s, p, high, t, gain, move

(* Rows of at most as many events are at most as many.                      *)
LEMMA CountAtMost ==
    ASSUME NEW R, IsFiniteSet(R), OneRowEach(R), NEW T, IsFiniteSet(T),
           \A r \in R : r.event \in T
    PROVE  Cardinality(R) \in Nat /\ Cardinality(R) <= Cardinality(T)
<1> DEFINE h == [r \in R |-> r.event]
<1>1. h \in [R -> T] /\ \A q, r \in R : h[q] = h[r] => q = r
  BY DEF OneRowEach
<1> HIDE DEF h
<1>2. h \in Injection(R, T)
  BY <1>1 DEF Injection, IsInjective
<1> QED
  BY <1>2, FS_Injection, FS_CardinalityType

(* Rows with n different events are at least n.                             *)
LEMMA CountAtLeast ==
    ASSUME NEW R, IsFiniteSet(R), NEW n \in Nat, NEW e,
           \A k \in 1..n : \E r \in R : r.event = e[k],
           \A j, k \in 1..n : e[j] = e[k] => j = k
    PROVE  Cardinality(R) \in Nat /\ n <= Cardinality(R)
<1> DEFINE h == [k \in 1..n |-> CHOOSE r \in R : r.event = e[k]]
<1>1. \A k \in 1..n : h[k] \in R /\ h[k].event = e[k]
  OBVIOUS
<1>2. h \in [1..n -> R]
  BY <1>1
<1> HIDE DEF h
<1>3. \A j, k \in 1..n : h[j] = h[k] => j = k
  BY <1>1
<1>4. h \in Injection(1..n, R)
  BY <1>2, <1>3 DEF Injection, IsInjective
<1>5. Cardinality(1..n) <= Cardinality(R)
  BY <1>4, FS_Injection
<1>6. Cardinality(1..n) = n
  BY FS_Interval
<1> QED
  BY <1>5, <1>6, FS_CardinalityType

(* One element, and two, are finitely many.                                 *)
LEMMA FewElements ==
    ASSUME NEW x, NEW y
    PROVE  /\ IsFiniteSet({x}) /\ Cardinality({x}) = 1
           /\ IsFiniteSet({x, y}) /\ Cardinality({x, y}) <= 2
<1>1. IsFiniteSet({}) /\ Cardinality({}) = 0
  BY FS_EmptySet
<1>2. {} \cup {x} = {x} /\ {x} \cup {y} = {x, y}
  OBVIOUS
<1>3. IsFiniteSet({x}) /\ Cardinality({x}) = 1
  <2>1. IsFiniteSet({} \cup {x})
        /\ Cardinality({} \cup {x}) = IF x \in {} THEN Cardinality({}) ELSE Cardinality({}) + 1
    BY <1>1, FS_AddElement
  <2> QED
    BY <1>1, <1>2, <2>1
<1>4. IsFiniteSet({x, y}) /\ Cardinality({x, y}) <= 2
  <2>1. IsFiniteSet({x} \cup {y})
        /\ Cardinality({x} \cup {y}) = IF y \in {x} THEN Cardinality({x}) ELSE Cardinality({x}) + 1
    BY <1>3, FS_AddElement
  <2> QED
    BY <1>2, <1>3, <2>1
<1> QED
  BY <1>3, <1>4

(* A sum of at most n numbers of at most m is at most m * n.                *)
LEMMA SumAtMost ==
    ASSUME NEW S, IsFiniteSet(S), NEW f, NEW m \in Nat,
           \A x \in S : f[x] \in Nat /\ f[x] <= m
    PROVE  SumFunctionOnSet(f, S) <= m * Cardinality(S)
<1> DEFINE P == {s \in SUBSET S : SumFunctionOnSet(f, s) <= m * Cardinality(s)}
<1>1. {} \in P
  <2>1. SumFunctionOnSet(f, {}) = 0 /\ Cardinality({}) = 0
    BY SumEmpty, FS_EmptySet
  <2> QED
    BY <2>1
<1>2. ASSUME NEW s \in SUBSET S, NEW x \in S \ s, s \in P
      PROVE  s \cup {x} \in P
  <2> DEFINE n == Cardinality(s)
  <2>1. IsFiniteSet(s) /\ IntOn(f, s \cup {x}) /\ x \notin s
    BY FS_Subset DEF IntOn
  <2>2. SumFunctionOnSet(f, s \cup {x}) = f[x] + SumFunctionOnSet(f, s)
    BY <2>1, SumAdd
  <2>3. n \in Nat /\ Cardinality(s \cup {x}) = n + 1
    BY <2>1, FS_CardinalityType, FS_AddElement
  <2>4. SumFunctionOnSet(f, s) \in Nat
    BY <2>1, SumNat
  <2>5. SumFunctionOnSet(f, s) <= m * n
    BY <1>2
  <2> HIDE DEF n
  <2>6. m * (n + 1) = m * n + m /\ m * n \in Nat
    BY <2>3
  <2>7. SumFunctionOnSet(f, s \cup {x}) <= m * (n + 1)
    BY <2>2, <2>4, <2>5, <2>6
  <2> QED
    BY <2>3, <2>7
<1> HIDE DEF P
<1>3. SUBSET S \subseteq P
  BY <1>1, <1>2, SubsetInduction
<1> QED
  BY <1>3 DEF P

-----------------------------------------------------------------------------
(* Basis points *)

(* part is the quotient and remainder of x by b.                            *)
Divided(part, x, b) ==
    /\ part.quot \in Int /\ part.rem \in 0..(b - 1)
    /\ part.quot * b + part.rem = x

(* Quotient and remainder make up what was divided.                         *)
LEMMA DividesInto ==
    ASSUME NEW x \in Int, NEW b \in Nat \ {0}
    PROVE  x \div b \in Int /\ x % b \in 0..(b - 1) /\ (x \div b) * b + (x % b) = x
OBVIOUS

(* A factor for the quotient and remainder is one for what they make up.    *)
LEMMA TimesDivides ==
    ASSUME NEW f \in Nat, NEW x \in Int, NEW b \in Nat \ {0},
           NEW part, Divided(part, x, b)
    PROVE  Divided(Times(f, part, b), f * x, b)
<1> DEFINE q == part.quot
           r == part.rem
           d == (r * f) \div b
           m == (r * f) % b
<1>1. q \in Int /\ r \in Int /\ q * b + r = x
  BY DEF Divided
<1>2. Times(f, part, b) = [quot |-> q * f + d, rem |-> m]
  BY DEF Times
<1> HIDE DEF q, r
<1>3. r * f \in Int /\ q * f \in Int /\ q * b \in Int
  BY <1>1, ProductInt
<1>4. d \in Int /\ m \in 0..(b - 1) /\ d * b + m = r * f
  BY <1>3, DividesInto
<1> HIDE DEF d, m
<1>5. (q * f + d) * b + m = f * x
  <2>1. (q * f + d) * b = (q * f) * b + d * b
    BY <1>3, <1>4
  <2>2. (q * f) * b = f * (q * b)
    BY <1>1
  <2>3. f * (q * b + r) = f * (q * b) + f * r /\ f * r = r * f
    BY <1>1, <1>3
  <2>4. f * (q * b) \in Int /\ d * b \in Int
    BY <1>3, <1>4, ProductInt
  <2>5. f * (q * b) + d * b + m = f * (q * b) + r * f
    BY <1>3, <1>4, <2>4
  <2> QED
    BY <1>1, <2>1, <2>2, <2>3, <2>5
<1> QED
  BY <1>2, <1>3, <1>4, <1>5 DEF Divided

(* q is the whole part of x / b.                                            *)
QuotientOf(q, x, b) == q \in Int /\ q * b <= x /\ x < q * b + b

(* Basis points are the quotient the code takes, although they are computed *)
(* by factors.                                                              *)
LEMMA BpsDivides ==
    ASSUME NEW a \in Int, NEW b \in Nat \ {0}
    PROVE  QuotientOf(Bps(a, b), 100 * (100 * (Scale * a)), b)
<1> DEFINE p0 == [quot |-> a \div b, rem |-> a % b]
           p1 == Times(100, p0, b)
           p2 == Times(100, p1, b)
           p3 == Times(100, p2, b)
           s  == Scale \div 100
           p4 == Times(s, p3, b)
<1>1. s \in Nat /\ 100 * s = Scale
  BY DetectorAssumption, MedallionAssumption DEF DetectorAssumption, MedallionAssumption
<1>2. Divided(p0, a, b)
  BY DividesInto DEF Divided
<1>3. Bps(a, b) = p4.quot
  BY DEF Bps
<1> HIDE DEF p0, s
<1>4. Divided(p1, 100 * a, b)
  BY <1>2, TimesDivides
<1> HIDE DEF p1
<1>5. Divided(p2, 100 * (100 * a), b)
  <2> DEFINE x == 100 * a
  <2>1. x \in Int
    OBVIOUS
  <2> HIDE DEF x
  <2> QED
    BY <1>4, <2>1, TimesDivides DEF x
<1> HIDE DEF p2
<1>6. Divided(p3, 100 * (100 * (100 * a)), b)
  <2> DEFINE x == 100 * (100 * a)
  <2>1. x \in Int
    OBVIOUS
  <2>2. Divided(p2, x, b)
    BY <1>5
  <2> HIDE DEF x
  <2>3. Divided(p3, 100 * x, b)
    BY <2>1, <2>2, TimesDivides
  <2> QED
    BY <2>3 DEF x
<1> HIDE DEF p3
<1>7. Divided(p4, s * (100 * (100 * (100 * a))), b)
  <2> DEFINE x == 100 * (100 * (100 * a))
  <2>1. x \in Int
    OBVIOUS
  <2>2. Divided(p3, x, b)
    BY <1>6
  <2> HIDE DEF x
  <2>3. Divided(p4, s * x, b)
    BY <1>1, <2>1, <2>2, TimesDivides
  <2> QED
    BY <2>3 DEF x
<1> HIDE DEF p4
<1>8. s * (100 * (100 * (100 * a))) = 100 * (100 * (Scale * a))
  <2> DEFINE y == 100 * a
  <2>1. y \in Int /\ Scale * a = (100 * s) * a /\ (100 * s) * a = s * y
    BY <1>1
  <2> HIDE DEF y
  <2>2. s * (100 * (100 * y)) = 100 * (100 * (s * y))
    BY <1>1, <2>1
  <2>3. s * (100 * (100 * y)) = 100 * (100 * (Scale * a))
    BY <2>1, <2>2
  <2> QED
    BY <2>3 DEF y
<1>9. ASSUME NEW q \in Int, NEW r \in 0..(b - 1), NEW x, q * b + r = x
      PROVE  QuotientOf(q, x, b)
  <2>1. q * b \in Int
    BY ProductInt
  <2> QED
    BY <1>9, <2>1 DEF QuotientOf
<1> QED
  BY <1>3, <1>7, <1>8, <1>9 DEF Divided

(* So a gain of a on b is at least m units when it is.                      *)
LEMMA BpsAtLeast ==
    ASSUME NEW a \in Int, NEW b \in Nat \ {0}, NEW m \in Int,
           m * b <= 100 * (100 * (Scale * a))
    PROVE  Bps(a, b) \in Int /\ m <= Bps(a, b)
<1> DEFINE q == Bps(a, b)
           x == 100 * (100 * (Scale * a))
<1>1. QuotientOf(q, x, b) /\ m * b <= x
  BY BpsDivides
<1> HIDE DEF q, x
<1>2. q \in Int /\ q * b <= x /\ x < q * b + b
  BY <1>1 DEF QuotientOf
<1>3. ASSUME q < m PROVE FALSE
  <2>1. b * (q + 1) <= b * m
    BY <1>2, <1>3, TimesMonotone
  <2>2. b * (q + 1) = q * b + b /\ b * m = m * b /\ q * b \in Int /\ m * b \in Int
    BY <1>2, ProductInt
  <2>3. x \in Int
    BY ProductInt, DetectorAssumption DEF x, DetectorAssumption
  <2> QED
    BY <1>1, <1>2, <2>1, <2>2, <2>3
<1> QED
  BY <1>2, <1>3 DEF q

(* A price that has risen by d cents from p has risen in basis points, as   *)
(* long as p is not astronomic.                                             *)
LEMMA RiseShows ==
    ASSUME NEW p \in Nat \ {0}, NEW d \in Nat, p <= 100 * (100 * (Scale * d))
    PROVE  Bps(d, p) > 0
<1>1. 1 * p <= 100 * (100 * (Scale * d)) /\ d \in Int /\ 1 \in Int
  OBVIOUS
<1>2. Bps(d, p) \in Int /\ 1 <= Bps(d, p)
  BY <1>1, BpsAtLeast
<1> QED
  BY <1>2

-----------------------------------------------------------------------------
(* Sums over the rows of a trader and window *)

(* The sum over one element.                                                *)
LEMMA SumOne ==
    ASSUME NEW f, NEW x, f[x] \in Int
    PROVE  SumFunctionOnSet(f, {x}) = f[x]
<1>1. IsFiniteSet({}) /\ x \notin {} /\ IntOn(f, {} \cup {x}) /\ {} \cup {x} = {x}
  BY FS_EmptySet DEF IntOn
<1>2. SumFunctionOnSet(f, {} \cup {x}) = f[x] + SumFunctionOnSet(f, {})
  BY <1>1, SumAdd
<1> QED
  BY <1>1, <1>2, SumEmpty

(* A common factor of the summands is one of the sum.                       *)
LEMMA SumScaled ==
    ASSUME NEW S, IsFiniteSet(S), NEW f, NEW h, NEW p \in Nat,
           \A x \in S : f[x] \in Nat /\ h[x] = p * f[x]
    PROVE  SumFunctionOnSet(h, S) = p * SumFunctionOnSet(f, S)
<1> DEFINE P == {s \in SUBSET S : SumFunctionOnSet(h, s) = p * SumFunctionOnSet(f, s)}
<1>1. {} \in P
  <2>1. SumFunctionOnSet(f, {}) = 0 /\ SumFunctionOnSet(h, {}) = 0
    BY SumEmpty
  <2> QED
    BY <2>1
<1>2. ASSUME NEW s \in SUBSET S, NEW x \in S \ s, s \in P
      PROVE  s \cup {x} \in P
  <2>1. IsFiniteSet(s) /\ x \notin s
    BY FS_Subset
  <2>2. \A y \in S : h[y] \in Int /\ f[y] \in Int
    BY ProductInt
  <2>3. IntOn(f, s \cup {x}) /\ IntOn(h, s \cup {x}) /\ IntOn(f, s)
    BY <2>2 DEF IntOn
  <2>4. /\ SumFunctionOnSet(f, s \cup {x}) = f[x] + SumFunctionOnSet(f, s)
        /\ SumFunctionOnSet(h, s \cup {x}) = h[x] + SumFunctionOnSet(h, s)
    BY <2>1, <2>3, SumAdd
  <2>5. SumFunctionOnSet(f, s) \in Int
    BY <2>1, <2>3, SumType
  <2>6. SumFunctionOnSet(h, s) = p * SumFunctionOnSet(f, s)
    BY <1>2
  <2> DEFINE a == f[x]
             b == SumFunctionOnSet(f, s)
  <2>7. a \in Int /\ b \in Int /\ h[x] = p * a
    BY <2>2, <2>5
  <2>8. h[x] + SumFunctionOnSet(h, s) = p * a + p * b
    BY <2>6, <2>7
  <2> HIDE DEF a, b
  <2>9. p * (a + b) = p * a + p * b
    BY <2>7
  <2>10. SumFunctionOnSet(h, s \cup {x}) = p * SumFunctionOnSet(f, s \cup {x})
    BY <2>4, <2>8, <2>9 DEF a, b
  <2> QED
    BY <2>10
<1> HIDE DEF P
<1>3. SUBSET S \subseteq P
  BY <1>1, <1>2, SubsetInduction
<1> QED
  BY <1>3 DEF P

(* What is ordered on a side is a number, and includes each order.          *)
LEMMA OrderedNat ==
    ASSUME NEW rows, IsFiniteSet(rows), AllMeasured(rows), NEW side
    PROVE  /\ Ordered(rows, side) \in Nat
           /\ \A r \in rows : r.event.msg = "NEW" /\ r.event.side = side
                                => r.event.qty <= Ordered(rows, side)
<1> DEFINE S == OnSide(Kind(rows, "NEW"), side)
           q == [r \in S |-> r.event.qty]
<1>1. /\ IsFiniteSet(S) /\ \A r \in S : r.event.qty \in Nat
      /\ \A r \in rows : r.event.msg = "NEW" /\ r.event.side = side => r \in S
  <2>1. S \in SUBSET rows
    BY DEF OnSide, Kind
  <2>2. \A r \in S : r.event.qty \in Nat
    BY <2>1 DEF AllMeasured, Measured
  <2>3. \A r \in rows : r.event.msg = "NEW" /\ r.event.side = side => r \in S
    BY DEF OnSide, Kind
  <2> HIDE DEF S
  <2> QED
    BY <2>1, <2>2, <2>3, FS_Subset
<1>2. DOMAIN q = S /\ \A r \in S : q[r] = r.event.qty
  OBVIOUS
<1>3. Ordered(rows, side) = SumFunctionOnSet(q, S)
  BY <1>2 DEF Ordered, SumFunction
<1> HIDE DEF S, q
<1>4. \A r \in S : q[r] \in Nat
  BY <1>1, <1>2
<1>5. SumFunctionOnSet(q, S) \in Nat /\ \A r \in S : q[r] <= SumFunctionOnSet(q, S)
  BY <1>1, <1>4, SumNat
<1> QED
  BY <1>1, <1>2, <1>3, <1>5

(* Nothing is ordered on a side without an order.                           *)
LEMMA OrderedNone ==
    ASSUME NEW rows, TwoSided(rows), NEW side \in {"BUY", "SELL"},
           \A r \in rows : r.event.msg = "NEW" => r.event.side # side
    PROVE  Ordered(rows, side) = 0
<1> DEFINE q == [r \in OnSide(Kind(rows, "NEW"), side) |-> r.event.qty]
<1>1. DOMAIN q = {}
  BY DEF OnSide, Kind, TwoSided
<1>2. Ordered(rows, side) = SumFunctionOnSet(q, DOMAIN q)
  BY DEF Ordered, SumFunction
<1> HIDE DEF q
<1> QED
  BY <1>1, <1>2, SumEmpty

(* Of one order, its quantity.                                              *)
LEMMA OrderedOne ==
    ASSUME NEW rows, OneRowEach(rows), TwoSided(rows), NEW side \in {"BUY", "SELL"},
           NEW e, e.qty \in Nat,
           \A r \in rows : r.event.msg = "NEW" /\ r.event.side = side <=> r.event = e,
           \E r \in rows : r.event = e
    PROVE  Ordered(rows, side) = e.qty
<1> PICK x \in rows : x.event = e
  OBVIOUS
<1> DEFINE q == [r \in OnSide(Kind(rows, "NEW"), side) |-> r.event.qty]
<1>1. OnSide(Kind(rows, "NEW"), side) = {x}
  BY DEF OnSide, Kind, OneRowEach, TwoSided
<1>2. DOMAIN q = {x} /\ q[x] = e.qty
  BY <1>1
<1>3. Ordered(rows, side) = SumFunctionOnSet(q, DOMAIN q)
  BY DEF Ordered, SumFunction
<1> HIDE DEF q
<1> QED
  BY <1>2, <1>3, SumOne

(* At most as much as that many orders of at most m.                        *)
LEMMA OrderedAtMost ==
    ASSUME NEW rows, IsFiniteSet(rows), AllMeasured(rows), OneRowEach(rows),
           TwoSided(rows), NEW side \in {"BUY", "SELL"}, NEW m \in Nat,
           NEW T, IsFiniteSet(T),
           \A r \in rows : r.event.msg = "NEW" /\ r.event.side = side
                             => r.event \in T /\ r.event.qty <= m
    PROVE  Ordered(rows, side) <= m * Cardinality(T)
<1> DEFINE S == OnSide(Kind(rows, "NEW"), side)
           q == [r \in S |-> r.event.qty]
<1>1. S \in SUBSET rows /\ \A r \in S : r.event.qty \in Nat /\ r.event \in T /\ r.event.qty <= m
  BY DEF OnSide, Kind, AllMeasured, Measured, TwoSided
<1>2. DOMAIN q = S /\ \A r \in S : q[r] = r.event.qty
  OBVIOUS
<1>3. Ordered(rows, side) = SumFunctionOnSet(q, S)
  BY <1>2 DEF Ordered, SumFunction
<1> HIDE DEF S, q
<1>4. IsFiniteSet(S) /\ OneRowEach(S) /\ \A r \in S : q[r] \in Nat /\ q[r] <= m
  BY <1>1, <1>2, FS_Subset DEF OneRowEach
<1>5. SumFunctionOnSet(q, S) <= m * Cardinality(S) /\ SumFunctionOnSet(q, S) \in Nat
  BY <1>4, SumAtMost, SumNat
<1>6. Cardinality(S) \in Nat /\ Cardinality(S) <= Cardinality(T)
  BY <1>1, <1>4, CountAtMost
<1> DEFINE n == Cardinality(S)
           t == Cardinality(T)
<1>7. n \in Nat /\ t \in Nat /\ n <= t
  BY <1>6, FS_CardinalityType
<1>8. SumFunctionOnSet(q, S) <= m * n
  BY <1>5
<1> HIDE DEF n, t
<1>9. m * n <= m * t /\ m * n \in Int /\ m * t \in Int
  BY <1>7, TimesMonotone, ProductInt
<1> QED
  BY <1>3, <1>5, <1>8, <1>9 DEF t

(* Fills at one price turn over that price times their volume.              *)
LEMMA TurnoverAt ==
    ASSUME NEW execs, IsFiniteSet(execs), AllMeasured(execs), TwoSided(execs),
           NEW side \in {"BUY", "SELL"}, NEW p \in Nat,
           \A r \in execs : r.event.side = side => r.event.lastPx = p
    PROVE  /\ Volume(execs, side) \in Nat
           /\ Turnover(execs, side) = p * Volume(execs, side)
<1> DEFINE S == OnSide(execs, side)
           v == [r \in S |-> r.event.lastQty]
           w == [r \in S |-> r.event.lastQty * r.event.lastPx]
<1>1. S \in SUBSET execs /\ \A r \in S : r.event.lastQty \in Nat /\ r.event.lastPx = p
  BY DEF OnSide, AllMeasured, Measured, TwoSided
<1>2. /\ Volume(execs, side) = SumFunctionOnSet(v, S)
      /\ Turnover(execs, side) = SumFunctionOnSet(w, S)
  <2>1. DOMAIN v = S /\ DOMAIN w = S
    OBVIOUS
  <2>2. Volume(execs, side) = SumFunction(v) /\ Turnover(execs, side) = SumFunction(w)
    BY DEF Volume, Turnover
  <2> HIDE DEF v, w, S
  <2> QED
    BY <2>1, <2>2 DEF SumFunction
<1>3. \A r \in S : v[r] = r.event.lastQty /\ w[r] = r.event.lastQty * r.event.lastPx
  OBVIOUS
<1> HIDE DEF S, v, w
<1>4. \A r \in S : v[r] \in Nat /\ w[r] = p * v[r]
  <2> TAKE r \in S
  <2> DEFINE k == r.event.lastQty
  <2>1. k \in Nat /\ v[r] = k /\ w[r] = k * p
    BY <1>1, <1>3
  <2> HIDE DEF k
  <2>2. k * p = p * k
    BY <2>1
  <2> QED
    BY <2>1, <2>2
<1>5. IsFiniteSet(S)
  BY <1>1, FS_Subset
<1>6. SumFunctionOnSet(w, S) = p * SumFunctionOnSet(v, S) /\ SumFunctionOnSet(v, S) \in Nat
  BY <1>4, <1>5, SumScaled, SumNat
<1> QED
  BY <1>2, <1>6

(* Volume is filled on a side that has a fill.                              *)
LEMMA VolumePositive ==
    ASSUME NEW execs, IsFiniteSet(execs), AllMeasured(execs), NEW side,
           NEW r \in execs, r.event.side = side, r.event.lastQty # 0
    PROVE  Volume(execs, side) \in Nat \ {0}
<1> DEFINE S == OnSide(execs, side)
           v == [x \in S |-> x.event.lastQty]
<1>1. S \in SUBSET execs /\ (\A x \in S : v[x] \in Nat) /\ r \in S /\ v[r] \in Nat \ {0}
  BY DEF OnSide, AllMeasured, Measured
<1>2. DOMAIN v = S /\ Volume(execs, side) = SumFunction(v)
  BY DEF Volume
<1> HIDE DEF S, v
<1>3. IsFiniteSet(S)
  BY <1>1, FS_Subset
<1>4. SumFunctionOnSet(v, S) \in Nat /\ v[r] <= SumFunctionOnSet(v, S)
  BY <1>1, <1>3, SumNat
<1> QED
  BY <1>1, <1>2, <1>4 DEF SumFunction

(* Buying at b and selling at p: what is gained.                            *)
LEMMA GainOf ==
    ASSUME NEW execs, IsFiniteSet(execs), AllMeasured(execs), TwoSided(execs),
           NEW b \in Nat \ {0}, NEW p \in Nat,
           \A r \in execs : /\ r.event.side = "BUY" => r.event.lastPx = b
                            /\ r.event.side = "SELL" => r.event.lastPx = p
    PROVE  \E v \in Nat :
             /\ v = Volume(execs, "BUY") * Volume(execs, "SELL")
             /\ RoundTripGain(execs) = IF v = 0 THEN 0 ELSE Bps((p - b) * v, b * v)
<1> DEFINE x == Volume(execs, "BUY")
           y == Volume(execs, "SELL")
           v == x * y
           buys == Turnover(execs, "BUY") * y
           sells == Turnover(execs, "SELL") * x
<1>1. x \in Nat /\ Turnover(execs, "BUY") = b * x
  BY TurnoverAt
<1>2. y \in Nat /\ Turnover(execs, "SELL") = p * y
  BY TurnoverAt
<1>3. RoundTripGain(execs) = IF buys = 0 THEN 0 ELSE Bps(sells - buys, buys)
  BY DEF RoundTripGain
<1>4. buys = (b * x) * y /\ sells = (p * y) * x
  BY <1>1, <1>2
<1> HIDE DEF x, y, buys, sells
<1>5. v \in Nat /\ buys = b * v /\ sells = p * v
  BY <1>1, <1>2, <1>4
<1> HIDE DEF v
<1>6. sells - buys = (p - b) * v
  BY <1>5
<1>7. buys = 0 <=> v = 0
  <2>1. v # 0 => b * v \in Nat \ {0}
    BY <1>5, TimesPositive
  <2> QED
    BY <1>5, <2>1
<1> QED
  BY <1>3, <1>5, <1>6, <1>7 DEF v, x, y

-----------------------------------------------------------------------------
(* What keeps a detector quiet *)

(* The gold row g is made of these rows.                                    *)
Describes(g, rows, key, f, l) ==
    /\ IsFiniteSet(rows) /\ rows # {} /\ AllMeasured(rows) /\ OneRowEach(rows)
    /\ Ordinary(rows) /\ f \in FirstPx(Priced(rows)) /\ l \in LastPx(Priced(rows))
    /\ g = Features(rows, key, f, l) /\ IsGoldFeatures(g)

(* What it says of them.                                                    *)
LEMMA DescribedReads ==
    ASSUME NEW g, NEW rows, NEW key, NEW f, NEW l, Describes(g, rows, key, f, l)
    PROVE  /\ Reads(g, rows, f, l)
           /\ g.roundTripGainBps = RoundTripGain(Kind(rows, "EXEC"))
<1>1. Reads(g, rows, f, l)
  BY FeatureParts DEF Describes
<1>2. Filled(Kind(rows, "EXEC")) = Kind(rows, "EXEC")
  BY DEF Describes, Ordinary
<1> QED
  BY <1>1, <1>2 DEF Reads

(* A detector that alerts has passed its gate.                              *)
LEMMA GatePassed ==
    ASSUME NEW g, IsGoldFeatures(g), NEW d \in Detector, fires(d, g)
    PROVE  /\ d = "SPOOFING" => g.nOrders >= 4 /\ ~(5 * g.cancelRatio <= Scale)
           /\ d = "WASH_TRADE" => WashGate(g)
           /\ d = "FRONT_RUNNING" => FrontGate(g)
           /\ d = "MOMENTUM_IGNITION" => MomentumGate(g)
           /\ d = "MARKING_THE_CLOSE" => MarkingGate(g)
<1>1. score(d, g) # 0
  BY FiringScores
<1>2. d = "SPOOFING" => g.nOrders >= 4 /\ ~(5 * g.cancelRatio <= Scale)
  <2>1. d = "SPOOFING" => ~(g.nOrders < 4)
    BY <1>1, ScoreOf DEF SpoofingScore
  <2>2. g.nOrders \in Nat
    BY DEF IsGoldFeatures
  <2>3. d = "SPOOFING" => ~(5 * g.cancelRatio <= Scale)
    BY FewCancelsNoSpoofing
  <2> QED
    BY <2>1, <2>2, <2>3
<1>3. d = "WASH_TRADE" => WashGate(g)
  BY <1>1, ScoreOf DEF WashTradeScore
<1>4. d = "FRONT_RUNNING" => FrontGate(g)
  BY <1>1, ScoreOf DEF FrontRunningScore
<1>5. d = "MOMENTUM_IGNITION" => MomentumGate(g)
  BY <1>1, ScoreOf DEF MomentumScore
<1>6. d = "MARKING_THE_CLOSE" => MarkingGate(g)
  BY <1>1, ScoreOf DEF MarkingTheCloseScore
<1> QED
  BY <1>2, <1>3, <1>4, <1>5, <1>6

(* The time to the close is that of the row nearest to it.                  *)
LEMMA SecsOfRow ==
    ASSUME NEW g, NEW rows, NEW key, NEW f, NEW l, Describes(g, rows, key, f, l)
    PROVE  /\ \E r \in rows : g.secsToClose = TimeToClose(r.event.t)
           /\ \A r \in rows : g.secsToClose <= TimeToClose(r.event.t)
<1> DEFINE close == [r \in rows |-> TimeToClose(r.event.t)]
           times == {close[r] : r \in rows}
<1>1. /\ IsFiniteSet(rows) /\ rows # {} /\ AllMeasured(rows)
      /\ g = Features(rows, key, f, l) /\ IsGoldFeatures(g)
  BY DEF Describes
<1>2. times = {TimeToClose(r.event.t) : r \in rows}
  OBVIOUS
<1>3. g.secsToClose = Min(times)
  <2>1. g.secsToClose = Min({TimeToClose(r.event.t) : r \in rows})
    BY DescribedReads DEF Reads
  <2> QED
    BY <1>2, <2>1
<1>4. \A r \in rows : close[r] \in Int
  <2>1. CloseOfDay \in Int /\ DayLen \in Int
    BY MedallionAssumption DEF MedallionAssumption
  <2> QED
    BY <1>1, <2>1, TimeToCloseType DEF AllMeasured, Measured
<1>5. /\ \A v \in times : \E r \in rows : v = TimeToClose(r.event.t)
      /\ \A r \in rows : TimeToClose(r.event.t) \in times
  OBVIOUS
<1>6. times \in SUBSET Int /\ times # {} /\ IsFiniteSet(times)
  <2>1. IsFiniteSet(times)
    <3> HIDE DEF close
    <3> QED
      BY <1>1, FiniteImage
  <2> QED
    BY <1>1, <1>4, <2>1
<1> HIDE DEF times
<1>7. Min(times) \in times /\ \A v \in times : Min(times) <= v
  BY <1>6, MaxMinIn
<1> QED
  BY <1>3, <1>5, <1>7

(* Far from the close no close is marked.                                   *)
LEMMA FarFromTheClose ==
    ASSUME NEW g, NEW rows, NEW key, NEW f, NEW l, Describes(g, rows, key, f, l),
           \A r \in rows : TimeToClose(r.event.t) \notin 0..CloseWindow
    PROVE  ~MarkingGate(g)
<1>1. PICK r \in rows : g.secsToClose = TimeToClose(r.event.t)
  BY SecsOfRow
<1>2. g.secsToClose \in Int /\ CloseWindow \in Nat
  BY DetectorAssumption DEF Describes, IsGoldFeatures, CloseWindow, DetectorAssumption
<1> QED
  BY <1>1, <1>2 DEF MarkingGate

(* With a single fill there is neither a round trip nor a burst.            *)
LEMMA OneFillIsQuiet ==
    ASSUME NEW g, NEW rows, NEW key, NEW f, NEW l, Describes(g, rows, key, f, l),
           NEW x, \A r \in rows : r.event.msg = "EXEC" => r.event = x
    PROVE  ~WashGate(g) /\ ~FrontGate(g) /\ ~MomentumGate(g)
<1> DEFINE execs == Kind(rows, "EXEC")
<1>1. IsFiniteSet(execs) /\ OneRowEach(execs) /\ \A r \in execs : r.event \in {x}
  BY FS_Subset DEF Describes, OneRowEach, Kind
<1>2. g.nExecs = Cardinality(execs)
  BY DescribedReads DEF Reads
<1> HIDE DEF execs
<1>3. IsFiniteSet({x}) /\ Cardinality({x}) = 1
  BY FewElements
<1>4. Cardinality(execs) \in Nat /\ Cardinality(execs) <= Cardinality({x})
  BY <1>1, <1>3, CountAtMost
<1>5. g.nExecs \in Nat /\ g.nExecs <= 1
  BY <1>2, <1>3, <1>4
<1> QED
  BY <1>5 DEF WashGate, FrontGate, MomentumGate

(* With two there is no burst, and a round trip has both.                   *)
LEMMA TwoFillsAreNoBurst ==
    ASSUME NEW g, NEW rows, NEW key, NEW f, NEW l, Describes(g, rows, key, f, l),
           NEW x, NEW y, \A r \in rows : r.event.msg = "EXEC" => r.event \in {x, y}
    PROVE  /\ ~MomentumGate(g)
           /\ WashGate(g) \/ FrontGate(g)
                => /\ \E r \in rows : r.event.msg = "EXEC" /\ r.event = x
                   /\ \E r \in rows : r.event.msg = "EXEC" /\ r.event = y
<1> DEFINE execs == Kind(rows, "EXEC")
<1>1. IsFiniteSet(execs) /\ OneRowEach(execs) /\ \A r \in execs : r.event \in {x, y}
  BY FS_Subset DEF Describes, OneRowEach, Kind
<1>2. g.nExecs = Cardinality(execs)
  BY DescribedReads DEF Reads
<1>2a. \A r \in execs : r \in rows /\ r.event.msg = "EXEC"
  BY DEF Kind
<1> HIDE DEF execs
<1>3. IsFiniteSet({x, y}) /\ Cardinality({x, y}) <= 2 /\ Cardinality({x, y}) \in Nat
  BY FewElements, FS_CardinalityType
<1>4. Cardinality(execs) \in Nat /\ Cardinality(execs) <= Cardinality({x, y})
  BY <1>1, <1>3, CountAtMost
<1>5. g.nExecs \in Nat /\ g.nExecs <= 2
  BY <1>2, <1>3, <1>4
<1>6. ASSUME NEW z, \A r \in execs : r.event = z PROVE g.nExecs <= 1
  <2>1. IsFiniteSet({z}) /\ Cardinality({z}) = 1 /\ \A r \in execs : r.event \in {z}
    BY <1>6, FewElements
  <2>2. Cardinality(execs) <= Cardinality({z})
    BY <1>1, <2>1, CountAtMost
  <2> QED
    BY <1>2, <2>1, <2>2
<1>7. ASSUME WashGate(g) \/ FrontGate(g)
      PROVE  /\ \E r \in execs : r.event = x
             /\ \E r \in execs : r.event = y
  <2>1. ~(g.nExecs <= 1)
    BY <1>5, <1>7 DEF WashGate, FrontGate
  <2>2. ~(\A r \in execs : r.event = y) /\ ~(\A r \in execs : r.event = x)
    BY <1>6, <2>1
  <2> QED
    BY <1>1, <2>2
<1> QED
  BY <1>2a, <1>5, <1>7 DEF MomentumGate

(* The fills among the rows are of these two; both are there.               *)
FillsAmong(rows, x, y) == \A r \in rows : r.event.msg = "EXEC" => r.event \in {x, y}
BothFilled(rows, x, y) == (\E r \in rows : r.event = x) /\ (\E r \in rows : r.event = y)

(* A round trip of two fills has both.                                      *)
LEMMA TripHasBoth ==
    ASSUME NEW g, NEW rows, NEW key, NEW f, NEW l, Describes(g, rows, key, f, l),
           NEW x, NEW y, FillsAmong(rows, x, y), WashGate(g) \/ FrontGate(g)
    PROVE  BothFilled(rows, x, y)
BY TwoFillsAreNoBurst DEF FillsAmong, BothFilled

(* A trader who does not sell makes no round trip and leaves no burst.      *)
LEMMA NoSaleIsQuiet ==
    ASSUME NEW g, NEW rows, NEW key, NEW f, NEW l, Describes(g, rows, key, f, l),
           \A r \in rows : r.event.msg = "NEW" => r.event.side # "SELL"
    PROVE  ~WashGate(g) /\ ~FrontGate(g) /\ ~MomentumGate(g)
<1>1. Ordered(rows, "SELL") = 0
  <2>1. TwoSided(rows) /\ "SELL" \in {"BUY", "SELL"}
    BY DEF Describes, Ordinary
  <2> QED
    BY <2>1, OrderedNone
<1>2. g.sellQty = Ordered(rows, "SELL")
  BY DescribedReads DEF Reads
<1> QED
  BY <1>1, <1>2 DEF WashGate, FrontGate, MomentumGate

(* Without a cancel there is no layering.                                   *)
LEMMA NoCancelNoSpoofing ==
    ASSUME NEW g, NEW rows, NEW key, NEW f, NEW l, Describes(g, rows, key, f, l),
           \A r \in rows : r.event.msg # "CANCEL"
    PROVE  5 * g.cancelRatio <= Scale
<1>1. g.cancelRatio = 0
  BY NothingCancelled DEF Describes
<1> QED
  BY <1>1, DetectorAssumption DEF DetectorAssumption

(* Who sells much more than it buys is not on both sides of a round trip.   *)
LEMMA OneSidedIsQuiet ==
    ASSUME NEW g, NEW rows, NEW key, NEW f, NEW l, Describes(g, rows, key, f, l),
           10 * (g.sellQty - g.buyQty) > g.sellQty + g.buyQty
    PROVE  ~WashGate(g) /\ ~FrontGate(g)
<1> DEFINE b == g.buyQty
           s == g.sellQty
           i == g.qtyImbalance
           n == b + s
           e == s - b
<1>1. b \in Nat /\ s \in Nat /\ i \in Int /\ Scale \in Nat \ {0}
  BY DetectorAssumption DEF Describes, IsGoldFeatures, DetectorAssumption
<1>2. i = ((b - s) * Scale) \div most(b + s, 1)
  BY DescribedReads DEF Reads
<1>3. 10 * (s - b) > s + b
  OBVIOUS
<1>4. e \in Nat \ {0} /\ n \in Nat \ {0} /\ 10 * e > n
  <2> HIDE DEF b, s
  <2> QED
    BY <1>1, <1>3
<1>5. i = ((-e) * Scale) \div n
  <2>1. b - s = -e /\ most(n, 1) = n
    <3> HIDE DEF b, s
    <3> QED
      BY <1>1, <1>3 DEF most
  <2> QED
    BY <1>2, <2>1
<1> HIDE DEF b, s, i, n, e
<1>6. i * n <= (-e) * Scale
  <2> DEFINE x == (-e) * Scale
  <2>1. x \in Int
    BY <1>1, <1>4, ProductInt
  <2>2. i = x \div n
    BY <1>5
  <2> HIDE DEF x
  <2>3. i * n <= x
    <3>1. (x \div n) * n + (x % n) = x /\ x % n \in 0..(n - 1)
      BY <1>4, <2>1, DividesInto
    <3>2. i * n \in Int
      BY <1>1, <1>4, ProductInt
    <3> QED
      BY <1>4, <2>1, <2>2, <3>1, <3>2
  <2> QED
    BY <2>3 DEF x
<1>7. ASSUME 10 * (-i) <= Scale PROVE FALSE
  <2> DEFINE j == -i
  <2>1. j \in Int /\ 10 * j <= Scale /\ (-j) * n <= (-e) * Scale
    BY <1>1, <1>6, <1>7
  <2> HIDE DEF j
  <2>2. n * (10 * j) <= n * Scale
    BY <1>1, <1>4, <2>1, TimesMonotone
  <2>3. Scale * (n + 1) <= Scale * (10 * e)
    BY <1>1, <1>4, TimesMonotone
  <2>4. /\ (-j) * n = -(j * n) /\ (-e) * Scale = -(e * Scale)
        /\ n * (10 * j) = 10 * (j * n) /\ Scale * (10 * e) = 10 * (e * Scale)
        /\ Scale * (n + 1) = n * Scale + Scale
        /\ j * n \in Int /\ e * Scale \in Int /\ n * Scale \in Int
    BY <1>1, <1>4, <2>1
  <2> QED
    BY <1>1, <2>1, <2>2, <2>3, <2>4
<1>8. ~(10 * abs(i) <= Scale)
  BY <1>1, <1>7 DEF abs
<1> QED
  BY <1>8 DEF WashGate, FrontGate, i

-----------------------------------------------------------------------------
(* Every row of silver is in gold *)

(* The rows of a key have a first and a last price.                         *)
LEMMA EdgesExist ==
    ASSUME NEW priced, IsFiniteSet(priced), AllMeasured(priced)
    PROVE  FirstPx(priced) # {} /\ LastPx(priced) # {}
<1>1. CASE priced = {}
  BY <1>1 DEF FirstPx, LastPx
<1>2. CASE priced # {}
  <2> DEFINE at == [r \in priced |-> r.event.t]
             times == {at[r] : r \in priced}
  <2>1. times = {r.event.t : r \in priced}
    OBVIOUS
  <2>2. times \in SUBSET Int /\ times # {} /\ IsFiniteSet(times)
    <3>1. IsFiniteSet(times)
      <4> HIDE DEF at
      <4> QED
        BY FiniteImage
    <3>2. \A r \in priced : at[r] \in Int
      BY DEF AllMeasured, Measured
    <3> QED
      BY <1>2, <3>1, <3>2
  <2>3. \A v \in times : \E r \in priced : r.event.t = v
    OBVIOUS
  <2>4. FirstPx(priced) = PxAt(priced, Min(times)) /\ LastPx(priced) = PxAt(priced, Max(times))
    BY <1>2, <2>1 DEF FirstPx, LastPx
  <2> HIDE DEF times, at
  <2>5. Min(times) \in times /\ Max(times) \in times
    BY <2>2, MaxMinIn
  <2>6. \A v \in times : PxAt(priced, v) # {}
    BY <2>3 DEF PxAt
  <2> QED
    BY <2>4, <2>5, <2>6
<1> QED
  BY <1>1, <1>2

(* No row of silver is lost on the way to gold.                             *)
LEMMA GoldCovers ==
    ASSUME NEW silver, IsFiniteSet(silver), AllMeasured(silver), NEW r \in silver
    PROVE  \E g \in to_gold(silver) :
              <<g.trader, g.symbol, g.windowStart>> = KeyOf(r.event)
<1> DEFINE key == KeyOf(r.event)
           rows == Group(silver, key)
           priced == Priced(rows)
<1>1. key \in GoldKeys(silver) /\ key = <<key[1], key[2], key[3]>>
  BY DEF GoldKeys, KeyOf
<1>2. IsFiniteSet(priced) /\ AllMeasured(priced)
  BY FS_Subset DEF Priced, Group, AllMeasured
<1>3. GoldRows(silver, key)
        = {Features(rows, key, f, l) : f \in FirstPx(priced), l \in LastPx(priced)}
  BY DEF GoldRows, Group, Priced
<1> HIDE DEF key, rows, priced
<1>4. PICK f \in FirstPx(priced), l \in LastPx(priced) : TRUE
  BY <1>2, EdgesExist
<1> DEFINE g == Features(rows, key, f, l)
<1>5. g \in GoldRows(silver, key)
  BY <1>3, <1>4
<1> HIDE DEF g
<1>6. g \in to_gold(silver)
  BY <1>1, <1>5 DEF to_gold
<1>7. WellFormed(g, key)
  BY <1>1, <1>5, GoldRowsType
<1>8. <<g.trader, g.symbol, g.windowStart>> = key
  BY <1>1, <1>7 DEF WellFormed
<1> QED
  BY <1>6, <1>8 DEF key

-----------------------------------------------------------------------------
(* Time *)

(* Quotient and remainder are the only ones.                                *)
LEMMA DividedOnce ==
    ASSUME NEW b \in Nat \ {0}, NEW q \in Int, NEW r \in 0..(b - 1),
           NEW p \in Int, NEW s \in 0..(b - 1), q * b + r = p * b + s
    PROVE  q = p /\ r = s
<1>1. q * b \in Int /\ p * b \in Int /\ q * b = b * q /\ p * b = b * p
  BY ProductInt
<1>2. ASSUME NEW x \in Int, NEW y \in Int, NEW u \in 0..(b - 1), NEW v \in 0..(b - 1),
             x < y, x * b + u = y * b + v
      PROVE  FALSE
  <2>1. b * (x + 1) <= b * y
    BY <1>2, TimesMonotone
  <2>2. b * (x + 1) = x * b + b /\ b * y = y * b /\ x * b \in Int /\ y * b \in Int
    BY ProductInt
  <2> QED
    BY <1>2, <2>1, <2>2
<1>3. q = p
  <2>1. ~(q < p)
    BY <1>2
  <2>2. ~(p < q)
    BY <1>2
  <2> QED
    BY <2>1, <2>2
<1>4. q * b = p * b
  BY <1>3
<1> HIDE <1>3
<1>5. r = s
  BY <1>1, <1>4
<1> QED
  BY <1>3, <1>5

(* A remainder of what it makes up.                                         *)
LEMMA RemainderIs ==
    ASSUME NEW x \in Int, NEW b \in Nat \ {0}, NEW q \in Int, NEW r \in 0..(b - 1),
           x = q * b + r
    PROVE  x \div b = q /\ x % b = r
<1> DEFINE p == x \div b
           s == x % b
<1>1. p \in Int /\ s \in 0..(b - 1) /\ p * b + s = x
  BY DividesInto
<1> HIDE DEF p, s
<1>2. q = p /\ r = s
  BY <1>1, DividedOnce
<1> QED
  BY <1>2 DEF p, s

(* Until the close time runs down.                                          *)
LEMMA TimeRunsDown ==
    ASSUME NEW t \in Nat, NEW at \in Nat, at < TimeToClose(t)
    PROVE  TimeToClose(t + at) = TimeToClose(t) - at
<1> DEFINE q == t \div DayLen
           r == t % DayLen
<1>1. DayLen \in Nat \ {0} /\ CloseOfDay \in Int /\ CloseOfDay <= DayLen
  BY MedallionAssumption DEF MedallionAssumption
<1>2. q \in Int /\ r \in 0..(DayLen - 1) /\ q * DayLen + r = t
  BY <1>1, DividesInto
<1>3. at < CloseOfDay - r /\ TimeToClose(t) = CloseOfDay - r
  BY DEF TimeToClose
<1> HIDE DEF q, r
<1>4. q * DayLen \in Int
  BY <1>1, <1>2, ProductInt
<1>5. r + at \in 0..(DayLen - 1) /\ t + at = q * DayLen + (r + at) /\ t + at \in Int
  BY <1>1, <1>2, <1>3, <1>4
<1>6. (t + at) % DayLen = r + at
  BY <1>1, <1>2, <1>5, RemainderIs
<1>7. TimeToClose(t + at) = CloseOfDay - (r + at)
  BY <1>6 DEF TimeToClose
<1> QED
  BY <1>1, <1>2, <1>3, <1>7

(* Day and close fall on the edge of a window.                              *)
Aligned == CloseOfDay % WindowLen = 0 /\ DayLen % WindowLen = 0

(* Then the windows of a day lie before its close or after it.              *)
LEMMA TimeInWindows ==
    ASSUME Aligned, NEW t \in Nat, NEW q, q = t \div WindowLen
    PROVE  /\ q \in Int /\ t % WindowLen \in 0..(WindowLen - 1)
           /\ CloseOfDay \div WindowLen - (q % (DayLen \div WindowLen)) \in Int
           /\ TimeToClose(t)
                = WindowLen * (CloseOfDay \div WindowLen - (q % (DayLen \div WindowLen)))
                    - (t % WindowLen)
<1> DEFINE w == WindowLen
           m == DayLen \div w
           j == CloseOfDay \div w
           i == q % m
           p == q \div m
           r == t % w
<1>1. w \in Nat \ {0} /\ DayLen \in Nat \ {0} /\ CloseOfDay \in Int
  BY MedallionAssumption DEF MedallionAssumption
<1>2. j \in Int /\ j * w = CloseOfDay
  <2>1. j \in Int /\ j * w + (CloseOfDay % w) = CloseOfDay
    BY <1>1, DividesInto
  <2>2. j * w \in Int /\ CloseOfDay % w = 0
    BY <1>1, <2>1, ProductInt DEF Aligned
  <2> QED
    BY <2>1, <2>2
<1>3. m \in Nat \ {0} /\ m * w = DayLen
  <2>1. m \in Int /\ m * w + (DayLen % w) = DayLen
    BY <1>1, DividesInto
  <2>2. m * w \in Int /\ DayLen % w = 0
    BY <1>1, <2>1, ProductInt DEF Aligned
  <2>3. m * w = DayLen
    BY <2>1, <2>2
  <2>4. ASSUME m <= 0 PROVE FALSE
    <3> DEFINE n == m
    <3>1. n \in Int /\ n <= 0 /\ n * w = DayLen
      BY <2>1, <2>3, <2>4
    <3> HIDE DEF n, m, w
    <3>2. w * n <= w * 0 /\ w * n = n * w
      BY <1>1, <3>1, TimesMonotone
    <3> QED
      BY <1>1, <3>1, <3>2
  <2> QED
    BY <2>1, <2>3, <2>4
<1>4. q \in Int /\ r \in 0..(w - 1) /\ q * w + r = t
  BY <1>1, DividesInto
<1> HIDE DEF w, m, j, r
<1>5. p \in Int /\ i \in 0..(m - 1) /\ p * m + i = q
  BY <1>3, <1>4, DividesInto
<1> HIDE DEF p, i
<1>6. t = p * DayLen + (w * i + r) /\ w * i \in Int /\ p * DayLen \in Int
  <2>1. (p * m + i) * w = (p * m) * w + w * i /\ (p * m) * w = p * (m * w)
    BY <1>1, <1>3, <1>5
  <2>2. p * DayLen \in Int /\ w * i \in Int
    BY <1>1, <1>5, ProductInt
  <2>3. q * w = p * DayLen + w * i
    BY <1>3, <1>5, <2>1
  <2> QED
    BY <1>4, <2>2, <2>3
<1>7. w * i + r \in 0..(DayLen - 1)
  <2>1. w * (i + 1) <= w * m /\ w * 0 <= w * i
    BY <1>1, <1>3, <1>5, TimesMonotone
  <2>2. w * (i + 1) = w * i + w /\ w * m = m * w /\ w * 0 = 0
    BY <1>1, <1>3, <1>5
  <2> QED
    BY <1>1, <1>3, <1>4, <1>6, <2>1, <2>2
<1>8. t % DayLen = w * i + r
  <2>1. t \in Int
    OBVIOUS
  <2> DEFINE s == w * i + r
  <2>2. s \in 0..(DayLen - 1) /\ t = p * DayLen + s
    BY <1>4, <1>6, <1>7
  <2> HIDE DEF s
  <2>3. t % DayLen = s
    BY <1>1, <1>5, <2>1, <2>2, RemainderIs
  <2> QED
    BY <2>3 DEF s
<1>9. TimeToClose(t) = w * (j - i) - r
  <2>1. TimeToClose(t) = CloseOfDay - (w * i + r)
    BY <1>8 DEF TimeToClose
  <2>2. w * (j - i) = j * w - w * i
    BY <1>1, <1>2, <1>5
  <2> DEFINE x == w * (j - i)
             y == w * i
  <2>3. x = CloseOfDay - y
    <3>1. x = j * w - y
      BY <2>2
    <3> HIDE DEF x, y
    <3> QED
      BY <1>2, <3>1
  <2>4. y \in Int /\ CloseOfDay \in Int /\ r \in Int
    BY <1>1, <1>4, <1>6
  <2>5. TimeToClose(t) = CloseOfDay - (y + r)
    BY <2>1
  <2> HIDE DEF x, y
  <2>6. TimeToClose(t) = x - r
    BY <2>3, <2>4, <2>5
  <2> QED
    BY <2>6 DEF x
<1>10. q \in Int /\ r \in 0..(w - 1) /\ j - i \in Int
  BY <1>2, <1>4, <1>5
<1> QED
  BY <1>9, <1>10 DEF w, m, j, i, r

(* Within a window time runs on, and does not pass the close.               *)
LEMMA OneSideOfTheClose ==
    ASSUME Aligned, NEW a \in Nat, NEW b \in Nat, WindowStart(a) = WindowStart(b)
    PROVE  /\ TimeToClose(a) \in Int /\ TimeToClose(b) \in Int
           /\ TimeToClose(a) - TimeToClose(b) = b - a
           /\ TimeToClose(a) > 0 => TimeToClose(b) > 0
<1> DEFINE w == WindowLen
           q == a \div w
           p == b \div w
           r == a % w
           s == b % w
           k == CloseOfDay \div w - (q % (DayLen \div w))
<1>1. w \in Nat \ {0}
  BY MedallionAssumption DEF MedallionAssumption
<1>2. /\ q \in Int /\ r \in 0..(w - 1) /\ q * w + r = a
      /\ p \in Int /\ s \in 0..(w - 1) /\ p * w + s = b
  BY <1>1, DividesInto
<1>3. q * w = p * w
  BY DEF WindowStart
<1>4. q = p
  <2> HIDE DEF w, q, p
  <2>1. 0 \in 0..(w - 1) /\ q * w + 0 = p * w + 0
    BY <1>1, <1>3
  <2> QED
    BY <1>1, <1>2, <2>1, DividedOnce
<1>5. k \in Int /\ TimeToClose(a) = w * k - r
  BY TimeInWindows
<1>6. TimeToClose(b) = w * k - s
  BY <1>4, TimeInWindows
<1> HIDE DEF w, q, p, r, s, k
<1>7. w * k \in Int /\ q * w \in Int
  BY <1>1, <1>2, <1>5, ProductInt
<1>8. TimeToClose(a) - TimeToClose(b) = b - a
  BY <1>1, <1>2, <1>3, <1>5, <1>6, <1>7
<1>9. ASSUME TimeToClose(a) > 0 PROVE TimeToClose(b) > 0
  <2>1. k >= 1
    <3>1. ASSUME k <= 0 PROVE FALSE
      <4>1. w * k <= w * 0 /\ w * 0 = 0
        BY <1>1, <1>5, <3>1, TimesMonotone
      <4> QED
        BY <1>1, <1>2, <1>5, <1>7, <1>9, <4>1
    <3> QED
      BY <1>5, <3>1
  <2>2. w * 1 <= w * k /\ w * 1 = w
    BY <1>1, <1>5, <2>1, TimesMonotone
  <2> QED
    BY <1>1, <1>2, <1>6, <1>7, <2>2
<1> QED
  BY <1>1, <1>2, <1>5, <1>6, <1>7, <1>8, <1>9

-----------------------------------------------------------------------------
(* First and last prices *)

(* Five cents on the price are more than a basis point.                     *)
FiveCentsShow(mid) == (Scale + 1) * mid <= 5 * (100 * (100 * Scale))

(* f and l are prices of an earliest and of a latest priced row.            *)
Edges(priced, f, l) ==
    \E q, r \in priced :
        /\ q.event.price = f /\ r.event.price = l
        /\ \A p \in priced : q.event.t <= p.event.t /\ p.event.t <= r.event.t

(* min_by and max_by return prices of the edges.                            *)
LEMMA EdgeRows ==
    ASSUME NEW priced, IsFiniteSet(priced), priced # {}, AllMeasured(priced),
           NEW f \in FirstPx(priced), NEW l \in LastPx(priced)
    PROVE  Edges(priced, f, l)
<1> DEFINE at == [r \in priced |-> r.event.t]
           times == {at[r] : r \in priced}
<1>1. times = {r.event.t : r \in priced}
  OBVIOUS
<1>2. times \in SUBSET Int /\ times # {} /\ IsFiniteSet(times)
  <2>1. IsFiniteSet(times)
    <3> HIDE DEF at
    <3> QED
      BY FiniteImage
  <2>2. \A r \in priced : at[r] \in Int
    BY DEF AllMeasured, Measured
  <2> QED
    BY <2>1, <2>2
<1>3. \A p \in priced : p.event.t \in times
  OBVIOUS
<1>4. f \in PxAt(priced, Min(times)) /\ l \in PxAt(priced, Max(times))
  BY <1>1 DEF FirstPx, LastPx
<1> HIDE DEF times, at
<1>5. /\ \A t \in times : Min(times) <= t /\ t <= Max(times)
  BY <1>2, MaxMinIn
<1>6. PICK q \in priced : q.event.price = f /\ q.event.t = Min(times)
  BY <1>4 DEF PxAt
<1>7. PICK r \in priced : r.event.price = l /\ r.event.t = Max(times)
  BY <1>4 DEF PxAt
<1> QED
  BY <1>3, <1>5, <1>6, <1>7 DEF Edges

(* The edges of a gold row that has a price.                                *)
LEMMA DescribedEdges ==
    ASSUME NEW g, NEW rows, NEW key, NEW f, NEW l, Describes(g, rows, key, f, l)
    PROVE  /\ Priced(rows) # {} => Edges(Priced(rows), f, l)
           /\ Priced(rows) = {} => f = 0 /\ l = 0
<1>1. IsFiniteSet(Priced(rows)) /\ AllMeasured(Priced(rows))
  BY FS_Subset DEF Describes, Priced, AllMeasured
<1>2. f \in FirstPx(Priced(rows)) /\ l \in LastPx(Priced(rows))
  BY DEF Describes
<1>3. Priced(rows) # {} => Edges(Priced(rows), f, l)
  BY <1>1, <1>2, EdgeRows
<1>4. Priced(rows) = {} => f = 0 /\ l = 0
  BY <1>2 DEF FirstPx, LastPx
<1> QED
  BY <1>3, <1>4

(* Prices are no more than twenty cents over mid.                           *)
PricedNear(rows, mid) == \A r \in Priced(rows) : r.event.price <= mid + 20

(* A rise by a cent shows in basis points.                                  *)
LEMMA CentShows ==
    ASSUME NEW mid \in Nat, FiveCentsShow(mid), NEW p \in Nat \ {0}, p <= mid + 20,
           NEW d \in Nat \ {0}
    PROVE  Bps(d, p) > 0
<1> DEFINE s == 100 * (100 * Scale)
<1>1. Scale \in Nat \ {0} /\ Scale % 100 = 0
  BY DetectorAssumption, MedallionAssumption DEF DetectorAssumption, MedallionAssumption
<1>2. 100 <= Scale
  BY <1>1
<1>3. (Scale + 1) * mid <= 5 * s
  BY DEF FiveCentsShow
<1>4. 101 * mid <= 5 * s
  <2>1. mid * 101 <= mid * (Scale + 1)
    BY <1>1, <1>2, TimesMonotone
  <2>2. mid * (Scale + 1) = (Scale + 1) * mid /\ mid * 101 = 101 * mid
    BY <1>1
  <2>3. (Scale + 1) * mid \in Int /\ s \in Int
    BY <1>1
  <2> QED
    BY <1>3, <2>1, <2>2, <2>3
<1>5. p <= s
  BY <1>1, <1>2, <1>4
<1>6. p <= s * d
  <2>1. s \in Nat
    BY <1>1
  <2> HIDE DEF s
  <2>2. s * 1 <= s * d /\ s * d \in Int
    BY <2>1, TimesMonotone
  <2> QED
    BY <1>5, <2>1, <2>2
<1>7. 100 * (100 * (Scale * d)) = s * d
  BY <1>1
<1>8. p <= 100 * (100 * (Scale * d))
  BY <1>6, <1>7
<1> QED
  BY <1>8, RiseShows

(* A fall, or standing still, is no rise.                                   *)
LEMMA NoRise ==
    ASSUME NEW p \in Nat \ {0}, NEW d \in Int, d <= 0
    PROVE  ~(Bps(d, p) > 0)
<1> DEFINE q == Bps(d, p)
           x == 100 * (100 * (Scale * d))
<1>1. QuotientOf(q, x, p)
  BY BpsDivides
<1>2. x \in Int /\ x <= 0
  <2>1. Scale \in Nat
    BY DetectorAssumption DEF DetectorAssumption
  <2>2. Scale * d <= Scale * 0
    BY <2>1, TimesMonotone
  <2>3. Scale * d \in Int /\ Scale * 0 = 0
    BY <2>1
  <2> DEFINE y == Scale * d
  <2>4. y \in Int /\ y <= 0
    BY <2>2, <2>3
  <2> HIDE DEF y
  <2>5. 100 * (100 * y) \in Int /\ 100 * (100 * y) <= 0
    BY <2>4
  <2> QED
    BY <2>5 DEF y
<1> HIDE DEF q, x
<1>3. q \in Int /\ q * p <= x
  BY <1>1 DEF QuotientOf
<1>4. ASSUME q > 0 PROVE FALSE
  <2>1. q * p \in Nat \ {0}
    BY <1>3, <1>4, TimesPositive
  <2> QED
    BY <1>2, <1>3, <2>1
<1> QED
  BY <1>4 DEF q

(* The price has moved up exactly when the last is over the first.          *)
LEMMA RisesWhen ==
    ASSUME NEW g, NEW rows, NEW key, NEW f, NEW l, Describes(g, rows, key, f, l),
           NEW mid \in Nat, FiveCentsShow(mid), PricedNear(rows, mid)
    PROVE  /\ f \in Nat /\ l \in Nat
           /\ g.priceMoveBps > 0 <=> Priced(rows) # {} /\ f < l
<1>1. g.priceMoveBps = IF f > 0 THEN Bps(l - f, f) ELSE 0
  BY DescribedReads DEF Reads
<1>2. CASE Priced(rows) = {}
  <2>1. f = 0 /\ l = 0
    BY <1>2, DescribedEdges
  <2> QED
    BY <1>1, <1>2, <2>1
<1>3. CASE Priced(rows) # {}
  <2>1. Edges(Priced(rows), f, l)
    BY <1>3, DescribedEdges
  <2>2. PICK q, r \in Priced(rows) : q.event.price = f /\ r.event.price = l
    BY <2>1 DEF Edges
  <2>3. f \in Nat \ {0} /\ l \in Nat /\ f <= mid + 20
    <3>1. \A p \in Priced(rows) : p.event.price \in Nat \ {0}
      BY DEF Describes, AllMeasured, Measured, Priced, NoPrice
    <3> QED
      BY <2>2, <3>1 DEF PricedNear
  <2> DEFINE d == l - f
  <2>4. g.priceMoveBps = Bps(d, f)
    BY <1>1, <2>3
  <2>5. d \in Int /\ (f < l <=> d > 0)
    BY <2>3
  <2> HIDE DEF d
  <2>6. d > 0 => g.priceMoveBps > 0
    <3>1. d > 0 => d \in Nat \ {0}
      BY <2>5
    <3> QED
      BY <2>3, <2>4, <3>1, CentShows
  <2>7. d <= 0 => ~(g.priceMoveBps > 0)
    BY <2>3, <2>4, <2>5, NoRise
  <2>8. f < l <=> g.priceMoveBps > 0
    BY <2>5, <2>6, <2>7
  <2> QED
    BY <1>3, <2>3, <2>8
<1> QED
  BY <1>2, <1>3

(* The last price is the highest when no other is higher.                   *)
LEMMA EndsAtHigh ==
    ASSUME NEW g, NEW rows, NEW key, NEW f, NEW l, Describes(g, rows, key, f, l),
           Priced(rows) # {}, \A r \in Priced(rows) : r.event.price <= l
    PROVE  PrintAtHigh(g)
<1> DEFINE px == [r \in rows |-> r.event.price]
           prices == {px[r] : r \in rows} \ {NoPrice}
<1>1. prices = {r.event.price : r \in rows} \ {NoPrice}
  OBVIOUS
<1>2. g.lastPx = l /\ g.maxPx = IF prices = {} THEN 0 ELSE Max(prices)
  <2>1. Reads(g, rows, f, l)
    BY DescribedReads
  <2>2. g.lastPx = l /\ g.maxPx = LET all == {r.event.price : r \in rows} \ {NoPrice}
                                 IN  IF all = {} THEN 0 ELSE Max(all)
    BY <2>1 DEF Reads
  <2> HIDE DEF prices
  <2> QED
    BY <1>1, <2>2
<1>3. \A p \in prices : p <= l /\ p \in Nat \ {0}
  BY DEF Describes, AllMeasured, Measured, Priced, NoPrice
<1>4. prices # {}
  BY DEF Priced
<1>5. IsFiniteSet(prices)
  <2>1. IsFiniteSet({px[r] : r \in rows})
    <3> HIDE DEF px
    <3> QED
      BY FiniteImage DEF Describes
  <2> QED
    BY <2>1, FS_Subset
<1> HIDE DEF prices
<1>6. Max(prices) \in prices
  BY <1>3, <1>4, <1>5, MaxMinIn
<1> QED
  BY <1>2, <1>3, <1>4, <1>6 DEF PrintAtHigh

===============================================================================
