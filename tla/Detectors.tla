------------------------------- MODULE Detectors -------------------------------
(***************************************************************************)
(* The five rule detectors of scala-detectors, as functions of one row of  *)
(* gold features.                                                          *)
(*                                                                         *)
(* Ratios, bps and imbalances are integers in units of 1/Scale, times to   *)
(* the close in units of 1/Second of a second, prices in cents.  A score   *)
(* in [0, 1] is an integer in 0..Unit: Unit is large enough for the        *)
(* weights of all detectors to be whole.  Scores are exact where the code  *)
(* has doubles: a last-digit rounding is not modelled.                     *)
(***************************************************************************)
EXTENDS Integers

CONSTANTS
    Scale,     \* units of a ratio, a bps figure or an imbalance
    Second     \* units of time in a second

ASSUME DetectorAssumption ==
    /\ Scale \in Nat \ {0}
    /\ Second \in Nat \ {0}

(* The fields of a gold row (GoldFeatures.scala) the detectors read.        *)
IsGoldFeatures(f) ==
    /\ {f.nOrders, f.nCancels, f.nExecs, f.buyQty, f.sellQty, f.distinctPrices,
        f.cancelRatio, f.orderToTradeRatio, f.lastPx, f.maxPx} \subseteq Nat
    /\ {f.qtyImbalance, f.priceMoveBps, f.roundTripGainBps, f.secsToClose} \subseteq Int

CloseWindow == 120 * Second

Unit   == 1200 * Scale * Second
Pct(p) == 12 * p * Second          \* p percent of one ratio unit

least(a, b) == IF a <= b THEN a ELSE b
most(a, b)  == IF a >= b THEN a ELSE b
abs(x)      == IF x < 0 THEN -x ELSE x
unit(x)     == most(0, least(Unit, x))

-----------------------------------------------------------------------------
(* The scores *)

(* Mutant: the two weights swapped.                                         *)
SpoofingScoreSwapped(f) ==
    IF f.nOrders < 4
    THEN 0
    ELSE unit(Pct(30) * f.cancelRatio
              + Pct(7) * least(f.orderToTradeRatio, 10 * Scale))

(* Mutant: no minimum of orders.                                            *)
SpoofingScoreUngated(f) ==
    unit(Pct(70) * f.cancelRatio
         + Pct(3) * least(f.orderToTradeRatio, 10 * Scale))

SpoofingScore(f) ==
    IF f.nOrders < 4
    THEN 0
    ELSE unit(Pct(70) * f.cancelRatio
              + Pct(3) * least(f.orderToTradeRatio, 10 * Scale))

WashGate(f) ==
    /\ f.buyQty > 0 /\ f.sellQty > 0
    /\ f.nExecs >= 2
    /\ 10 * abs(f.qtyImbalance) <= Scale
    /\ abs(f.roundTripGainBps) <= Scale

WashTradeScore(f) ==
    IF ~WashGate(f)
    THEN 0
    ELSE unit(Pct(60) * (Scale - least(abs(f.qtyImbalance), Scale))
              + Pct(IF f.distinctPrices <= 2 THEN 40 ELSE 20) * Scale)

(* Mutant: the gain is not asked for.                                       *)
FrontGateAnyGain(f) ==
    /\ f.nExecs >= 2
    /\ 10 * abs(f.qtyImbalance) <= Scale
    /\ f.buyQty > 0 /\ f.sellQty > 0

FrontGate(f) ==
    /\ f.nExecs >= 2
    /\ 10 * abs(f.qtyImbalance) <= Scale
    /\ f.roundTripGainBps > Scale
    /\ f.buyQty > 0 /\ f.sellQty > 0

FrontRunningScore(f) ==
    IF ~FrontGate(f)
    THEN 0
    ELSE least(Unit, Pct(60) * Scale
                     + Pct(4) * least(f.roundTripGainBps, 10 * Scale))

MomentumGate(f) ==
    /\ f.nExecs >= 4
    /\ f.priceMoveBps > 0
    /\ 5 * f.cancelRatio <= Scale
    /\ f.sellQty > 0

(* 40% of nExecs / 6, 30%, and 10% of priceMoveBps / 5.                     *)
MomentumScore(f) ==
    IF ~MomentumGate(f)
    THEN 0
    ELSE least(Unit, 80 * Second * Scale * least(f.nExecs, 6)
                     + Pct(30) * Scale
                     + Pct(2) * least(f.priceMoveBps, 5 * Scale))

(* Mutants: at any time of day, with a flat price, without a fill.          *)
MarkingGateAnyTime(f) ==
    /\ f.priceMoveBps > 0
    /\ f.nExecs >= 1
    /\ f.buyQty > 0

MarkingGateFlat(f) ==
    /\ 0 <= f.secsToClose /\ f.secsToClose <= CloseWindow
    /\ f.priceMoveBps >= 0
    /\ f.nExecs >= 1
    /\ f.buyQty > 0

MarkingGateUnfilled(f) ==
    /\ 0 <= f.secsToClose /\ f.secsToClose <= CloseWindow
    /\ f.priceMoveBps > 0
    /\ f.buyQty > 0

MarkingGate(f) ==
    /\ 0 <= f.secsToClose /\ f.secsToClose <= CloseWindow
    /\ f.priceMoveBps > 0
    /\ f.nExecs >= 1
    /\ f.buyQty > 0

PrintAtHigh(f) == f.lastPx >= f.maxPx /\ f.maxPx > 0

MarkingTheCloseScore(f) ==
    IF ~MarkingGate(f)
    THEN 0
    ELSE least(Unit, Pct(30) * Scale
                     + 3 * Scale * (CloseWindow - least(f.secsToClose, CloseWindow))
                     + Pct(4) * least(f.priceMoveBps, 5 * Scale)
                     + Pct(IF PrintAtHigh(f) THEN 20 ELSE 10) * Scale)

-----------------------------------------------------------------------------
(* Alerts *)

Detector == {"SPOOFING", "WASH_TRADE", "FRONT_RUNNING", "MOMENTUM_IGNITION",
             "MARKING_THE_CLOSE"}

score(d, f) ==
    CASE d = "SPOOFING"          -> SpoofingScore(f)
      [] d = "WASH_TRADE"        -> WashTradeScore(f)
      [] d = "FRONT_RUNNING"     -> FrontRunningScore(f)
      [] d = "MOMENTUM_IGNITION" -> MomentumScore(f)
      [] d = "MARKING_THE_CLOSE" -> MarkingTheCloseScore(f)

Threshold(d) == Pct(IF d = "WASH_TRADE" THEN 60 ELSE 50) * Scale

(* ceil(5 * score), clamped to 1..5: one more than the number of inner      *)
(* fifths of the range that the score is past.                              *)
past(k, s) == IF 5 * s > k * Unit THEN 1 ELSE 0

fromRuleScore(s) == 1 + past(1, s) + past(2, s) + past(3, s) + past(4, s)

(* Emit.fromScore returns an alert ...                                      *)
fires(d, f) == score(d, f) >= Threshold(d)

(* ... of this severity.                                                    *)
severity(d, f) == fromRuleScore(score(d, f))

-----------------------------------------------------------------------------
(* What the detectors promise of every row *)

(* A round trip is a wash trade or a front run, never both: the gain that   *)
(* makes it one rules out the other (WashTrade.scala:7, FrontRunning.scala:8). *)
OneRoundTripAlert(f) == ~(fires("WASH_TRADE", f) /\ fires("FRONT_RUNNING", f))

(* Placing and cancelling is not igniting: a row never alerts as both       *)
(* (Momentum.scala:7, "many fills (not cancels)").                          *)
OneIntentAlert(f) == ~(fires("SPOOFING", f) /\ fires("MOMENTUM_IGNITION", f))

(* Orders alone, without a fill or a cancel, alert nobody: what keeps the   *)
(* background flow of benign limit orders quiet however much of it there is *)
(* (engine.py _benign_order).                                               *)
OrdersAloneAreQuiet(f) ==
    (f.nExecs = 0 /\ f.cancelRatio = 0) => \A d \in Detector : ~fires(d, f)

(* A round trip that alerts is always reportable: its severity is 4 or 5    *)
(* (DetectorIsolationSpec, "severity >= 4 (STR-eligible)").                 *)
RoundTripsReportable(f) ==
    \A d \in {"WASH_TRADE", "FRONT_RUNNING"} : fires(d, f) => severity(d, f) >= 4

===============================================================================
