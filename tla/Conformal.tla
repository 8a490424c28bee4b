------------------------------- MODULE Conformal -------------------------------
(***************************************************************************)
(* The calibration and the prediction sets of ml/scorer.py.  The boosted   *)
(* model is a numeric library: all that is known of it is that it gives    *)
(* every window a raw score.  What train_scorer does with the raw scores   *)
(* of the held-out rows, and what score does with the raw score of a       *)
(* window, is modelled exactly: isotonic calibration, nonconformity, the   *)
(* quantile qhat, the conformal set and needs_human.                       *)
(*                                                                         *)
(* Probabilities are integers in 0..Unit, exact for the sizes allowed.     *)
(***************************************************************************)
EXTENDS Integers, FiniteSetsExt, SequencesExt

CONSTANTS
    Unit,     \* probability 1
    MaxRaw,   \* bound: raw scores are 0..MaxRaw
    MaxRows,  \* bound: held-out rows
    Alphas    \* bound: values of alpha, in percent

ASSUME ConformalAssumption ==
    /\ Unit \in Nat \ {0}
    /\ Alphas \subseteq 1..99
    /\ MaxRaw \in Nat \ {0} /\ MaxRows \in Nat
    /\ \A e \in 1..MaxRaw : Unit % e = 0 /\ \A d \in 1..MaxRows : (Unit \div e) % d = 0

VARIABLES
    cal,     \* the held-out rows: raw_cal and ycal
    fitted,  \* the rows the calibrator was fitted on, <<>> before training
    alpha,
    qhat,
    scored   \* what score has returned

vars == <<cal, fitted, alpha, qhat, scored>>

Raw == 0..MaxRaw

-----------------------------------------------------------------------------
(* IsotonicRegression(out_of_bounds="clip"), sklearn: the closest           *)
(* nondecreasing function, by its max-min form; linear between its points.  *)

RawsOf(rows) == {rows[k].raw : k \in DOMAIN rows}

MeanLabel(rows, lo, hi) ==
    LET among == {k \in DOMAIN rows : rows[k].raw \in lo..hi}
    IN  (Unit * Cardinality({k \in among : rows[k].y = 1})) \div Cardinality(among)

PooledAt(rows, x) ==
    Max({Min({MeanLabel(rows, lo, hi) : hi \in {r \in RawsOf(rows) : r >= x}}) :
            lo \in {r \in RawsOf(rows) : r <= x}})

predict(rows, x) ==
    LET below == {r \in RawsOf(rows) : r <= x}
        above == {r \in RawsOf(rows) : r >= x}
    IN  IF below = {} THEN PooledAt(rows, Min(above))
        ELSE IF above = {} \/ x \in below THEN PooledAt(rows, Max(below))
        ELSE LET lo == Max(below)
                 hi == Min(above)
             IN  PooledAt(rows, lo)
                   + ((PooledAt(rows, hi) - PooledAt(rows, lo)) * (x - lo)) \div (hi - lo)

-----------------------------------------------------------------------------
(* train_scorer *)

(* Mutant: the positive class's probability for both classes.               *)
p_true_positive(p1, label) == p1

p_true(p1, label) == IF label = 1 THEN p1 ELSE Unit - p1

(* Mutant: the wrong way round.                                             *)
nonconformity_signed(p1, label) == p_true(p1, label) - Unit

nonconformity(p1, label) == Unit - p_true(p1, label)

(* Mutant: the quantile of alpha, not of 1 - alpha.                         *)
RankOfAlpha(n, a) == ((n + 1) * a + 99) \div 100

(* np.ceil((n + 1) * (1 - alpha))                                           *)
Rank(n, a) == ((n + 1) * (100 - a) + 99) \div 100

(* np.quantile(scores, min(1.0, rank / n), method="higher"): the score at   *)
(* place (n - 1) * level of the sorted ones, counted from 0, rounded up,    *)
(* which is the least score that more than that many do not exceed.         *)
Place(n, a) ==
    LET k == Min({Rank(n, a), n})
    IN  ((n - 1) * k + n - 1) \div n

AtPlace(scores, place) ==
    Min({v \in Range(scores) :
            Cardinality({j \in DOMAIN scores : scores[j] <= v}) > place})

Quantile(scores, a) == AtPlace(scores, Place(Len(scores), a))

Scores(rows) ==
    [k \in DOMAIN rows |-> nonconformity(predict(rows, rows[k].raw), rows[k].y)]

-----------------------------------------------------------------------------
(* score *)

(* Mutant: the two classes are mixed up.                                    *)
csetSwapped(p1, q) ==
    {c \in {0, 1} : (IF c = 0 THEN p1 ELSE Unit - p1) >= Unit - q}

cset(p1, q) == {c \in {0, 1} : (IF c = 1 THEN p1 ELSE Unit - p1) >= Unit - q}

(* Mutant: the empty set is forgotten.                                      *)
needs_human_both(set) == set = {0, 1}

needs_human(set) == set = {0, 1} \/ set = {}

Init ==
    /\ cal = <<>> /\ fitted = <<>>
    /\ alpha \in Alphas
    /\ qhat = 0
    /\ scored = {}

(* Another held-out row; their order does not matter.                       *)
HoldOut(raw, label) ==
    /\ fitted = <<>>
    /\ Len(cal) < MaxRows
    /\ \A k \in DOMAIN cal : 2 * cal[k].raw + cal[k].y <= 2 * raw + label
    /\ cal' = Append(cal, [raw |-> raw, y |-> label])
    /\ UNCHANGED <<fitted, alpha, qhat, scored>>

(* train_test_split holds out a row per class at least, but a stratified    *)
(* split may hold out none of a class that has few.                         *)
train_scorer ==
    /\ fitted = <<>>
    /\ Len(cal) >= 2
    /\ fitted' = cal
    /\ qhat' = Quantile(Scores(cal), alpha)
    /\ UNCHANGED <<cal, alpha, scored>>

score(x) ==
    LET ml_score == predict(fitted, x)
        set      == cset(ml_score, qhat)
    IN  /\ fitted # <<>>
        /\ scored' = scored \cup {[raw |-> x, ml_score |-> ml_score,
                                   conformal_set |-> set,
                                   needs_human |-> needs_human(set)]}
        /\ UNCHANGED <<cal, fitted, alpha, qhat>>

Next ==
    \/ \E raw \in Raw, label \in {0, 1} : HoldOut(raw, label)
    \/ train_scorer
    \/ \E x \in Raw : score(x)

Spec == Init /\ [][Next]_vars

-----------------------------------------------------------------------------
(* Properties *)

TypeOK ==
    /\ cal \in Seq([raw : Raw, y : {0, 1}])
    /\ fitted \in {<<>>, cal}
    /\ alpha \in Alphas
    /\ qhat \in 0..Unit
    /\ scored \subseteq [raw : Raw, ml_score : 0..Unit,
                        conformal_set : SUBSET {0, 1}, needs_human : BOOLEAN]

(* A window the model finds more suspicious is never cleared where a less   *)
(* suspicious one was not, nor the other way round, whatever the calibrator *)
(* pooled and interpolated (IsotonicRegression and score together).         *)
SuspicionIsMonotone ==
    \A s, r \in scored :
        s.raw <= r.raw =>
            /\ s.ml_score <= r.ml_score
            /\ 1 \in s.conformal_set => 1 \in r.conformal_set
            /\ 0 \in r.conformal_set => 0 \in s.conformal_set

(* A window that skips human review has one answer, and it is the likelier  *)
(* class: with a small qhat the set may be empty, not only ambiguous        *)
(* (needs_human of score).                                                  *)
SkipsReviewWhenSure ==
    \A s \in scored :
        ~s.needs_human =>
            s.conformal_set = IF 2 * s.ml_score > Unit THEN {1} ELSE {0}

Covered(k, rows, q) == rows[k].y \in cset(predict(rows, rows[k].raw), q)

(* qhat covers the rows it was computed from as often as the rank asks, and *)
(* all of them when they are too few for alpha (train_scorer's qhat and     *)
(* score's set, ties of scores and the clamp of the level included).        *)
CoversItsCalibration ==
    fitted # <<>> =>
        Cardinality({k \in DOMAIN cal : Covered(k, cal, qhat)})
            >= Min({Rank(Len(cal), alpha), Len(cal)})

Others(s, k) == RemoveAt(s, k)

(* Were the calibrator independent of the held-out rows (here: the raw      *)
(* score itself), qhat would deliver split-conformal coverage: of any n + 1 *)
(* exchangeable rows at least a share of 1 - alpha is covered by the set    *)
(* computed from the others, or n of them if n is too small for alpha.      *)
CoversGivenCalibrator ==
    LET scores == [k \in DOMAIN cal |->
                      nonconformity(cal[k].raw * (Unit \div MaxRaw), cal[k].y)]
        n == Len(cal) - 1
        hits == {k \in DOMAIN cal : scores[k] <= Quantile(Others(scores, k), alpha)}
    IN  n >= 1 =>
            \/ 100 * Cardinality(hits) >= (100 - alpha) * (n + 1)
            \/ Rank(n, alpha) > n /\ Cardinality(hits) >= n

BothClasses(rows) == {rows[k].y : k \in DOMAIN rows} = {0, 1}

(* What scorer.py:7 promises of the code as it is: a split-conformal,       *)
(* distribution-free set.  Of any n + 1 exchangeable rows, with n large     *)
(* enough for alpha, a share of 1 - alpha is covered by the calibrator and  *)
(* the qhat that train_scorer makes of the others, both classes among them. *)
DistributionFree ==
    LET n == Len(cal) - 1
        hit(k) == LET rest == Others(cal, k)
                  IN  cal[k].y \in cset(predict(rest, cal[k].raw),
                                        Quantile(Scores(rest), alpha))
    IN  (/\ n >= 1
         /\ Rank(n, alpha) <= n
         /\ \A k \in DOMAIN cal : BothClasses(Others(cal, k)))
        => 100 * Cardinality({k \in DOMAIN cal : hit(k)}) >= (100 - alpha) * (n + 1)

===============================================================================
