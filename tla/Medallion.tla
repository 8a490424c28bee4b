------------------------------- MODULE Medallion -------------------------------
(***************************************************************************)
(* The lakehouse layers of pipeline/transforms: raw FIX events -> bronze   *)
(* (required fields enforced) -> silver (deduplicated) -> gold (features   *)
(* per trader, instrument and time window).  All three are pure functions  *)
(* of a table; a table is a set of rows, a row an event and a copy number, *)
(* so that an event delivered twice is two rows.                           *)
(***************************************************************************)
EXTENDS Integers, FiniteSets, FiniteSetsExt, SequencesExt, Scenarios, Detectors

CONSTANTS
    WindowLen,   \* window_ms
    CloseOfDay,  \* _CLOSE_MS_OF_DAY
    DayLen       \* _DAY_MS

ASSUME MedallionAssumption ==
    /\ WindowLen \in Nat \ {0} /\ DayLen \in Nat \ {0}
    /\ CloseOfDay \in 0..DayLen
    /\ Scale % 100 = 0

Row(e, k) == [event |-> e, copy |-> k]

(* Mutant: price is among the required fields, which cancels do not carry.  *)
PriceRequired(r) == r.event.side # NoSide /\ r.event.price # NoPrice

(* The side stands for all required fields: an event missing one of them    *)
(* has no side.                                                             *)
RequiredPresent(r) == r.event.side # NoSide

to_bronze(raw)         == {r \in raw : RequiredPresent(r)}
bronze_quarantine(raw) == {r \in raw : ~RequiredPresent(r)}

(* Mutant: only the order is compared.                                      *)
DedupKeyOrderOnly(e) == <<e.id>>

(* The columns dropDuplicates compares.                                     *)
DedupKey(e) == <<e.id, e.msg, e.t, e.exec>>

(* Mutant: nothing is dropped.                                              *)
to_silver_with_duplicates(bronze) == bronze

(* dropDuplicates keeps any one row of each key.                            *)
to_silver(bronze) ==
    {CHOOSE r \in bronze : DedupKey(r.event) = k :
        k \in {DedupKey(r.event) : r \in bronze}}

-----------------------------------------------------------------------------
(* Gold *)

WindowStart(t)  == (t \div WindowLen) * WindowLen
(* Mutant: counted from the epoch, not from the start of the day.           *)
TimeToCloseFromEpoch(t) == CloseOfDay - t
TimeToClose(t)  == CloseOfDay - (t % DayLen)
KeyOf(e)        == <<e.trader, e.symbol, WindowStart(e.t)>>
GoldKeys(table) == {KeyOf(r.event) : r \in table}

(* f times a quotient and its remainder, for b > 0.                         *)
Times(f, part, b) == [quot |-> part.quot * f + (part.rem * f) \div b,
                      rem  |-> (part.rem * f) % b]

(* 10000 * Scale * a \div b, by factors that keep the products in 32 bits.  *)
Bps(a, b) ==
    LET part    == [quot |-> a \div b, rem |-> a % b]
        million == Times(100, Times(100, Times(100, part, b), b), b)
    IN  Times(Scale \div 100, million, b).quot

(* is_buy and its negation: what does not buy counts as a sale.             *)
OnSide(rows, side) == {r \in rows : r.event.side = "BUY" <=> side = "BUY"}

(* The executions that say at what price and how much was filled.           *)
Filled(execs) == {r \in execs : r.event.lastPx # NoPrice /\ r.event.lastQty # 0}

(* Volume and turnover of the fills on one side; their ratio is the VWAP.   *)
Volume(execs, side) ==
    SumFunction([r \in OnSide(execs, side) |-> r.event.lastQty])
Turnover(execs, side) ==
    SumFunction([r \in OnSide(execs, side) |-> r.event.lastQty * r.event.lastPx])

RoundTripGain(execs) ==
    LET buys == Turnover(execs, "BUY") * Volume(execs, "SELL")
        sells == Turnover(execs, "SELL") * Volume(execs, "BUY")
    IN  IF buys = 0 THEN 0 ELSE Bps(sells - buys, buys)

(* first_px and last_px: several rows may share the first or last time, and *)
(* min_by and max_by return the price of any of them.                       *)
PxAt(priced, at) == {r.event.price : r \in {q \in priced : q.event.t = at}}

FirstPx(priced) ==
    IF priced = {} THEN {0} ELSE PxAt(priced, Min({r.event.t : r \in priced}))

LastPx(priced) ==
    IF priced = {} THEN {0} ELSE PxAt(priced, Max({r.event.t : r \in priced}))

(* The features of one group of silver rows, given which prices min_by and  *)
(* max_by return.                                                           *)
Features(rows, key, firstPx, lastPx) ==
    LET kind(m)  == {r \in rows : r.event.msg = m}
        news     == kind("NEW")
        n        == Cardinality(news)
        c        == Cardinality(kind("CANCEL"))
        x        == Cardinality(kind("EXEC"))
        qty(s)   == SumFunction([r \in OnSide(news, s) |-> r.event.qty])
        prices   == {r.event.price : r \in rows} \ {NoPrice}
    IN  [trader            |-> key[1],
         symbol            |-> key[2],
         windowStart       |-> key[3],
         nOrders           |-> n,
         nCancels          |-> c,
         nExecs            |-> x,
         buyQty            |-> qty("BUY"),
         sellQty           |-> qty("SELL"),
         distinctPrices    |-> Cardinality(prices),
         cancelRatio       |-> (c * Scale) \div most(n, 1),
         orderToTradeRatio |-> (n * Scale) \div most(x, 1),
         qtyImbalance      |-> ((qty("BUY") - qty("SELL")) * Scale)
                                 \div most(qty("BUY") + qty("SELL"), 1),
         lastPx            |-> lastPx,
         maxPx             |-> IF prices = {} THEN 0 ELSE Max(prices),
         priceMoveBps      |-> IF firstPx > 0 THEN Bps(lastPx - firstPx, firstPx)
                                              ELSE 0,
         roundTripGainBps  |-> RoundTripGain(Filled(kind("EXEC"))),
         secsToClose       |-> Min({TimeToClose(r.event.t) : r \in rows})]

(* Every row to_gold may compute for a key.                                 *)
GoldRows(silver, key) ==
    LET rows   == {r \in silver : KeyOf(r.event) = key}
        priced == {r \in rows : r.event.price # NoPrice}
    IN  {Features(rows, key, f, l) : f \in FirstPx(priced), l \in LastPx(priced)}

to_gold(silver) == UNION {GoldRows(silver, k) : k \in GoldKeys(silver)}

(* The transforms in the order the pipeline chains them.                    *)
Gold(raw) == to_gold(to_silver(to_bronze(raw)))

(* The alerts the detectors emit on gold rows; AlertId is the hash of the   *)
(* detector, trader, instrument and window.                                 *)
Alerts(gold) ==
    {[detector |-> p[1], trader |-> p[2].trader, symbol |-> p[2].symbol,
      windowStart |-> p[2].windowStart, severity |-> severity(p[1], p[2])] :
        p \in {q \in Detector \X gold : fires(q[1], q[2])}}

AlertId(a) == <<a.detector, a.trader, a.symbol, a.windowStart>>

===============================================================================
