-------------------------------- MODULE Dataset --------------------------------
(***************************************************************************)
(* ml/dataset.py: the features of the (trader, instrument, window) rows of *)
(* a labelled stream, computed in pandas apart from gold.py, and which of  *)
(* the rows are positive.                                                  *)
(***************************************************************************)
EXTENDS Medallion

(* A DataFrame is a table of rows, a row's copy number its index.           *)
DataFrame(events) == {Row(events[k], k) : k \in DOMAIN events}

(* Mutant: a cancel's missing price counts as one more price.               *)
priced_unfiltered(g) == g

(* The rows of a group that carry a price.                                  *)
priced(g) == {r \in g : r.event.price # NoPrice}

(* The prices that may come first and last when some rows are sorted on the *)
(* time alone: rows of the same time are in anyone's order.                 *)
Foremost(px) == {r.event.price : r \in {p \in px : \A q \in px : p.event.t <= q.event.t}}
Hindmost(px) == {r.event.price : r \in {p \in px : \A q \in px : q.event.t <= p.event.t}}

is_buy(rows)   == {r \in rows : r.event.side = "BUY"}
LastQty(rows)  == SumFunction([r \in rows |-> r.event.lastQty])
Notional(rows) == SumFunction([r \in rows |-> r.event.lastQty * r.event.lastPx])

(* The gain of the sell_vwap over the buy_vwap, if there are both.          *)
VwapGain(execs) ==
    LET be == is_buy(execs)
        se == execs \ is_buy(execs)
        paid     == Notional(be) * LastQty(se)
        received == Notional(se) * LastQty(be)
    IN  IF Notional(be) > 0 /\ Notional(se) > 0 THEN Bps(received - paid, paid) ELSE 0

(* FEATURES of one group g of the frame, given first_px and last_px.        *)
TrainingRow(g, firstPx, lastPx) ==
    LET kind(m)   == {r \in g : r.event.msg = m}
        new       == kind("NEW")
        n         == Cardinality(new)
        qty(rows) == SumFunction([r \in rows |-> r.event.qty])
        bought    == qty(is_buy(new))
        sold      == qty(new \ is_buy(new))
    IN  [nOrders           |-> n,
         nCancels          |-> Cardinality(kind("CANCEL")),
         nExecs            |-> Cardinality(kind("EXEC")),
         buyQty            |-> bought,
         sellQty           |-> sold,
         distinctPrices    |-> Cardinality({r.event.price : r \in priced(g)}),
         cancelRatio       |-> (Cardinality(kind("CANCEL")) * Scale) \div most(n, 1),
         orderToTradeRatio |-> (n * Scale) \div most(Cardinality(kind("EXEC")), 1),
         qtyImbalance      |-> ((bought - sold) * Scale) \div most(bought + sold, 1),
         priceMoveBps      |-> IF firstPx > 0 THEN Bps(lastPx - firstPx, firstPx) ELSE 0,
         roundTripGainBps  |-> VwapGain(kind("EXEC")),
         secsToClose       |-> Min({TimeToClose(r.event.t) : r \in g})]

(* Every row gold_features may compute for a key.                           *)
gold_features(df, key) ==
    LET g  == {r \in df : KeyOf(r.event) = key}
        px == priced(g)
    IN  IF px = {} THEN {TrainingRow(g, 0, 0)}
        ELSE {TrainingRow(g, f, l) : f \in Foremost(px), l \in Hindmost(px)}

FEATURES ==
    {"nOrders", "nCancels", "nExecs", "buyQty", "sellQty", "distinctPrices",
     "cancelRatio", "orderToTradeRatio", "qtyImbalance", "priceMoveBps",
     "roundTripGainBps", "secsToClose"}

(* Mutant: only the window a scenario starts in.                            *)
FirstWindowOnly(label) == {WindowStart(label.start)}

(* The while loop of build_dataset: every window from that of the label's   *)
(* start to that of its end, both included.                                 *)
Windows(label) ==
    {k * WindowLen : k \in (label.start \div WindowLen)..(label.end \div WindowLen)}

AbuseKeys(labels) ==
    UNION {{<<label.trader, label.symbol, w>> : w \in Windows(label)} :
              label \in labels}

(* y of the row of a gold key.                                              *)
y(labels, key) == IF key \in AbuseKeys(labels) THEN 1 ELSE 0

===============================================================================
