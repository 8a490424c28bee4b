------------------------------- MODULE Scenarios -------------------------------
(***************************************************************************)
(* The labelled abuse scenarios of generator/synthfix/scenarios.py, each   *)
(* the FIX events it emits and the ground-truth label that goes with them. *)
(*                                                                         *)
(* Times are in units of 10 ms, prices in cents, quantities in lots of     *)
(* 100.  A missing price, side or exec_id is a null value.  Ids are tuples *)
(* with the components the code formats into a string.                     *)
(*                                                                         *)
(* A scenario is a function of a context: where and for whom it runs, and  *)
(* the numbers the random generator gives it: one for the quantity of each *)
(* of its orders, up to five, and the sixth for the price move.            *)
(***************************************************************************)
EXTENDS Integers, Sequences, SequencesExt

ms(k) == k \div 10

NoPrice == 0
NoSide  == ""
NoExec  == <<"none", 0, "", 0>>
NoSid   == <<"none", 0>>

Archetypes == <<"SPOOFING", "WASH_TRADE", "FRONT_RUNNING", "MOMENTUM_IGNITION",
                "MARKING_THE_CLOSE">>

(* cl_ord_id and exec_id: the scenario, the role of the order and its index. *)
Id(sid, role, i) == <<sid[1], sid[2], role, i>>

(* The client whose order is front-run, a trader of its own.                *)
Client(sid) == <<"client", sid[2]>>

(* The numbers a scenario may be given; randint brings the k-th of them     *)
(* into lo..hi.                                                             *)
IsDraws(draws) == draws \in [1..6 -> Nat]

randint(c, k, lo, hi) == lo + (c.draws[k] % (hi - lo + 1))

NewOrder(c, who, role, i, side, qty, at, px) ==
    [msg |-> "NEW", id |-> Id(c.sid, role, i), trader |-> who,
     symbol |-> c.symbol, side |-> side, qty |-> qty, t |-> c.t0 + at,
     price |-> px, exec |-> NoExec, lastQty |-> 0, lastPx |-> NoPrice,
     sid |-> c.sid]

(* A complete fill of an order.                                             *)
Fill(c, who, role, i, side, qty, at, px, eid) ==
    [NewOrder(c, who, role, i, side, qty, at, px) EXCEPT
        !.msg = "EXEC", !.exec = Id(c.sid, eid, i), !.lastQty = qty, !.lastPx = px]

Cancel(c, role, i, qty, at) ==
    [NewOrder(c, c.trader, role, i, "BUY", qty, at, NoPrice) EXCEPT !.msg = "CANCEL"]

(* Mutant: a half-open window.                                              *)
LabelHalfOpen(c, type, start, end, ids) ==
    [sid |-> c.sid, type |-> type, trader |-> c.trader, symbol |-> c.symbol,
     start |-> start, end |-> end - 1, ids |-> ids]

Label(c, type, start, end, ids) ==
    [sid |-> c.sid, type |-> type, trader |-> c.trader, symbol |-> c.symbol,
     start |-> start, end |-> end, ids |-> ids]

IdsOf(evs) == {evs[k].id : k \in DOMAIN evs}

-----------------------------------------------------------------------------

Layers == 4

spoofing(c) ==
    LET spoofs  == [k \in 1..Layers |->
                       NewOrder(c, c.trader, "spoof", k - 1, "BUY",
                                randint(c, k, 50, 55), ms(50) * (k - 1), c.mid - k)]
        sell    == <<NewOrder(c, c.trader, "genuine-sell", 0, "SELL", 2, ms(300), c.mid),
                     Fill(c, c.trader, "genuine-sell", 0, "SELL", 2, ms(350), c.mid, "eid")>>
        cancels == [k \in 1..Layers |->
                       Cancel(c, "cancel", k - 1, 50, ms(400) + ms(20) * (k - 1))]
    IN  [events |-> spoofs \o sell \o cancels,
         label  |-> Label(c, "SPOOFING", c.t0, c.t0 + ms(400) + Layers * ms(20),
                          IdsOf(spoofs) \cup IdsOf(cancels) \cup IdsOf(sell))]

wash_trade(c) ==
    LET orders == <<NewOrder(c, c.trader, "wash-buy", 0, "BUY", 10, 0, c.mid),
                    NewOrder(c, c.trader, "wash-sell", 0, "SELL", 10, ms(100), c.mid)>>
        fills  == <<Fill(c, c.trader, "wash-buy", 0, "BUY", 10, ms(150), c.mid, "beid"),
                    Fill(c, c.trader, "wash-sell", 0, "SELL", 10, ms(150), c.mid, "seid")>>
    IN  [events |-> orders \o fills,
         label  |-> Label(c, "WASH_TRADE", c.t0, c.t0 + ms(150), IdsOf(orders))]

ClientQty == 100

front_running(c) ==
    LET qty   == randint(c, 1, 5, 7)
        after == c.mid + randint(c, 6, 5, 20)
        buy   == NewOrder(c, c.trader, "abuser-buy", 0, "BUY", qty, ms(50), c.mid)
    IN  [events |->
           <<NewOrder(c, Client(c.sid), "client-buy", 0, "BUY", ClientQty, 0, NoPrice),
             buy,
             Fill(c, c.trader, "abuser-buy", 0, "BUY", qty, ms(100), c.mid, "abuser-eid"),
             Fill(c, Client(c.sid), "client-buy", 0, "BUY", ClientQty, ms(200), c.mid,
                  "client-eid"),
             NewOrder(c, c.trader, "abuser-sell", 0, "SELL", qty, ms(300), after),
             Fill(c, c.trader, "abuser-sell", 0, "SELL", qty, ms(350), after,
                  "abuser-exit-eid")>>,
         label  |-> Label(c, "FRONT_RUNNING", c.t0, c.t0 + ms(350), {buy.id})]

BurstSize == 5
ExitQty   == 20

momentum_ignition(c) ==
    LET qty(k) == randint(c, k, 2, 3)
        peak  == c.mid + BurstSize
        exit  == BurstSize * ms(80) + ms(150)
        news  == [k \in 1..BurstSize |->
                     NewOrder(c, c.trader, "burst", k - 1, "BUY", qty(k),
                              ms(80) * (k - 1), c.mid + k)]
        fills == [k \in 1..BurstSize |->
                     Fill(c, c.trader, "burst", k - 1, "BUY", qty(k),
                          ms(80) * (k - 1) + ms(20), c.mid + k, "beid")]
        sell  == NewOrder(c, c.trader, "exit-sell", 0, "SELL", ExitQty, exit, peak)
        burst == [k \in 1..(2 * BurstSize) |->
                     IF k % 2 = 1 THEN news[(k + 1) \div 2] ELSE fills[k \div 2]]
    IN  [events |-> burst
                    \o <<sell, Fill(c, c.trader, "exit-sell", 0, "SELL", ExitQty,
                                    exit + ms(30), peak, "seid")>>,
         label  |-> Label(c, "MOMENTUM_IGNITION", c.t0, c.t0 + exit + ms(30),
                          IdsOf(news) \cup {sell.id})]

Waves   == 3
(* Mutant: the waves are not spaced out. *)
SpacingLost == 0
Spacing == ms(15000)

marking_the_close(c) ==
    LET qty(k)  == randint(c, k, 5, 7)
        fillAt  == (Waves - 1) * Spacing + ms(500)
        waves   == [k \in 1..Waves |->
                       NewOrder(c, c.trader, "mtc", k - 1, "BUY", qty(k),
                                Spacing * (k - 1), c.mid + k)]
        fill    == Fill(c, c.trader, "mtc", Waves - 1, "BUY", qty(Waves), fillAt,
                        c.mid + Waves, "eid")
        cancels == [k \in 1..(Waves - 1) |->
                       Cancel(c, "mtc-cancel", k - 1, qty(k),
                              fillAt + ms(200) + ms(50) * (k - 1))]
    IN  [events |-> waves \o <<fill>> \o cancels,
         label  |-> Label(c, "MARKING_THE_CLOSE", c.t0,
                          c.t0 + fillAt + ms(200) + (Waves - 2) * ms(50),
                          IdsOf(waves))]

(* SCENARIO_FNS[atype](...) of engine.py.                                   *)
Scenario(type, c) ==
    CASE type = "SPOOFING"          -> spoofing(c)
      [] type = "WASH_TRADE"        -> wash_trade(c)
      [] type = "FRONT_RUNNING"     -> front_running(c)
      [] type = "MOMENTUM_IGNITION" -> momentum_ignition(c)
      [] type = "MARKING_THE_CLOSE" -> marking_the_close(c)

===============================================================================
