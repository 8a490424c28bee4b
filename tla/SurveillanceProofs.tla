-------------------------- MODULE SurveillanceProofs --------------------------
(***************************************************************************)
(* What the pipeline makes of a scenario at every moment of its delivery,  *)
(* whatever the scenario, the draws, the order of arrival and the number   *)
(* of repetitions and incomplete events: gold is well formed, repetitions  *)
(* and incomplete events leave no trace in it, no tie between prices       *)
(* decides what a row says, and only the abuser is alerted: away from the  *)
(* close by no detector but his own, by that one once everything has       *)
(* arrived in one window, and an alert outlives all that arrives after it. *)
(***************************************************************************)
EXTENDS Surveillance, MedallionProofs

-----------------------------------------------------------------------------
(* What the abuser does in each scenario *)

(* The event e is the abuser's, of this kind, and says this.                *)
Deed(e, c, role, n, msg, side, qty, at, px) ==
    /\ e.trader = c.trader /\ e.id[3] = role /\ e.id[4] = n
    /\ e.msg = msg /\ e.side = side /\ e.qty = qty
    /\ e.t = c.t0 + at /\ e.price = px
    /\ msg = "EXEC" => e.lastQty = qty /\ e.lastPx = px

(* Orders, fills and cancels as they are made.                              *)
LEMMA DeedOf ==
    ASSUME NEW c, NEW role, NEW n, NEW side, NEW qty, NEW at, NEW px, NEW eid
    PROVE  /\ Deed(NewOrder(c, c.trader, role, n, side, qty, at, px),
                   c, role, n, "NEW", side, qty, at, px)
           /\ Deed(Fill(c, c.trader, role, n, side, qty, at, px, eid),
                   c, role, n, "EXEC", side, qty, at, px)
           /\ Deed(Cancel(c, role, n, qty, at),
                   c, role, n, "CANCEL", "BUY", qty, at, NoPrice)
<1> DEFINE o == NewOrder(c, c.trader, role, n, side, qty, at, px)
           f == Fill(c, c.trader, role, n, side, qty, at, px, eid)
           x == Cancel(c, role, n, qty, at)
<1>1. o = [msg |-> "NEW", id |-> <<c.sid[1], c.sid[2], role, n>>, trader |-> c.trader,
           symbol |-> c.symbol, side |-> side, qty |-> qty, t |-> c.t0 + at,
           price |-> px, exec |-> NoExec, lastQty |-> 0, lastPx |-> NoPrice,
           sid |-> c.sid]
  BY DEF NewOrder, Id
<1>2. f = [o EXCEPT !.msg = "EXEC", !.exec = Id(c.sid, eid, n),
                    !.lastQty = qty, !.lastPx = px]
  BY DEF Fill
<1>3. x = [msg |-> "CANCEL", id |-> <<c.sid[1], c.sid[2], role, n>>,
           trader |-> c.trader, symbol |-> c.symbol, side |-> "BUY", qty |-> qty,
           t |-> c.t0 + at, price |-> NoPrice, exec |-> NoExec, lastQty |-> 0,
           lastPx |-> NoPrice, sid |-> c.sid]
  BY DEF NewOrder, Cancel, Id
<1> HIDE DEF o, f, x
<1>4. Deed(o, c, role, n, "NEW", side, qty, at, px)
  BY <1>1 DEF Deed
<1>5. Deed(f, c, role, n, "EXEC", side, qty, at, px)
  BY <1>1, <1>2 DEF Deed
<1>6. Deed(x, c, role, n, "CANCEL", "BUY", qty, at, NoPrice)
  BY <1>3 DEF Deed
<1> QED
  BY <1>4, <1>5, <1>6 DEF o, f, x

(* A run of n events.                                                       *)
Run(s, n) == DOMAIN s = 1..n /\ s = [k \in 1..n |-> s[k]]

(* What is in two runs, one after the other.                                *)
LEMMA RunJoin ==
    ASSUME NEW m \in Nat, NEW n \in Nat, NEW s, Run(s, m), NEW u, Run(u, n)
    PROVE  Run(s \o u, m + n) /\ Range(s \o u) = Range(s) \cup Range(u)
<1> DEFINE X == Range(s) \cup Range(u)
           w == s \o u
<1>1. s \in [1..m -> X] /\ u \in [1..n -> X]
  BY DEF Run, Range
<1>2. s \in Seq(X) /\ u \in Seq(X) /\ Len(s) = m /\ Len(u) = n
  BY <1>1
<1>3. /\ w \in Seq(X) /\ Len(w) = m + n
      /\ \A k \in 1..(m + n) : w[k] = IF k <= m THEN s[k] ELSE u[k - m]
  BY <1>2, ConcatProperties
<1> HIDE DEF w
<1>4. DOMAIN w = 1..(m + n) /\ w = [k \in 1..(m + n) |-> w[k]]
  BY <1>3
<1>5. \A k \in 1..m : k \in 1..(m + n) /\ w[k] = s[k]
  BY <1>3
<1>6. \A k \in 1..n : k + m \in 1..(m + n) /\ w[k + m] = u[k]
  <2> TAKE k \in 1..n
  <2>1. k + m \in 1..(m + n) /\ ~(k + m <= m) /\ (k + m) - m = k
    OBVIOUS
  <2> QED
    BY <1>3, <2>1
<1>7. \A k \in 1..(m + n) : w[k] \in X
  BY <1>3
<1>8. Range(w) = X
  <2>1. Range(w) \subseteq X
    BY <1>4, <1>7 DEF Range
  <2>2. Range(s) \subseteq Range(w)
    BY <1>4, <1>5 DEF Range, Run
  <2>3. Range(u) \subseteq Range(w)
    BY <1>4, <1>6 DEF Range, Run
  <2> QED
    BY <2>1, <2>2, <2>3
<1> QED
  BY <1>4, <1>8 DEF Run, w

(* Four layers of orders and their cancels, a sell and its fill.            *)
SpoofingDeeds(E, c) ==
    \E o, x, s, f :
        /\ E = {o[k] : k \in 1..4} \cup {s, f} \cup {x[k] : k \in 1..4}
        /\ \A k \in 1..4 :
              /\ Deed(o[k], c, "spoof", k - 1, "NEW", "BUY", randint(c, k, 50, 55),
                      5 * (k - 1), c.mid - k)
              /\ Deed(x[k], c, "cancel", k - 1, "CANCEL", "BUY", 50,
                      40 + 2 * (k - 1), NoPrice)
        /\ Deed(s, c, "genuine-sell", 0, "NEW", "SELL", 2, 30, c.mid)
        /\ Deed(f, c, "genuine-sell", 0, "EXEC", "SELL", 2, 35, c.mid)

(* spoofing.                                                                *)
LEMMA SpoofingDoes ==
    ASSUME NEW c PROVE SpoofingDeeds(Range(spoofing(c).events), c)
<1> DEFINE qty(k) == randint(c, k, 50, 55)
           o == [k \in 1..4 |-> NewOrder(c, c.trader, "spoof", k - 1, "BUY", qty(k),
                                         5 * (k - 1), c.mid - k)]
           x == [k \in 1..4 |-> Cancel(c, "cancel", k - 1, 50, 40 + 2 * (k - 1))]
           s == NewOrder(c, c.trader, "genuine-sell", 0, "SELL", 2, 30, c.mid)
           f == Fill(c, c.trader, "genuine-sell", 0, "SELL", 2, 35, c.mid, "eid")
           u == <<s, f>>
<1>1. spoofing(c).events = (o \o u) \o x
  BY Millis DEF spoofing, Layers
<1>2. \A k \in 1..4 :
          /\ Deed(o[k], c, "spoof", k - 1, "NEW", "BUY", qty(k), 5 * (k - 1), c.mid - k)
          /\ Deed(x[k], c, "cancel", k - 1, "CANCEL", "BUY", 50, 40 + 2 * (k - 1), NoPrice)
  <2> HIDE DEF qty
  <2> QED
    BY DeedOf
<1>3. /\ Deed(s, c, "genuine-sell", 0, "NEW", "SELL", 2, 30, c.mid)
      /\ Deed(f, c, "genuine-sell", 0, "EXEC", "SELL", 2, 35, c.mid)
  BY DeedOf
<1>4. /\ Run(o, 4) /\ Range(o) = {o[k] : k \in 1..4}
      /\ Run(x, 4) /\ Range(x) = {x[k] : k \in 1..4}
  BY DEF Run, Range
<1> HIDE DEF s, f
<1>5. Run(u, 2) /\ Range(u) = {s, f}
  BY DEF Run, Range
<1> HIDE DEF o, x, u
<1>6. Run(o \o u, 6) /\ Range(o \o u) = Range(o) \cup Range(u)
  <2>1. ASSUME NEW m \in Nat, NEW n \in Nat, Run(o, m), Run(u, n)
        PROVE  Run(o \o u, m + n) /\ Range(o \o u) = Range(o) \cup Range(u)
    BY <2>1, RunJoin
  <2>2. 4 \in Nat /\ 2 \in Nat /\ 4 + 2 = 6
    OBVIOUS
  <2> QED
    BY <1>4, <1>5, <2>1, <2>2
<1>7. Range((o \o u) \o x) = Range(o \o u) \cup Range(x)
  <2>1. ASSUME NEW m \in Nat, NEW n \in Nat, Run(o \o u, m), Run(x, n)
        PROVE  Range((o \o u) \o x) = Range(o \o u) \cup Range(x)
    BY <2>1, RunJoin
  <2>2. 4 \in Nat /\ 2 \in Nat
    OBVIOUS
  <2> QED
    BY <1>4, <1>6, <2>1, <2>2
<1>8. Range(spoofing(c).events) = {o[k] : k \in 1..4} \cup {s, f} \cup {x[k] : k \in 1..4}
  BY <1>1, <1>4, <1>5, <1>6, <1>7
<1> QED
  BY <1>2, <1>3, <1>8 DEF SpoofingDeeds, qty

(* An order on each side and its fill, all at one price.                    *)
WashDeeds(E, c) ==
    \E b, s, fb, fs :
        /\ E = {b, s, fb, fs}
        /\ Deed(b, c, "wash-buy", 0, "NEW", "BUY", 10, 0, c.mid)
        /\ Deed(s, c, "wash-sell", 0, "NEW", "SELL", 10, 10, c.mid)
        /\ Deed(fb, c, "wash-buy", 0, "EXEC", "BUY", 10, 15, c.mid)
        /\ Deed(fs, c, "wash-sell", 0, "EXEC", "SELL", 10, 15, c.mid)

(* wash_trade.                                                              *)
LEMMA WashDoes ==
    ASSUME NEW c PROVE WashDeeds(Range(wash_trade(c).events), c)
<1> DEFINE b  == NewOrder(c, c.trader, "wash-buy", 0, "BUY", 10, 0, c.mid)
           s  == NewOrder(c, c.trader, "wash-sell", 0, "SELL", 10, 10, c.mid)
           fb == Fill(c, c.trader, "wash-buy", 0, "BUY", 10, 15, c.mid, "beid")
           fs == Fill(c, c.trader, "wash-sell", 0, "SELL", 10, 15, c.mid, "seid")
           u == <<b, s>>
           v == <<fb, fs>>
<1>1. wash_trade(c).events = u \o v
  BY Millis DEF wash_trade
<1>2. /\ Deed(b, c, "wash-buy", 0, "NEW", "BUY", 10, 0, c.mid)
      /\ Deed(s, c, "wash-sell", 0, "NEW", "SELL", 10, 10, c.mid)
      /\ Deed(fb, c, "wash-buy", 0, "EXEC", "BUY", 10, 15, c.mid)
      /\ Deed(fs, c, "wash-sell", 0, "EXEC", "SELL", 10, 15, c.mid)
  BY DeedOf
<1> HIDE DEF b, s, fb, fs
<1>3. Run(u, 2) /\ Range(u) = {b, s} /\ Run(v, 2) /\ Range(v) = {fb, fs}
  BY DEF Run, Range
<1> HIDE DEF u, v
<1>4. Range(u \o v) = Range(u) \cup Range(v)
  BY <1>3, RunJoin
<1>5. Range(wash_trade(c).events) = {b, s, fb, fs}
  BY <1>1, <1>3, <1>4
<1> QED
  BY <1>2, <1>5 DEF WashDeeds

(* A buy at the price, its fill, and a sell of as much at a better price,   *)
(* around an order and fill of the client.                                  *)
FrontDeeds(E, c) ==
    \E b, fb, s, fs, o, fo :
        /\ E = {b, fb, s, fs, o, fo}
        /\ o.trader = Client(c.sid) /\ fo.trader = Client(c.sid)
        /\ Deed(b, c, "abuser-buy", 0, "NEW", "BUY", randint(c, 1, 5, 7), 5, c.mid)
        /\ Deed(fb, c, "abuser-buy", 0, "EXEC", "BUY", randint(c, 1, 5, 7), 10, c.mid)
        /\ Deed(s, c, "abuser-sell", 0, "NEW", "SELL", randint(c, 1, 5, 7), 30,
                c.mid + randint(c, 6, 5, 20))
        /\ Deed(fs, c, "abuser-sell", 0, "EXEC", "SELL", randint(c, 1, 5, 7), 35,
                c.mid + randint(c, 6, 5, 20))

(* front_running.                                                           *)
LEMMA FrontDoes ==
    ASSUME NEW c PROVE FrontDeeds(Range(front_running(c).events), c)
<1> DEFINE qty == randint(c, 1, 5, 7)
           px  == c.mid + randint(c, 6, 5, 20)
           who == Client(c.sid)
           o  == NewOrder(c, who, "client-buy", 0, "BUY", ClientQty, 0, NoPrice)
           b  == NewOrder(c, c.trader, "abuser-buy", 0, "BUY", qty, 5, c.mid)
           fb == Fill(c, c.trader, "abuser-buy", 0, "BUY", qty, 10, c.mid, "abuser-eid")
           fo == Fill(c, who, "client-buy", 0, "BUY", ClientQty, 20, c.mid, "client-eid")
           s  == NewOrder(c, c.trader, "abuser-sell", 0, "SELL", qty, 30, px)
           fs == Fill(c, c.trader, "abuser-sell", 0, "SELL", qty, 35, px,
                      "abuser-exit-eid")
           u == <<o, b, fb, fo, s, fs>>
<1>1. front_running(c).events = u
  BY Millis DEF front_running
<1>2. /\ Deed(b, c, "abuser-buy", 0, "NEW", "BUY", qty, 5, c.mid)
      /\ Deed(fb, c, "abuser-buy", 0, "EXEC", "BUY", qty, 10, c.mid)
      /\ Deed(s, c, "abuser-sell", 0, "NEW", "SELL", qty, 30, px)
      /\ Deed(fs, c, "abuser-sell", 0, "EXEC", "SELL", qty, 35, px)
  BY DeedOf
<1>3. o.trader = who /\ fo.trader = who
  <2>1. o.trader = who
    BY DEF NewOrder
  <2>2. NewOrder(c, who, "client-buy", 0, "BUY", ClientQty, 20, c.mid).trader = who
    BY DEF NewOrder
  <2> DEFINE n == NewOrder(c, who, "client-buy", 0, "BUY", ClientQty, 20, c.mid)
  <2>3. DOMAIN n = {"msg", "id", "trader", "symbol", "side", "qty", "t", "price", "exec",
                    "lastQty", "lastPx", "sid"}
    BY DEF NewOrder
  <2>4. fo = [n EXCEPT !.msg = "EXEC", !.exec = Id(c.sid, "client-eid", 0),
                       !.lastQty = ClientQty, !.lastPx = c.mid]
    BY DEF Fill
  <2> HIDE DEF n, fo, who
  <2>5. fo.trader = n.trader
    BY <2>3, <2>4
  <2> QED
    BY <2>1, <2>2, <2>5 DEF n
<1> HIDE DEF o, b, fb, fo, s, fs
<1>4. u = [k \in 1..6 |-> u[k]] /\ u[1] = o /\ u[2] = b /\ u[3] = fb /\ u[4] = fo
      /\ u[5] = s /\ u[6] = fs /\ DOMAIN u = 1..6
  OBVIOUS
<1> HIDE DEF u
<1>5. Range(u) = {b, fb, s, fs, o, fo}
  <2>1. \A k \in 1..6 : k = 1 \/ k = 2 \/ k = 3 \/ k = 4 \/ k = 5 \/ k = 6
    OBVIOUS
  <2> QED
    BY <1>4, <2>1 DEF Range
<1> QED
  BY <1>1, <1>2, <1>3, <1>5 DEF FrontDeeds, qty, px, who

(* A burst of buys at rising prices, each filled, and a sell at the peak.   *)
MomentumDeeds(E, c) ==
    \E o, f, s, x :
        /\ E = {o[k] : k \in 1..5} \cup {f[k] : k \in 1..5} \cup {s, x}
        /\ \A k \in 1..5 :
              /\ Deed(o[k], c, "burst", k - 1, "NEW", "BUY", randint(c, k, 2, 3),
                      8 * (k - 1), c.mid + k)
              /\ Deed(f[k], c, "burst", k - 1, "EXEC", "BUY", randint(c, k, 2, 3),
                      8 * (k - 1) + 2, c.mid + k)
        /\ Deed(s, c, "exit-sell", 0, "NEW", "SELL", 20, 55, c.mid + 5)
        /\ Deed(x, c, "exit-sell", 0, "EXEC", "SELL", 20, 58, c.mid + 5)

(* momentum_ignition.                                                       *)
LEMMA MomentumDoes ==
    ASSUME NEW c PROVE MomentumDeeds(Range(momentum_ignition(c).events), c)
<1> DEFINE qty(k) == randint(c, k, 2, 3)
           o == [k \in 1..5 |-> NewOrder(c, c.trader, "burst", k - 1, "BUY", qty(k),
                                         8 * (k - 1), c.mid + k)]
           f == [k \in 1..5 |-> Fill(c, c.trader, "burst", k - 1, "BUY", qty(k),
                                     8 * (k - 1) + 2, c.mid + k, "beid")]
           s == NewOrder(c, c.trader, "exit-sell", 0, "SELL", 20, 55, c.mid + 5)
           x == Fill(c, c.trader, "exit-sell", 0, "SELL", 20, 58, c.mid + 5, "seid")
           u == [k \in 1..10 |-> IF k % 2 = 1 THEN o[(k + 1) \div 2] ELSE f[k \div 2]]
           v == <<s, x>>
<1>1. momentum_ignition(c).events = u \o v
  <2>1. /\ 2 * BurstSize = 10 /\ BurstSize = 5 /\ ExitQty = 20
        /\ 5 * ms(80) + ms(150) = 55 /\ 55 + ms(30) = 58 /\ ms(80) = 8 /\ ms(20) = 2
    BY Millis DEF BurstSize, ExitQty
  <2> QED
    BY <2>1 DEF momentum_ignition
<1>2. \A k \in 1..5 :
         /\ Deed(o[k], c, "burst", k - 1, "NEW", "BUY", qty(k), 8 * (k - 1), c.mid + k)
         /\ Deed(f[k], c, "burst", k - 1, "EXEC", "BUY", qty(k), 8 * (k - 1) + 2, c.mid + k)
  <2> HIDE DEF qty
  <2> QED
    BY DeedOf
<1>3. /\ Deed(s, c, "exit-sell", 0, "NEW", "SELL", 20, 55, c.mid + 5)
      /\ Deed(x, c, "exit-sell", 0, "EXEC", "SELL", 20, 58, c.mid + 5)
  BY DeedOf
<1> HIDE DEF s, x, o, f
<1>4. Run(v, 2) /\ Range(v) = {s, x}
  BY DEF Run, Range
<1>5. DOMAIN u = 1..10 /\ Run(u, 10)
  BY DEF Run
<1>6. Range(u) = {o[k] : k \in 1..5} \cup {f[k] : k \in 1..5}
  <2>1. \A k \in 1..10 : /\ k % 2 = 1 => (k + 1) \div 2 \in 1..5 /\ u[k] = o[(k + 1) \div 2]
                         /\ k % 2 # 1 => k \div 2 \in 1..5 /\ u[k] = f[k \div 2]
    OBVIOUS
  <2>2. \A m \in 1..5 : /\ 2 * m - 1 \in 1..10 /\ (2 * m - 1) % 2 = 1
                        /\ ((2 * m - 1) + 1) \div 2 = m
                        /\ 2 * m \in 1..10 /\ (2 * m) % 2 # 1 /\ (2 * m) \div 2 = m
    OBVIOUS
  <2> HIDE DEF u
  <2>3. \A k \in 1..10 : u[k] \in {o[m] : m \in 1..5} \cup {f[m] : m \in 1..5}
    BY <2>1
  <2>4. \A m \in 1..5 : o[m] \in Range(u) /\ f[m] \in Range(u)
    <3> TAKE m \in 1..5
    <3>1. u[2 * m - 1] = o[m] /\ u[2 * m] = f[m] /\ 2 * m - 1 \in 1..10 /\ 2 * m \in 1..10
      BY <2>1, <2>2
    <3> QED
      BY <1>5, <3>1 DEF Range
  <2> QED
    BY <1>5, <2>3, <2>4 DEF Range
<1> HIDE DEF u, v
<1>7. Range(u \o v) = Range(u) \cup Range(v)
  BY <1>4, <1>5, RunJoin
<1>8. Range(momentum_ignition(c).events)
        = {o[k] : k \in 1..5} \cup {f[k] : k \in 1..5} \cup {s, x}
  BY <1>1, <1>4, <1>6, <1>7
<1> QED
  BY <1>2, <1>3, <1>8 DEF MomentumDeeds, qty

(* Three waves of buys at rising prices, the fill of the last, and cancels  *)
(* of the others.                                                           *)
MarkingDeeds(E, c) ==
    \E o, f, x :
        /\ E = {o[k] : k \in 1..3} \cup {f} \cup {x[k] : k \in 1..2}
        /\ \A k \in 1..3 : Deed(o[k], c, "mtc", k - 1, "NEW", "BUY", randint(c, k, 5, 7),
                                1500 * (k - 1), c.mid + k)
        /\ Deed(f, c, "mtc", 2, "EXEC", "BUY", randint(c, 3, 5, 7), 3050, c.mid + 3)
        /\ \A k \in 1..2 : Deed(x[k], c, "mtc-cancel", k - 1, "CANCEL", "BUY",
                                randint(c, k, 5, 7), 3070 + 5 * (k - 1), NoPrice)

(* marking_the_close.                                                       *)
LEMMA MarkingDoes ==
    ASSUME NEW c PROVE MarkingDeeds(Range(marking_the_close(c).events), c)
<1> DEFINE qty(k) == randint(c, k, 5, 7)
           o == [k \in 1..3 |-> NewOrder(c, c.trader, "mtc", k - 1, "BUY", qty(k),
                                         1500 * (k - 1), c.mid + k)]
           f == Fill(c, c.trader, "mtc", 2, "BUY", qty(3), 3050, c.mid + 3, "eid")
           x == [k \in 1..2 |-> Cancel(c, "mtc-cancel", k - 1, qty(k), 3070 + 5 * (k - 1))]
           u == <<f>>
<1>1. marking_the_close(c).events = (o \o u) \o x
  <2>1. /\ Waves = 3 /\ Spacing = 1500 /\ ms(50) = 5 /\ Waves - 1 = 2
        /\ (Waves - 1) * Spacing + ms(500) = 3050 /\ 3050 + ms(200) = 3070
    BY Millis DEF Waves, Spacing
  <2> QED
    BY <2>1 DEF marking_the_close
<1>2. /\ \A k \in 1..3 : Deed(o[k], c, "mtc", k - 1, "NEW", "BUY", qty(k),
                              1500 * (k - 1), c.mid + k)
      /\ \A k \in 1..2 : Deed(x[k], c, "mtc-cancel", k - 1, "CANCEL", "BUY", qty(k),
                              3070 + 5 * (k - 1), NoPrice)
  <2> HIDE DEF qty
  <2>1. \A k \in 1..3 : o[k] = NewOrder(c, c.trader, "mtc", k - 1, "BUY", qty(k),
                                        1500 * (k - 1), c.mid + k)
    OBVIOUS
  <2>2. \A k \in 1..2 : x[k] = Cancel(c, "mtc-cancel", k - 1, qty(k), 3070 + 5 * (k - 1))
    OBVIOUS
  <2> HIDE DEF o, x
  <2>3. ASSUME NEW k \in 1..3
        PROVE  Deed(o[k], c, "mtc", k - 1, "NEW", "BUY", qty(k), 1500 * (k - 1), c.mid + k)
    <3> DEFINE n == k - 1
               at == 1500 * (k - 1)
               px == c.mid + k
    <3>1. o[k] = NewOrder(c, c.trader, "mtc", n, "BUY", qty(k), at, px)
      BY <2>1
    <3> HIDE DEF n, at, px
    <3>2. Deed(o[k], c, "mtc", n, "NEW", "BUY", qty(k), at, px)
      BY <3>1, DeedOf
    <3> QED
      BY <3>2 DEF n, at, px
  <2>4. ASSUME NEW k \in 1..2
        PROVE  Deed(x[k], c, "mtc-cancel", k - 1, "CANCEL", "BUY", qty(k),
                    3070 + 5 * (k - 1), NoPrice)
    <3> DEFINE n == k - 1
               at == 3070 + 5 * (k - 1)
    <3>1. x[k] = Cancel(c, "mtc-cancel", n, qty(k), at)
      BY <2>2
    <3> HIDE DEF n, at
    <3>2. Deed(x[k], c, "mtc-cancel", n, "CANCEL", "BUY", qty(k), at, NoPrice)
      BY <3>1, DeedOf
    <3> QED
      BY <3>2 DEF n, at
  <2> QED
    BY <2>3, <2>4
<1>3. Deed(f, c, "mtc", 2, "EXEC", "BUY", qty(3), 3050, c.mid + 3)
  BY DeedOf
<1>4. /\ Run(o, 3) /\ Range(o) = {o[k] : k \in 1..3}
      /\ Run(x, 2) /\ Range(x) = {x[k] : k \in 1..2}
  BY DEF Run, Range
<1> HIDE DEF f
<1>5. Run(u, 1) /\ Range(u) = {f}
  BY DEF Run, Range
<1> HIDE DEF o, x, u
<1>6. Run(o \o u, 4) /\ Range(o \o u) = Range(o) \cup Range(u)
  <2>1. ASSUME NEW m \in Nat, NEW n \in Nat, Run(o, m), Run(u, n)
        PROVE  Run(o \o u, m + n) /\ Range(o \o u) = Range(o) \cup Range(u)
    BY <2>1, RunJoin
  <2>2. 3 \in Nat /\ 1 \in Nat /\ 3 + 1 = 4
    OBVIOUS
  <2> QED
    BY <1>4, <1>5, <2>1, <2>2
<1>7. Range((o \o u) \o x) = Range(o \o u) \cup Range(x)
  <2>1. ASSUME NEW m \in Nat, NEW n \in Nat, Run(o \o u, m), Run(x, n)
        PROVE  Range((o \o u) \o x) = Range(o \o u) \cup Range(x)
    BY <2>1, RunJoin
  <2>2. 4 \in Nat /\ 2 \in Nat
    OBVIOUS
  <2> QED
    BY <1>4, <1>6, <2>1, <2>2
<1>8. Range(marking_the_close(c).events)
        = {o[k] : k \in 1..3} \cup {f} \cup {x[k] : k \in 1..2}
  BY <1>1, <1>4, <1>5, <1>6, <1>7
<1> QED
  BY <1>2, <1>3, <1>8 DEF MarkingDeeds, qty

-----------------------------------------------------------------------------
(* What else alerts on each scenario: nothing *)

(* The quantities, prices and times drawn.                                  *)
LEMMA Drawn ==
    ASSUME NEW c, IsContext(c)
    PROVE  /\ c.t0 \in Nat /\ c.mid \in Nat \ (0..5)
           /\ \A k \in 1..6 : /\ randint(c, k, 50, 55) \in 50..55
                             /\ randint(c, k, 5, 7) \in 5..7
                             /\ randint(c, k, 2, 3) \in 2..3
           /\ c.mid + randint(c, 6, 5, 20) \in (c.mid + 5)..(c.mid + 20)
           /\ c.trader # Client(c.sid)
<1> DEFINE rise == randint(c, 6, 5, 20)
<1>1. \A k \in 1..6 : /\ randint(c, k, 50, 55) \in 50..55
                     /\ randint(c, k, 5, 7) \in 5..7
                     /\ randint(c, k, 2, 3) \in 2..3
  BY DrawnFrom
<1>2. c.mid \in Nat \ (0..5) /\ c.t0 \in Nat /\ c.trader # Client(c.sid)
  BY DEF IsContext
<1>3. rise \in 5..20
  <2>1. 6 \in 1..6
    OBVIOUS
  <2> QED
    BY <2>1, DrawnFrom
<1> HIDE DEF rise
<1>4. c.mid + rise \in (c.mid + 5)..(c.mid + 20)
  BY <1>2, <1>3
<1> QED
  BY <1>1, <1>2, <1>4 DEF rise

(* The rows are of the abuser's part of these events.                       *)
OfAbuser(rows, E, c) == \A r \in rows : r.event \in E /\ r.event.trader = c.trader

(* A layered book has one fill: no other detector alerts on any part of it. *)
LEMMA SpoofingAlone ==
    ASSUME NEW c, NEW E, SpoofingDeeds(E, c),
           NEW g, NEW rows, NEW key, NEW f, NEW l, Describes(g, rows, key, f, l),
           OfAbuser(rows, E, c), NEW d \in Detector, fires(d, g)
    PROVE  d \in {"SPOOFING", "MARKING_THE_CLOSE"}
<1>1. PICK o, x, s, fill :
        /\ E = {o[k] : k \in 1..4} \cup {s, fill} \cup {x[k] : k \in 1..4}
        /\ \A k \in 1..4 :
              /\ Deed(o[k], c, "spoof", k - 1, "NEW", "BUY", randint(c, k, 50, 55),
                      5 * (k - 1), c.mid - k)
              /\ Deed(x[k], c, "cancel", k - 1, "CANCEL", "BUY", 50,
                      40 + 2 * (k - 1), NoPrice)
        /\ Deed(s, c, "genuine-sell", 0, "NEW", "SELL", 2, 30, c.mid)
        /\ Deed(fill, c, "genuine-sell", 0, "EXEC", "SELL", 2, 35, c.mid)
  BY DEF SpoofingDeeds
<1>2. \A e \in E : e.msg = "EXEC" => e = fill
  BY <1>1 DEF Deed
<1>3. \A r \in rows : r.event.msg = "EXEC" => r.event = fill
  BY <1>2 DEF OfAbuser
<1>4. ~WashGate(g) /\ ~FrontGate(g) /\ ~MomentumGate(g)
  BY <1>3, OneFillIsQuiet
<1> QED
  BY <1>4, GatePassed DEF Describes, Detector

(* Buying and selling at one price gains nothing.                           *)
LEMMA FlatGain ==
    ASSUME NEW g, NEW rows, NEW key, NEW f, NEW l, Describes(g, rows, key, f, l),
           NEW p \in Nat \ {0},
           \A r \in rows : r.event.msg = "EXEC" => r.event.lastPx = p
    PROVE  g.roundTripGainBps = 0
<1> DEFINE execs == Kind(rows, "EXEC")
<1>1. /\ IsFiniteSet(execs) /\ AllMeasured(execs) /\ TwoSided(execs)
      /\ \A r \in execs : r.event.lastPx = p
  <2>1. IsFiniteSet(execs)
    BY FS_Subset DEF Describes, Kind
  <2> QED
    BY <2>1 DEF Describes, Kind, AllMeasured, Ordinary, TwoSided
<1>2. g.roundTripGainBps = RoundTripGain(execs)
  BY DescribedReads
<1> HIDE DEF execs
<1>3. PICK v \in Nat : RoundTripGain(execs) = IF v = 0 THEN 0 ELSE Bps((p - p) * v, p * v)
  <2>1. /\ p \in Nat
        /\ \A r \in execs : /\ r.event.side = "BUY" => r.event.lastPx = p
                            /\ r.event.side = "SELL" => r.event.lastPx = p
    BY <1>1
  <2>2. \E v \in Nat :
           /\ v = Volume(execs, "BUY") * Volume(execs, "SELL")
           /\ RoundTripGain(execs) = IF v = 0 THEN 0 ELSE Bps((p - p) * v, p * v)
    BY <1>1, <2>1, GainOf
  <2> QED
    BY <2>2
<1>4. CASE v = 0
  BY <1>2, <1>3, <1>4
<1>5. CASE v # 0
  <2>1. (p - p) * v = 0 /\ p * v \in Nat \ {0}
    BY <1>5, TimesPositive
  <2>2. Bps(0, p * v) = 0
    BY <2>1, BpsOfNothing
  <2> QED
    BY <1>2, <1>3, <1>5, <2>1, <2>2
<1> QED
  BY <1>4, <1>5

(* Buying and selling at one price gains nothing, and two fills are no      *)
(* burst.                                                                   *)
LEMMA WashAlone ==
    ASSUME NEW c, IsContext(c), NEW E, WashDeeds(E, c),
           NEW g, NEW rows, NEW key, NEW f, NEW l, Describes(g, rows, key, f, l),
           OfAbuser(rows, E, c), NEW d \in Detector, fires(d, g)
    PROVE  d \in {"WASH_TRADE", "MARKING_THE_CLOSE"}
<1>1. PICK b, s, fb, fs :
        /\ E = {b, s, fb, fs}
        /\ Deed(b, c, "wash-buy", 0, "NEW", "BUY", 10, 0, c.mid)
        /\ Deed(s, c, "wash-sell", 0, "NEW", "SELL", 10, 10, c.mid)
        /\ Deed(fb, c, "wash-buy", 0, "EXEC", "BUY", 10, 15, c.mid)
        /\ Deed(fs, c, "wash-sell", 0, "EXEC", "SELL", 10, 15, c.mid)
  BY DEF WashDeeds
<1>2. \A e \in E : /\ e.msg # "CANCEL"
                   /\ e.msg = "EXEC" => e \in {fb, fs} /\ e.lastPx = c.mid
  BY <1>1 DEF Deed
<1>3. \A r \in rows : /\ r.event.msg # "CANCEL"
                      /\ r.event.msg = "EXEC" => r.event \in {fb, fs} /\ r.event.lastPx = c.mid
  BY <1>2 DEF OfAbuser
<1>4. ~MomentumGate(g)
  BY <1>3, TwoFillsAreNoBurst
<1>5. 5 * g.cancelRatio <= Scale
  BY <1>3, NoCancelNoSpoofing
<1>6. ~FrontGate(g)
  <2>1. c.mid \in Nat \ {0}
    BY DEF IsContext
  <2>2. g.roundTripGainBps = 0
    BY <1>3, <2>1, FlatGain
  <2> QED
    BY <2>2, DetectorAssumption DEF FrontGate, DetectorAssumption
<1> QED
  BY <1>4, <1>5, <1>6, GatePassed DEF Describes, Detector

(* Buying and selling gains five cents or more on every lot.                *)
LEMMA FrontGain ==
    ASSUME NEW mid \in Nat \ {0}, FiveCentsShow(mid), NEW px \in (mid + 5)..(mid + 20),
           NEW v \in Nat \ {0}
    PROVE  Bps((px - mid) * v, mid * v) \in Int /\ Bps((px - mid) * v, mid * v) > Scale
<1> DEFINE a == (px - mid) * v
           b == mid * v
           m == Scale + 1
           d == px - mid
           s == 100 * (100 * Scale)
<1>1. Scale \in Nat \ {0} /\ m \in Int /\ s \in Nat
  BY DetectorAssumption DEF DetectorAssumption
<1>2. d \in Nat /\ 5 <= d
  OBVIOUS
<1>3. m * mid <= 5 * s
  BY DEF FiveCentsShow
<1>4. b \in Nat \ {0} /\ a = d * v /\ a \in Int
  BY <1>2, TimesPositive, ProductInt
<1>5. 100 * (100 * (Scale * a)) = s * a
  BY <1>1, <1>4
<1>6. m \in Nat
  BY <1>1
<1> HIDE DEF m, d, s
<1>7. m * b <= s * a
  <2> DEFINE y == m * mid
             z == 5 * s
             w == s * d
  <2>1. y \in Nat /\ z \in Nat /\ w \in Nat
    BY <1>1, <1>2, <1>6, TimesNat
  <2>2. z <= w
    <3>1. s * 5 <= s * d
      BY <1>1, <1>2, TimesMonotone
    <3> QED
      BY <1>1, <3>1
  <2>3. y <= z
    BY <1>3
  <2>4. m * b = v * y /\ s * a = v * w
    <3>1. m * (mid * v) = v * (m * mid)
      BY <1>6
    <3>2. s * (d * v) = v * (s * d)
      BY <1>1, <1>2
    <3> QED
      BY <1>4, <3>1, <3>2
  <2> HIDE DEF y, z, w
  <2>5. v * y <= v * w
    BY <2>1, <2>2, <2>3, TimesMonotone
  <2> QED
    BY <2>4, <2>5
<1> HIDE DEF a, b
<1>8. m * b <= 100 * (100 * (Scale * a))
  BY <1>5, <1>7
<1>9. Bps(a, b) \in Int /\ m <= Bps(a, b)
  <2>1. a \in Int /\ b \in Nat \ {0} /\ m \in Int
    BY <1>1, <1>4
  <2> QED
    BY <1>8, <2>1, BpsAtLeast
<1> QED
  BY <1>1, <1>9 DEF a, b, m

(* Fills of the buy and the sell of a front run gain more than a wash trade *)
(* may.                                                                     *)
LEMMA FrontRunGains ==
    ASSUME NEW mid \in Nat \ {0}, FiveCentsShow(mid), NEW px \in (mid + 5)..(mid + 20),
           NEW execs, IsFiniteSet(execs), AllMeasured(execs), TwoSided(execs),
           \A r \in execs : /\ r.event.side = "BUY" => r.event.lastPx = mid
                            /\ r.event.side = "SELL" => r.event.lastPx = px,
           NEW q \in execs, q.event.side = "BUY", q.event.lastQty # 0,
           NEW r \in execs, r.event.side = "SELL", r.event.lastQty # 0
    PROVE  RoundTripGain(execs) \in Int /\ RoundTripGain(execs) > Scale
<1>1. px \in Nat
  OBVIOUS
<1>2. PICK v \in Nat :
        /\ v = Volume(execs, "BUY") * Volume(execs, "SELL")
        /\ RoundTripGain(execs) = IF v = 0 THEN 0 ELSE Bps((px - mid) * v, mid * v)
  BY <1>1, GainOf
<1>3. Volume(execs, "BUY") \in Nat \ {0}
  BY VolumePositive
<1>4. Volume(execs, "SELL") \in Nat \ {0}
  BY VolumePositive
<1>5. v \in Nat \ {0}
  BY <1>2, <1>3, <1>4, TimesPositive
<1>6. Bps((px - mid) * v, mid * v) \in Int /\ Bps((px - mid) * v, mid * v) > Scale
  BY <1>5, FrontGain
<1> QED
  BY <1>2, <1>5, <1>6

(* A front run gains, and its two fills are no burst.                       *)
LEMMA FrontAlone ==
    ASSUME NEW c, IsContext(c), FiveCentsShow(c.mid), NEW E, FrontDeeds(E, c),
           NEW g, NEW rows, NEW key, NEW f, NEW l, Describes(g, rows, key, f, l),
           OfAbuser(rows, E, c), NEW d \in Detector, fires(d, g)
    PROVE  d \in {"FRONT_RUNNING", "MARKING_THE_CLOSE"}
<1> DEFINE px == c.mid + randint(c, 6, 5, 20)
           qty == randint(c, 1, 5, 7)
<1>1. PICK b, fb, s, fs, o, fo :
        /\ E = {b, fb, s, fs, o, fo}
        /\ o.trader = Client(c.sid) /\ fo.trader = Client(c.sid)
        /\ Deed(b, c, "abuser-buy", 0, "NEW", "BUY", qty, 5, c.mid)
        /\ Deed(fb, c, "abuser-buy", 0, "EXEC", "BUY", qty, 10, c.mid)
        /\ Deed(s, c, "abuser-sell", 0, "NEW", "SELL", qty, 30, px)
        /\ Deed(fs, c, "abuser-sell", 0, "EXEC", "SELL", qty, 35, px)
  BY DEF FrontDeeds
<1>2. qty \in 5..7 /\ px \in (c.mid + 5)..(c.mid + 20) /\ c.mid \in Nat \ {0}
      /\ c.trader # Client(c.sid)
  <2>1. 1 \in 1..6
    OBVIOUS
  <2> QED
    BY <2>1, Drawn
<1> HIDE DEF px, qty
<1>3. \A e \in E : e.trader = c.trader
        => /\ e.msg # "CANCEL"
           /\ e.msg = "EXEC" => /\ e \in {fb, fs}
                                /\ e.side = "BUY" => e.lastPx = c.mid
                                /\ e.side = "SELL" => e.lastPx = px
  BY <1>1, <1>2 DEF Deed
<1>4. \A r \in rows : /\ r.event.msg # "CANCEL"
                      /\ r.event.msg = "EXEC"
                           => /\ r.event \in {fb, fs}
                              /\ r.event.side = "BUY" => r.event.lastPx = c.mid
                              /\ r.event.side = "SELL" => r.event.lastPx = px
  BY <1>3 DEF OfAbuser
<1>5. ~MomentumGate(g)
  BY <1>4, TwoFillsAreNoBurst
<1>6. 5 * g.cancelRatio <= Scale
  BY <1>4, NoCancelNoSpoofing
<1>7. ASSUME WashGate(g) PROVE FALSE
  <2> DEFINE execs == Kind(rows, "EXEC")
  <2>1. /\ IsFiniteSet(execs) /\ AllMeasured(execs) /\ TwoSided(execs)
        /\ \A r \in execs : /\ r.event.side = "BUY" => r.event.lastPx = c.mid
                            /\ r.event.side = "SELL" => r.event.lastPx = px
    <3>1. IsFiniteSet(execs)
      BY FS_Subset DEF Describes, Kind
    <3> QED
      BY <1>4, <3>1 DEF Describes, Kind, AllMeasured, Ordinary, TwoSided
  <2>2. /\ \E r \in rows : r.event.msg = "EXEC" /\ r.event = fb
        /\ \E r \in rows : r.event.msg = "EXEC" /\ r.event = fs
    <3>1. \A r \in rows : r.event.msg = "EXEC" => r.event \in {fb, fs}
      BY <1>4
    <3> HIDE DEF execs
    <3> QED
      BY <1>7, <3>1, TwoFillsAreNoBurst
  <2>3. PICK q \in execs : q.event = fb
    BY <2>2 DEF Kind
  <2>4. PICK r \in execs : r.event = fs
    BY <2>2 DEF Kind
  <2>5. g.roundTripGainBps = RoundTripGain(execs)
    BY DescribedReads
  <2>6. /\ q.event.side = "BUY" /\ q.event.lastQty # 0
        /\ r.event.side = "SELL" /\ r.event.lastQty # 0
    BY <1>1, <1>2, <2>3, <2>4 DEF Deed
  <2> HIDE DEF execs
  <2>7. RoundTripGain(execs) \in Int /\ RoundTripGain(execs) > Scale
    BY <1>2, <2>1, <2>6, FrontRunGains
  <2> QED
    BY <1>7, <2>5, <2>7, DetectorAssumption DEF WashGate, abs, DetectorAssumption
<1> QED
  BY <1>5, <1>6, <1>7, GatePassed DEF Describes, Detector

(* The images of 1..n are finitely many, at most n.                         *)
LEMMA FewImages ==
    ASSUME NEW n \in Nat, NEW o
    PROVE  LET T == {o[k] : k \in 1..n}
           IN  IsFiniteSet(T) /\ Cardinality(T) \in Nat /\ Cardinality(T) <= n
<1> DEFINE T == {o[k] : k \in 1..n}
           h == [k \in 1..n |-> o[k]]
<1>1. h \in [1..n -> T] /\ \A y \in T : \E k \in 1..n : h[k] = y
  OBVIOUS
<1>2. IsFiniteSet(1..n) /\ Cardinality(1..n) = n
  BY FS_Interval
<1> HIDE DEF h, T
<1>3. h \in Surjection(1..n, T)
  BY <1>1 DEF Surjection
<1>4. IsFiniteSet(T) /\ Cardinality(T) <= n
  BY <1>2, <1>3, FS_Surjection
<1> QED
  BY <1>4, FS_CardinalityType DEF T

(* An exit larger than the burst is no round trip.                          *)
LEMMA MomentumAlone ==
    ASSUME NEW c, IsContext(c), NEW E, MomentumDeeds(E, c),
           NEW g, NEW rows, NEW key, NEW f, NEW l, Describes(g, rows, key, f, l),
           OfAbuser(rows, E, c), NEW d \in Detector, fires(d, g)
    PROVE  d \in {"MOMENTUM_IGNITION", "MARKING_THE_CLOSE"}
<1> DEFINE qty(k) == randint(c, k, 2, 3)
<1>1. PICK o, fill, s, x :
        /\ E = {o[k] : k \in 1..5} \cup {fill[k] : k \in 1..5} \cup {s, x}
        /\ \A k \in 1..5 :
              /\ Deed(o[k], c, "burst", k - 1, "NEW", "BUY", qty(k), 8 * (k - 1), c.mid + k)
              /\ Deed(fill[k], c, "burst", k - 1, "EXEC", "BUY", qty(k),
                      8 * (k - 1) + 2, c.mid + k)
        /\ Deed(s, c, "exit-sell", 0, "NEW", "SELL", 20, 55, c.mid + 5)
        /\ Deed(x, c, "exit-sell", 0, "EXEC", "SELL", 20, 58, c.mid + 5)
  BY DEF MomentumDeeds
<1>2. \A k \in 1..5 : qty(k) \in Nat /\ qty(k) <= 3
  <2>1. \A k \in 1..5 : k \in 1..6
    OBVIOUS
  <2> QED
    BY <2>1, Drawn
<1> HIDE DEF qty
<1> DEFINE O == {o[k] : k \in 1..5}
<1>3. \A e \in E : /\ e.msg # "CANCEL"
                   /\ e.msg = "NEW" /\ e.side = "BUY" => e \in O /\ e.qty <= 3
                   /\ e.msg = "NEW" /\ e.side = "SELL" => e.qty = 20
  <2>1. \A k \in 1..5 : /\ o[k].msg = "NEW" /\ o[k].side = "BUY" /\ o[k].qty <= 3
                        /\ fill[k].msg = "EXEC"
    BY <1>1, <1>2 DEF Deed
  <2>2. s.msg = "NEW" /\ s.side = "SELL" /\ s.qty = 20 /\ x.msg = "EXEC"
    BY <1>1 DEF Deed
  <2> QED
    BY <1>1, <2>1, <2>2
<1>4. IsFiniteSet(O) /\ Cardinality(O) \in Nat /\ Cardinality(O) <= 5
  BY FewImages
<1> HIDE DEF O
<1>5. \A r \in rows : /\ r.event.msg # "CANCEL"
                      /\ r.event.msg = "NEW" /\ r.event.side = "BUY"
                           => r.event \in O /\ r.event.qty <= 3
                      /\ r.event.msg = "NEW" /\ r.event.side = "SELL" => r.event.qty = 20
  BY <1>3 DEF OfAbuser
<1>6. 5 * g.cancelRatio <= Scale
  BY <1>5, NoCancelNoSpoofing
<1>7. /\ IsFiniteSet(rows) /\ AllMeasured(rows) /\ OneRowEach(rows) /\ TwoSided(rows)
      /\ g.buyQty = Ordered(rows, "BUY") /\ g.sellQty = Ordered(rows, "SELL")
      /\ g.buyQty \in Nat /\ g.sellQty \in Nat
  <2>1. IsFiniteSet(rows) /\ AllMeasured(rows) /\ OneRowEach(rows) /\ TwoSided(rows)
    BY DEF Describes, Ordinary
  <2>2. g.buyQty = Ordered(rows, "BUY") /\ g.sellQty = Ordered(rows, "SELL")
    BY DescribedReads DEF Reads
  <2>3. Ordered(rows, "BUY") \in Nat /\ Ordered(rows, "SELL") \in Nat
    BY <2>1, OrderedNat
  <2> QED
    BY <2>1, <2>2, <2>3
<1>8. g.buyQty <= 15
  <2>1. Ordered(rows, "BUY") <= 3 * Cardinality(O)
    BY <1>4, <1>5, <1>7, OrderedAtMost
  <2> QED
    BY <1>4, <1>7, <2>1
<1>9. CASE \E r \in rows : r.event.msg = "NEW" /\ r.event.side = "SELL"
  <2>1. PICK r \in rows : r.event.msg = "NEW" /\ r.event.side = "SELL"
    BY <1>9
  <2>2. 20 <= Ordered(rows, "SELL")
    BY <1>5, <1>7, <2>1, OrderedNat
  <2>3. 10 * (g.sellQty - g.buyQty) > g.sellQty + g.buyQty
    BY <1>7, <1>8, <2>2
  <2>4. ~WashGate(g) /\ ~FrontGate(g)
    BY <2>3, OneSidedIsQuiet
  <2> QED
    BY <1>6, <2>4, GatePassed DEF Describes, Detector
<1>10. CASE ~\E r \in rows : r.event.msg = "NEW" /\ r.event.side = "SELL"
  <2>1. ~WashGate(g) /\ ~FrontGate(g) /\ ~MomentumGate(g)
    BY <1>10, NoSaleIsQuiet
  <2> QED
    BY <1>6, <2>1, GatePassed DEF Describes, Detector
<1> QED
  BY <1>9, <1>10

(* Who marks the close does not sell, and has three orders at most.         *)
LEMMA MarkingAlone ==
    ASSUME NEW c, NEW E, MarkingDeeds(E, c),
           NEW g, NEW rows, NEW key, NEW f, NEW l, Describes(g, rows, key, f, l),
           OfAbuser(rows, E, c), NEW d \in Detector, fires(d, g)
    PROVE  d = "MARKING_THE_CLOSE"
<1> DEFINE qty(k) == randint(c, k, 5, 7)
<1>1. PICK o, fill, x :
        /\ E = {o[k] : k \in 1..3} \cup {fill} \cup {x[k] : k \in 1..2}
        /\ \A k \in 1..3 : Deed(o[k], c, "mtc", k - 1, "NEW", "BUY", qty(k),
                                1500 * (k - 1), c.mid + k)
        /\ Deed(fill, c, "mtc", 2, "EXEC", "BUY", qty(3), 3050, c.mid + 3)
        /\ \A k \in 1..2 : Deed(x[k], c, "mtc-cancel", k - 1, "CANCEL", "BUY",
                                qty(k), 3070 + 5 * (k - 1), NoPrice)
  BY DEF MarkingDeeds
<1> HIDE DEF qty
<1> DEFINE O == {o[k] : k \in 1..3}
<1>2. \A e \in E : /\ e.side # "SELL"
                   /\ e.msg = "NEW" => e \in O
  <2>1. /\ \A k \in 1..3 : o[k].msg = "NEW" /\ o[k].side = "BUY"
        /\ \A k \in 1..2 : x[k].msg = "CANCEL" /\ x[k].side = "BUY"
        /\ fill.msg = "EXEC" /\ fill.side = "BUY"
    BY <1>1 DEF Deed
  <2> QED
    BY <1>1, <2>1
<1>3. IsFiniteSet(O) /\ Cardinality(O) \in Nat /\ Cardinality(O) <= 3
  BY FewImages
<1> HIDE DEF O
<1>4. \A r \in rows : r.event.side # "SELL" /\ (r.event.msg = "NEW" => r.event \in O)
  BY <1>2 DEF OfAbuser
<1>5. ~WashGate(g) /\ ~FrontGate(g) /\ ~MomentumGate(g)
  BY <1>4, NoSaleIsQuiet
<1>6. g.nOrders < 4
  <2> DEFINE news == Kind(rows, "NEW")
  <2>1. IsFiniteSet(news) /\ OneRowEach(news) /\ \A r \in news : r.event \in O
    BY <1>4, FS_Subset DEF Describes, OneRowEach, Kind
  <2>2. g.nOrders = Cardinality(news)
    BY DescribedReads DEF Reads
  <2> HIDE DEF news
  <2>3. Cardinality(news) \in Nat /\ Cardinality(news) <= Cardinality(O)
    BY <1>3, <2>1, CountAtMost
  <2> QED
    BY <1>3, <2>2, <2>3
<1>7. ~(g.nOrders >= 4)
  BY <1>6 DEF Describes, IsGoldFeatures
<1> QED
  BY <1>5, <1>7, GatePassed DEF Describes, Detector

-----------------------------------------------------------------------------
(* What a scenario that is wholly there is alerted by *)

(* Every event of the abuser's among these has its row.                     *)
Covers(rows, E, c) == \A e \in E : e.trader = c.trader => \E r \in rows : r.event = e

(* The second rows have the events of the first, and perhaps more.          *)
Extends(rows, more) == \A r \in rows : \E q \in more : q.event = r.event

(* As many rows, at least.                                                  *)
LEMMA MoreRows ==
    ASSUME NEW R, IsFiniteSet(R), OneRowEach(R), NEW S, IsFiniteSet(S), Extends(R, S)
    PROVE  /\ Cardinality(R) \in Nat /\ Cardinality(S) \in Nat
           /\ Cardinality(R) <= Cardinality(S)
<1> DEFINE h == [r \in R |-> CHOOSE q \in S : q.event = r.event]
<1>1. \A r \in R : h[r] \in S /\ h[r].event = r.event
  BY DEF Extends
<1>2. h \in [R -> S]
  BY <1>1
<1> HIDE DEF h
<1>3. \A q, r \in R : h[q] = h[r] => q = r
  BY <1>1 DEF OneRowEach
<1>4. h \in Injection(R, S)
  BY <1>2, <1>3 DEF Injection, IsInjective
<1> QED
  BY <1>4, FS_Injection, FS_CardinalityType

(* So of each kind.                                                         *)
LEMMA MoreOfKind ==
    ASSUME NEW g, NEW rows, NEW key, NEW f, NEW l, Describes(g, rows, key, f, l),
           NEW h, NEW more, NEW k2, NEW f2, NEW l2, Describes(h, more, k2, f2, l2),
           Extends(rows, more)
    PROVE  /\ g.nOrders <= h.nOrders /\ g.nCancels <= h.nCancels /\ g.nExecs <= h.nExecs
           /\ {g.nOrders, g.nCancels, g.nExecs} \subseteq Nat
           /\ {h.nOrders, h.nCancels, h.nExecs} \subseteq Nat
<1>1. ASSUME NEW m
      PROVE  Cardinality(Kind(rows, m)) <= Cardinality(Kind(more, m))
  <2> DEFINE R == Kind(rows, m)
             S == Kind(more, m)
  <2>1. IsFiniteSet(R) /\ IsFiniteSet(S) /\ OneRowEach(R) /\ Extends(R, S)
    BY FS_Subset DEF Describes, OneRowEach, Extends, Kind
  <2> HIDE DEF R, S
  <2>2. Cardinality(R) <= Cardinality(S)
    BY <2>1, MoreRows
  <2> QED
    BY <2>2 DEF R, S
<1>2. /\ g.nOrders = Cardinality(Kind(rows, "NEW"))
      /\ g.nCancels = Cardinality(Kind(rows, "CANCEL"))
      /\ g.nExecs = Cardinality(Kind(rows, "EXEC"))
  BY DescribedReads DEF Reads
<1>3. /\ h.nOrders = Cardinality(Kind(more, "NEW"))
      /\ h.nCancels = Cardinality(Kind(more, "CANCEL"))
      /\ h.nExecs = Cardinality(Kind(more, "EXEC"))
  <2>1. Reads(h, more, f2, l2)
    BY DescribedReads
  <2> QED
    BY <2>1 DEF Reads
<1>4. /\ {g.nOrders, g.nCancels, g.nExecs} \subseteq Nat
      /\ {h.nOrders, h.nCancels, h.nExecs} \subseteq Nat
  BY DEF Describes, IsGoldFeatures
<1> QED
  BY <1>1, <1>2, <1>3, <1>4

(* At most m rows of a kind whose events are among m.                       *)
LEMMA KindAtMost ==
    ASSUME NEW rows, IsFiniteSet(rows), OneRowEach(rows), NEW m, NEW T, IsFiniteSet(T),
           \A r \in rows : r.event.msg = m => r.event \in T
    PROVE  /\ Cardinality(Kind(rows, m)) \in Nat
           /\ Cardinality(Kind(rows, m)) <= Cardinality(T)
<1> DEFINE R == Kind(rows, m)
<1>1. IsFiniteSet(R) /\ OneRowEach(R) /\ \A r \in R : r.event \in T
  BY FS_Subset DEF OneRowEach, Kind
<1> HIDE DEF R
<1>2. Cardinality(R) \in Nat /\ Cardinality(R) <= Cardinality(T)
  BY <1>1, CountAtMost
<1> QED
  BY <1>2 DEF R

(* At least n rows of a kind of which n events are there.                   *)
LEMMA KindAtLeast ==
    ASSUME NEW rows, IsFiniteSet(rows), NEW m, NEW n \in Nat, NEW e,
           \A k \in 1..n : e[k].msg = m /\ \E r \in rows : r.event = e[k],
           \A j, k \in 1..n : e[j] = e[k] => j = k
    PROVE  /\ Cardinality(Kind(rows, m)) \in Nat
           /\ n <= Cardinality(Kind(rows, m))
<1> DEFINE R == Kind(rows, m)
<1>1. IsFiniteSet(R) /\ \A k \in 1..n : \E r \in R : r.event = e[k]
  BY FS_Subset DEF Kind
<1> HIDE DEF R
<1>2. Cardinality(R) \in Nat /\ n <= Cardinality(R)
  BY <1>1, CountAtLeast
<1> QED
  BY <1>2 DEF R

(* How the ratios of a layered book come out.                               *)
LEMMA LayeringFires ==
    ASSUME NEW g, IsGoldFeatures(g), g.nOrders \in {4, 5}, g.nCancels \in 0..4,
           g.nExecs \in {0, 1},
           g.cancelRatio = (g.nCancels * Scale) \div most(g.nOrders, 1),
           g.orderToTradeRatio = (g.nOrders * Scale) \div most(g.nExecs, 1)
    PROVE  /\ fires("SPOOFING", g) <=> g.nCancels >= 3
           /\ g.nCancels = 4 => severity("SPOOFING", g) >= 4
<1> DEFINE n == g.nOrders
           c == g.nCancels
           m == Scale \div 20
           z == 70 * g.cancelRatio + 3 * g.orderToTradeRatio
<1>1. m \in Nat \ {0} /\ Scale = 20 * m
  BY DetectorAssumption, MedallionAssumption DEF DetectorAssumption, MedallionAssumption
<1> HIDE DEF m
<1>2. most(n, 1) = n /\ most(g.nExecs, 1) = 1
  BY DEF most
<1>3. g.orderToTradeRatio = n * Scale /\ g.cancelRatio = (c * Scale) \div n
  <2>1. n * Scale \in Int /\ (n * Scale) \div 1 = n * Scale
    BY <1>1
  <2> QED
    BY <1>2, <2>1
<1> HIDE DEF n, c
<1>4. n \in {4, 5} /\ c \in 0..4
  BY DEF n, c
<1>5. (c * Scale) \div n = IF n = 4 THEN 5 * (c * m) ELSE 4 * (c * m)
  <2>1. c = 0 \/ c = 1 \/ c = 2 \/ c = 3 \/ c = 4
    BY <1>4
  <2> QED
    BY <1>1, <1>4, <2>1
<1>6. z = IF n = 4 THEN 350 * (c * m) + 240 * m ELSE 280 * (c * m) + 300 * m
  <2> DEFINE p == c * m
  <2>1. p \in Int /\ g.cancelRatio = IF n = 4 THEN 5 * p ELSE 4 * p
    BY <1>1, <1>3, <1>4, <1>5
  <2>2. g.orderToTradeRatio = IF n = 4 THEN 80 * m ELSE 100 * m
    BY <1>1, <1>3, <1>4
  <2>3. z = 70 * g.cancelRatio + 3 * g.orderToTradeRatio
    OBVIOUS
  <2> HIDE DEF p, z
  <2>4. z = IF n = 4 THEN 350 * p + 240 * m ELSE 280 * p + 300 * m
    BY <1>1, <1>4, <2>1, <2>2, <2>3
  <2> QED
    BY <2>4 DEF p
<1>7. /\ z >= 50 * Scale <=> c >= 3
      /\ c = 4 => z > 60 * Scale
  <2>1. c = 0 \/ c = 1 \/ c = 2 \/ c = 3 \/ c = 4
    BY <1>4
  <2> HIDE DEF z
  <2> QED
    BY <1>1, <1>4, <1>6, <2>1
<1>8. g.orderToTradeRatio <= 10 * Scale /\ g.nOrders >= 4
  BY <1>1, <1>3, <1>4
<1> HIDE DEF z
<1>9. /\ fires("SPOOFING", g) <=> z >= 50 * Scale
      /\ z > 60 * Scale => severity("SPOOFING", g) >= 4
  BY <1>8, SpoofingWeighs DEF z
<1> QED
  BY <1>7, <1>9 DEF c

(* The orders, cancels and fills of any part of a layered book.             *)
LEMMA SpoofingCounts ==
    ASSUME NEW c, NEW E, SpoofingDeeds(E, c),
           NEW g, NEW rows, NEW key, NEW f, NEW l, Describes(g, rows, key, f, l),
           OfAbuser(rows, E, c)
    PROVE  /\ g.nOrders \in 0..5 /\ g.nCancels \in 0..4 /\ g.nExecs \in {0, 1}
           /\ g.cancelRatio = (g.nCancels * Scale) \div most(g.nOrders, 1)
           /\ g.orderToTradeRatio = (g.nOrders * Scale) \div most(g.nExecs, 1)
           /\ Covers(rows, E, c) => g.nOrders >= 4 /\ g.nCancels >= 4
<1>1. PICK o, x, s, fill :
        /\ E = {o[k] : k \in 1..4} \cup {s, fill} \cup {x[k] : k \in 1..4}
        /\ \A k \in 1..4 :
              /\ Deed(o[k], c, "spoof", k - 1, "NEW", "BUY", randint(c, k, 50, 55),
                      5 * (k - 1), c.mid - k)
              /\ Deed(x[k], c, "cancel", k - 1, "CANCEL", "BUY", 50,
                      40 + 2 * (k - 1), NoPrice)
        /\ Deed(s, c, "genuine-sell", 0, "NEW", "SELL", 2, 30, c.mid)
        /\ Deed(fill, c, "genuine-sell", 0, "EXEC", "SELL", 2, 35, c.mid)
  BY DEF SpoofingDeeds
<1> DEFINE O == {o[k] : k \in 1..4}
           X == {x[k] : k \in 1..4}
<1>2. \A e \in E : /\ e.msg = "NEW" => e \in O \cup {s}
                   /\ e.msg = "CANCEL" => e \in X
                   /\ e.msg = "EXEC" => e \in {fill}
  BY <1>1 DEF Deed
<1>3. \A k \in 1..4 : /\ o[k] \in E /\ o[k].msg = "NEW" /\ o[k].id[4] = k - 1
                      /\ x[k] \in E /\ x[k].msg = "CANCEL" /\ x[k].id[4] = k - 1
                      /\ o[k].trader = c.trader /\ x[k].trader = c.trader
  BY <1>1 DEF Deed
<1>4. /\ IsFiniteSet(O) /\ Cardinality(O) \in Nat /\ Cardinality(O) <= 4
      /\ IsFiniteSet(X) /\ Cardinality(X) \in Nat /\ Cardinality(X) <= 4
  BY FewImages
<1> HIDE DEF O, X
<1>5. /\ IsFiniteSet(O \cup {s}) /\ Cardinality(O \cup {s}) \in Nat
      /\ Cardinality(O \cup {s}) <= 5
  <2>1. /\ IsFiniteSet(O \cup {s})
        /\ Cardinality(O \cup {s}) = IF s \in O THEN Cardinality(O) ELSE Cardinality(O) + 1
    BY <1>4, FS_AddElement
  <2> QED
    BY <1>4, <2>1
<1>6. IsFiniteSet({fill}) /\ Cardinality({fill}) = 1
  BY FewElements
<1>7. /\ IsFiniteSet(rows) /\ OneRowEach(rows)
      /\ \A r \in rows : /\ r.event.msg = "NEW" => r.event \in O \cup {s}
                         /\ r.event.msg = "CANCEL" => r.event \in X
                         /\ r.event.msg = "EXEC" => r.event \in {fill}
  BY <1>2 DEF Describes, OfAbuser
<1> DEFINE nn == Cardinality(Kind(rows, "NEW"))
           nc == Cardinality(Kind(rows, "CANCEL"))
           nx == Cardinality(Kind(rows, "EXEC"))
<1>8. /\ g.nOrders = nn /\ g.nCancels = nc /\ g.nExecs = nx
      /\ g.cancelRatio = (g.nCancels * Scale) \div most(g.nOrders, 1)
      /\ g.orderToTradeRatio = (g.nOrders * Scale) \div most(g.nExecs, 1)
  BY DescribedReads DEF Reads
<1>9. nn \in Nat /\ nn <= Cardinality(O \cup {s})
  BY <1>5, <1>7, KindAtMost
<1>10. nc \in Nat /\ nc <= Cardinality(X)
  BY <1>4, <1>7, KindAtMost
<1>11. nx \in Nat /\ nx <= Cardinality({fill})
  BY <1>6, <1>7, KindAtMost
<1>12. ASSUME Covers(rows, E, c) PROVE 4 <= nn /\ 4 <= nc
  <2>1. \A k \in 1..4 : o[k].msg = "NEW" /\ \E r \in rows : r.event = o[k]
    BY <1>3, <1>12 DEF Covers
  <2>2. \A k \in 1..4 : x[k].msg = "CANCEL" /\ \E r \in rows : r.event = x[k]
    BY <1>3, <1>12 DEF Covers
  <2>3. \A j, k \in 1..4 : o[j] = o[k] => j = k
    BY <1>3
  <2>4. \A j, k \in 1..4 : x[j] = x[k] => j = k
    BY <1>3
  <2>5. 4 \in Nat /\ IsFiniteSet(rows)
    BY <1>7
  <2>6. 4 <= nn
    BY <2>1, <2>3, <2>5, KindAtLeast
  <2>7. 4 <= nc
    BY <2>2, <2>4, <2>5, KindAtLeast
  <2> QED
    BY <2>6, <2>7
<1> HIDE DEF nn, nc, nx
<1> QED
  BY <1>4, <1>5, <1>6, <1>8, <1>9, <1>10, <1>11, <1>12

(* A whole layered book is alerted as spoofing.                             *)
LEMMA SpoofingWhole ==
    ASSUME NEW c, NEW E, SpoofingDeeds(E, c),
           NEW g, NEW rows, NEW key, NEW f, NEW l, Describes(g, rows, key, f, l),
           OfAbuser(rows, E, c), Covers(rows, E, c)
    PROVE  fires("SPOOFING", g) /\ severity("SPOOFING", g) >= 4
<1>1. /\ g.nOrders \in {4, 5} /\ g.nCancels \in 0..4 /\ g.nCancels = 4 /\ g.nExecs \in {0, 1}
      /\ g.cancelRatio = (g.nCancels * Scale) \div most(g.nOrders, 1)
      /\ g.orderToTradeRatio = (g.nOrders * Scale) \div most(g.nExecs, 1)
      /\ IsGoldFeatures(g)
  <2>1. IsGoldFeatures(g)
    BY DEF Describes
  <2> QED
    BY <2>1, SpoofingCounts
<1>2. /\ fires("SPOOFING", g) <=> g.nCancels >= 3
      /\ g.nCancels = 4 => severity("SPOOFING", g) >= 4
  BY <1>1, LayeringFires
<1> QED
  BY <1>1, <1>2

(* A layered book alerted on a part stays so when more of it arrives.       *)
LEMMA SpoofingStands ==
    ASSUME NEW c, NEW E, SpoofingDeeds(E, c),
           NEW g, NEW rows, NEW key, NEW f, NEW l, Describes(g, rows, key, f, l),
           OfAbuser(rows, E, c), fires("SPOOFING", g),
           NEW h, NEW more, NEW k2, NEW f2, NEW l2, Describes(h, more, k2, f2, l2),
           OfAbuser(more, E, c), Extends(rows, more)
    PROVE  fires("SPOOFING", h)
<1>1. IsGoldFeatures(g) /\ IsGoldFeatures(h)
  BY DEF Describes
<1>2. /\ g.nOrders \in 0..5 /\ g.nCancels \in 0..4 /\ g.nExecs \in {0, 1}
      /\ g.cancelRatio = (g.nCancels * Scale) \div most(g.nOrders, 1)
      /\ g.orderToTradeRatio = (g.nOrders * Scale) \div most(g.nExecs, 1)
  BY SpoofingCounts
<1>3. /\ h.nOrders \in 0..5 /\ h.nCancels \in 0..4 /\ h.nExecs \in {0, 1}
      /\ h.cancelRatio = (h.nCancels * Scale) \div most(h.nOrders, 1)
      /\ h.orderToTradeRatio = (h.nOrders * Scale) \div most(h.nExecs, 1)
  BY SpoofingCounts
<1>4. g.nOrders >= 4
  BY <1>1, GatePassed DEF Detector
<1>5. g.nOrders <= h.nOrders /\ g.nCancels <= h.nCancels
  BY MoreOfKind
<1>6. g.nOrders \in {4, 5} /\ h.nOrders \in {4, 5}
  BY <1>2, <1>3, <1>4, <1>5
<1>7. g.nCancels >= 3
  BY <1>1, <1>2, <1>6, LayeringFires
<1>8. h.nCancels >= 3
  BY <1>2, <1>3, <1>5, <1>7
<1> QED
  BY <1>1, <1>3, <1>6, <1>8, LayeringFires

-----------------------------------------------------------------------------
(* Round trips *)

(* The rows have exactly these orders of the two sides, and both fills.     *)
RoundTrip(rows, b, s, fb, fs) ==
    /\ b.qty \in Nat \ {0} /\ s.qty = b.qty
    /\ \A r \in rows : r.event.msg = "NEW" /\ r.event.side = "BUY" <=> r.event = b
    /\ \A r \in rows : r.event.msg = "NEW" /\ r.event.side = "SELL" <=> r.event = s
    /\ \E r \in rows : r.event = b
    /\ \E r \in rows : r.event = s
    /\ fb.msg = "EXEC" /\ fs.msg = "EXEC" /\ fb # fs
    /\ \E r \in rows : r.event = fb
    /\ \E r \in rows : r.event = fs

(* It is balanced and filled.                                               *)
LEMMA RoundTripReads ==
    ASSUME NEW g, NEW rows, NEW key, NEW f, NEW l, Describes(g, rows, key, f, l),
           NEW b, NEW s, NEW fb, NEW fs, RoundTrip(rows, b, s, fb, fs)
    PROVE  g.buyQty > 0 /\ g.sellQty > 0 /\ g.nExecs >= 2 /\ g.qtyImbalance = 0
<1>1. IsFiniteSet(rows) /\ OneRowEach(rows) /\ TwoSided(rows)
  BY DEF Describes, Ordinary
<1>2. Ordered(rows, "BUY") = b.qty
  BY <1>1, OrderedOne DEF RoundTrip
<1>3. Ordered(rows, "SELL") = s.qty
  BY <1>1, OrderedOne DEF RoundTrip
<1>4. /\ g.buyQty = Ordered(rows, "BUY") /\ g.sellQty = Ordered(rows, "SELL")
      /\ g.nExecs = Cardinality(Kind(rows, "EXEC"))
      /\ g.qtyImbalance = ((g.buyQty - g.sellQty) * Scale)
                             \div most(g.buyQty + g.sellQty, 1)
  BY DescribedReads DEF Reads
<1>5. g.buyQty \in Nat \ {0} /\ g.sellQty = g.buyQty
  BY <1>2, <1>3, <1>4 DEF RoundTrip
<1>6. g.qtyImbalance = 0
  <2> DEFINE n == g.buyQty
  <2>1. g.buyQty - g.sellQty = 0 /\ g.buyQty + g.sellQty = 2 * n /\ n \in Nat \ {0}
    BY <1>5
  <2>2. 0 * Scale = 0
    BY DetectorAssumption DEF DetectorAssumption
  <2> HIDE DEF n
  <2>3. most(2 * n, 1) = 2 * n /\ 0 \div (2 * n) = 0
    BY <2>1 DEF most
  <2> QED
    BY <1>4, <2>1, <2>2, <2>3
<1>7. 2 <= g.nExecs
  <2> DEFINE e == [k \in 1..2 |-> IF k = 1 THEN fb ELSE fs]
  <2>1. /\ \A k \in 1..2 : e[k].msg = "EXEC" /\ \E r \in rows : r.event = e[k]
        /\ \A j, k \in 1..2 : e[j] = e[k] => j = k
    <3>1. \A k \in 1..2 : k = 1 \/ k = 2
      OBVIOUS
    <3>2. e[1] = fb /\ e[2] = fs
      OBVIOUS
    <3> HIDE DEF e
    <3> QED
      BY <3>1, <3>2 DEF RoundTrip
  <2>2. 2 \in Nat
    OBVIOUS
  <2> HIDE DEF e
  <2>3. 2 <= Cardinality(Kind(rows, "EXEC"))
    BY <1>1, <2>1, <2>2, KindAtLeast
  <2> QED
    BY <1>4, <2>3
<1> QED
  BY <1>4, <1>5, <1>6, <1>7

(* Who alerts on a round trip has orders on both sides.                     *)
LEMMA BothSides ==
    ASSUME NEW g, NEW rows, NEW key, NEW f, NEW l, Describes(g, rows, key, f, l),
           NEW side \in {"BUY", "SELL"}, WashGate(g) \/ FrontGate(g)
    PROVE  \E r \in rows : r.event.msg = "NEW" /\ r.event.side = side
<1> SUFFICES ASSUME \A r \in rows : r.event.msg = "NEW" => r.event.side # side
             PROVE  FALSE
  OBVIOUS
<1>1. Ordered(rows, side) = 0
  BY OrderedNone DEF Describes, Ordinary
<1>2. g.buyQty = Ordered(rows, "BUY") /\ g.sellQty = Ordered(rows, "SELL")
  BY DescribedReads DEF Reads
<1> QED
  BY <1>1, <1>2 DEF WashGate, FrontGate

(* The parts of a wash trade.                                               *)
WashOf(E, c, b, s, fb, fs) ==
    /\ E = {b, s, fb, fs}
    /\ Deed(b, c, "wash-buy", 0, "NEW", "BUY", 10, 0, c.mid)
    /\ Deed(s, c, "wash-sell", 0, "NEW", "SELL", 10, 10, c.mid)
    /\ Deed(fb, c, "wash-buy", 0, "EXEC", "BUY", 10, 15, c.mid)
    /\ Deed(fs, c, "wash-sell", 0, "EXEC", "SELL", 10, 15, c.mid)

(* A whole wash trade is alerted as one.                                    *)
LEMMA WashWhole ==
    ASSUME NEW c, IsContext(c), NEW E, WashDeeds(E, c),
           NEW g, NEW rows, NEW key, NEW f, NEW l, Describes(g, rows, key, f, l),
           OfAbuser(rows, E, c), Covers(rows, E, c)
    PROVE  fires("WASH_TRADE", g) /\ severity("WASH_TRADE", g) >= 4
<1>1. PICK b, s, fb, fs : WashOf(E, c, b, s, fb, fs)
  BY DEF WashDeeds, WashOf
<1>2. /\ b.qty = 10 /\ s.qty = 10 /\ fb # fs
      /\ b.msg = "NEW" /\ b.side = "BUY" /\ s.msg = "NEW" /\ s.side = "SELL"
      /\ fb.msg = "EXEC" /\ fs.msg = "EXEC" /\ fb.lastPx = c.mid /\ fs.lastPx = c.mid
      /\ \A e \in {b, s, fb, fs} : e \in E /\ e.trader = c.trader
  BY <1>1 DEF WashOf, Deed
<1>3. RoundTrip(rows, b, s, fb, fs)
  <2>1. /\ \A r \in rows : r.event \in {b, s, fb, fs}
        /\ \A e \in {b, s, fb, fs} : \E r \in rows : r.event = e
    BY <1>1, <1>2 DEF OfAbuser, Covers, WashOf
  <2>2. 10 \in Nat \ {0}
    OBVIOUS
  <2> QED
    BY <1>2, <2>1, <2>2 DEF RoundTrip
<1>4. g.buyQty > 0 /\ g.sellQty > 0 /\ g.nExecs >= 2 /\ g.qtyImbalance = 0
  BY <1>3, RoundTripReads
<1>5. g.roundTripGainBps = 0
  <2>1. c.mid \in Nat \ {0}
    BY DEF IsContext
  <2>2. \A r \in rows : r.event.msg = "EXEC" => r.event.lastPx = c.mid
    BY <1>1, <1>2 DEF OfAbuser, WashOf
  <2> QED
    BY <2>1, <2>2, FlatGain
<1>6. IsGoldFeatures(g) /\ Scale \in Nat
  BY DetectorAssumption DEF Describes, DetectorAssumption
<1>7. WashGate(g)
  BY <1>4, <1>5, <1>6 DEF WashGate, abs
<1>8. fires("WASH_TRADE", g)
  BY <1>4, <1>6, <1>7, BalancedWash
<1> QED
  BY <1>6, <1>8, RoundTripsSevere DEF RoundTripsReportable

(* A wash trade is alerted only when it is wholly there.                    *)
LEMMA WashCovers ==
    ASSUME NEW c, NEW E, WashDeeds(E, c),
           NEW g, NEW rows, NEW key, NEW f, NEW l, Describes(g, rows, key, f, l),
           OfAbuser(rows, E, c), fires("WASH_TRADE", g)
    PROVE  Covers(rows, E, c)
<1>1. PICK b, s, fb, fs : WashOf(E, c, b, s, fb, fs)
  BY DEF WashDeeds, WashOf
<1>2. /\ b.msg = "NEW" /\ b.side = "BUY" /\ s.msg = "NEW" /\ s.side = "SELL"
      /\ fb.msg = "EXEC" /\ fs.msg = "EXEC" /\ E = {b, s, fb, fs}
  BY <1>1 DEF WashOf, Deed
<1>3. WashGate(g)
  BY GatePassed DEF Describes, Detector
<1>4. (\E r \in rows : r.event = fb) /\ (\E r \in rows : r.event = fs)
  <2>1. FillsAmong(rows, fb, fs)
    BY <1>2 DEF OfAbuser, FillsAmong
  <2>2. BothFilled(rows, fb, fs)
    BY <1>3, <2>1, TripHasBoth
  <2> QED
    BY <2>2 DEF BothFilled
<1>5. PICK q \in rows : q.event.msg = "NEW" /\ q.event.side = "BUY"
  BY <1>3, BothSides
<1>6. PICK r \in rows : r.event.msg = "NEW" /\ r.event.side = "SELL"
  BY <1>3, BothSides
<1>7. q.event = b /\ r.event = s
  BY <1>2, <1>5, <1>6 DEF OfAbuser
<1> QED
  BY <1>2, <1>4, <1>7 DEF Covers

(* The parts of a front run.                                                *)
FrontOf(E, c, b, fb, s, fs, o, fo) ==
    /\ E = {b, fb, s, fs, o, fo}
    /\ o.trader = Client(c.sid) /\ fo.trader = Client(c.sid)
    /\ Deed(b, c, "abuser-buy", 0, "NEW", "BUY", randint(c, 1, 5, 7), 5, c.mid)
    /\ Deed(fb, c, "abuser-buy", 0, "EXEC", "BUY", randint(c, 1, 5, 7), 10, c.mid)
    /\ Deed(s, c, "abuser-sell", 0, "NEW", "SELL", randint(c, 1, 5, 7), 30,
            c.mid + randint(c, 6, 5, 20))
    /\ Deed(fs, c, "abuser-sell", 0, "EXEC", "SELL", randint(c, 1, 5, 7), 35,
            c.mid + randint(c, 6, 5, 20))

(* What the abuser's own events are in a front run.                         *)
LEMMA FrontParts ==
    ASSUME NEW c, IsContext(c), NEW E, NEW b, NEW fb, NEW s, NEW fs, NEW o, NEW fo,
           FrontOf(E, c, b, fb, s, fs, o, fo)
    PROVE  /\ \A e \in E : e.trader = c.trader => e \in {b, fb, s, fs}
           /\ \A e \in {b, fb, s, fs} : e \in E /\ e.trader = c.trader
           /\ b.msg = "NEW" /\ b.side = "BUY" /\ s.msg = "NEW" /\ s.side = "SELL"
           /\ fb.msg = "EXEC" /\ fs.msg = "EXEC" /\ fb.side = "BUY" /\ fs.side = "SELL"
           /\ b.qty \in 5..7 /\ s.qty = b.qty /\ fb.lastQty = b.qty /\ fs.lastQty = b.qty
           /\ fb.lastPx = c.mid /\ fs.lastPx = c.mid + randint(c, 6, 5, 20)
           /\ c.mid + randint(c, 6, 5, 20) \in (c.mid + 5)..(c.mid + 20)
           /\ c.mid \in Nat \ {0}
<1> DEFINE px == c.mid + randint(c, 6, 5, 20)
           qty == randint(c, 1, 5, 7)
<1>1. qty \in 5..7 /\ px \in (c.mid + 5)..(c.mid + 20) /\ c.mid \in Nat \ {0}
      /\ c.trader # Client(c.sid)
  <2>1. 1 \in 1..6
    OBVIOUS
  <2> QED
    BY <2>1, Drawn
<1>2. /\ E = {b, fb, s, fs, o, fo}
      /\ o.trader = Client(c.sid) /\ fo.trader = Client(c.sid)
      /\ Deed(b, c, "abuser-buy", 0, "NEW", "BUY", qty, 5, c.mid)
      /\ Deed(fb, c, "abuser-buy", 0, "EXEC", "BUY", qty, 10, c.mid)
      /\ Deed(s, c, "abuser-sell", 0, "NEW", "SELL", qty, 30, px)
      /\ Deed(fs, c, "abuser-sell", 0, "EXEC", "SELL", qty, 35, px)
  BY DEF FrontOf
<1> HIDE DEF px, qty
<1> QED
  BY <1>1, <1>2 DEF Deed, px

(* A whole front run is alerted as one.                                     *)
LEMMA FrontWhole ==
    ASSUME NEW c, IsContext(c), FiveCentsShow(c.mid), NEW E, FrontDeeds(E, c),
           NEW g, NEW rows, NEW key, NEW f, NEW l, Describes(g, rows, key, f, l),
           OfAbuser(rows, E, c), Covers(rows, E, c)
    PROVE  fires("FRONT_RUNNING", g) /\ severity("FRONT_RUNNING", g) >= 4
<1> DEFINE px == c.mid + randint(c, 6, 5, 20)
           mid == c.mid
           execs == Kind(rows, "EXEC")
<1>1. PICK b, fb, s, fs, o, fo : FrontOf(E, c, b, fb, s, fs, o, fo)
  BY DEF FrontDeeds, FrontOf
<1>2. /\ \A e \in E : e.trader = c.trader => e \in {b, fb, s, fs}
      /\ \A e \in {b, fb, s, fs} : e \in E /\ e.trader = c.trader
      /\ b.msg = "NEW" /\ b.side = "BUY" /\ s.msg = "NEW" /\ s.side = "SELL"
      /\ fb.msg = "EXEC" /\ fs.msg = "EXEC" /\ fb.side = "BUY" /\ fs.side = "SELL"
      /\ b.qty \in 5..7 /\ s.qty = b.qty /\ fb.lastQty = b.qty /\ fs.lastQty = b.qty
      /\ fb.lastPx = mid /\ fs.lastPx = px
      /\ px \in (mid + 5)..(mid + 20) /\ mid \in Nat \ {0}
  BY <1>1, FrontParts
<1>3. /\ \A r \in rows : r.event \in {b, fb, s, fs}
      /\ \A e \in {b, fb, s, fs} : \E r \in rows : r.event = e
  BY <1>2 DEF OfAbuser, Covers
<1>4. RoundTrip(rows, b, s, fb, fs)
  <2>1. b.qty \in Nat \ {0} /\ fb # fs
    BY <1>2
  <2> QED
    BY <1>2, <1>3, <2>1 DEF RoundTrip
<1>5. g.buyQty > 0 /\ g.sellQty > 0 /\ g.nExecs >= 2 /\ g.qtyImbalance = 0
  BY <1>4, RoundTripReads
<1>6. g.roundTripGainBps = RoundTripGain(execs)
  BY DescribedReads
<1>7. /\ IsFiniteSet(execs) /\ AllMeasured(execs) /\ TwoSided(execs)
      /\ \A r \in execs : r \in rows
      /\ \A r \in rows : r.event.msg = "EXEC" => r \in execs
      /\ \A r \in execs : r.event.msg = "EXEC"
  <2>1. IsFiniteSet(execs)
    BY FS_Subset DEF Describes, Kind
  <2> QED
    BY <2>1 DEF Describes, Kind, AllMeasured, Ordinary, TwoSided
<1> HIDE DEF px, execs, mid
<1>8. \A r \in execs : /\ r.event.side = "BUY" => r.event.lastPx = mid
                       /\ r.event.side = "SELL" => r.event.lastPx = px
  BY <1>2, <1>3, <1>7
<1>9. PICK q \in execs : q.event = fb
  BY <1>2, <1>3, <1>7
<1>10. PICK r \in execs : r.event = fs
  BY <1>2, <1>3, <1>7
<1>11. /\ q.event.side = "BUY" /\ q.event.lastQty # 0
       /\ r.event.side = "SELL" /\ r.event.lastQty # 0
  BY <1>2, <1>9, <1>10
<1>12. RoundTripGain(execs) \in Int /\ RoundTripGain(execs) > Scale
  <2>1. FiveCentsShow(mid)
    BY DEF mid
  <2>2. mid \in Nat \ {0} /\ px \in (mid + 5)..(mid + 20)
    BY <1>2
  <2> QED
    BY <1>7, <1>8, <1>11, <2>1, <2>2, FrontRunGains
<1>13. IsGoldFeatures(g) /\ Scale \in Nat
  BY DetectorAssumption DEF Describes, DetectorAssumption
<1>14. FrontGate(g)
  BY <1>5, <1>6, <1>12, <1>13 DEF FrontGate, abs
<1>15. fires("FRONT_RUNNING", g)
  BY <1>13, <1>14, GateIsFront
<1> QED
  BY <1>13, <1>15, RoundTripsSevere DEF RoundTripsReportable

(* A front run is alerted only when it is wholly there.                     *)
LEMMA FrontCovers ==
    ASSUME NEW c, IsContext(c), NEW E, FrontDeeds(E, c),
           NEW g, NEW rows, NEW key, NEW f, NEW l, Describes(g, rows, key, f, l),
           OfAbuser(rows, E, c), fires("FRONT_RUNNING", g)
    PROVE  Covers(rows, E, c)
<1>1. PICK b, fb, s, fs, o, fo : FrontOf(E, c, b, fb, s, fs, o, fo)
  BY DEF FrontDeeds, FrontOf
<1>2. /\ \A e \in E : e.trader = c.trader => e \in {b, fb, s, fs}
      /\ b.msg = "NEW" /\ b.side = "BUY" /\ s.msg = "NEW" /\ s.side = "SELL"
      /\ fb.msg = "EXEC" /\ fs.msg = "EXEC"
  BY <1>1, FrontParts
<1>3. FrontGate(g)
  BY GatePassed DEF Describes, Detector
<1>4. (\E r \in rows : r.event = fb) /\ (\E r \in rows : r.event = fs)
  <2>1. FillsAmong(rows, fb, fs)
    BY <1>2 DEF OfAbuser, FillsAmong
  <2>2. BothFilled(rows, fb, fs)
    BY <1>3, <2>1, TripHasBoth
  <2> QED
    BY <2>2 DEF BothFilled
<1>5. PICK q \in rows : q.event.msg = "NEW" /\ q.event.side = "BUY"
  BY <1>3, BothSides
<1>6. PICK r \in rows : r.event.msg = "NEW" /\ r.event.side = "SELL"
  BY <1>3, BothSides
<1>7. q.event = b /\ r.event = s
  BY <1>2, <1>5, <1>6 DEF OfAbuser
<1> QED
  BY <1>2, <1>4, <1>7 DEF Covers

-----------------------------------------------------------------------------
(* Rising prices *)

(* No later price is lower.                                                 *)
Rising(rows) ==
    \A q, r \in Priced(rows) : q.event.t <= r.event.t => q.event.price <= r.event.price

(* Every order is of something.                                             *)
Sized(rows) == \A r \in rows : r.event.qty # 0

(* The price ends over its start and no price is over its end.              *)
EndsHigh(rows, f, l) ==
    Priced(rows) # {} /\ f < l /\ \A r \in Priced(rows) : r.event.price <= l

(* Rising prices lie between the first and the last.                        *)
LEMMA RisingEdges ==
    ASSUME NEW g, NEW rows, NEW key, NEW f, NEW l, Describes(g, rows, key, f, l),
           Rising(rows), NEW r \in Priced(rows)
    PROVE  f <= r.event.price /\ r.event.price <= l
<1>1. Edges(Priced(rows), f, l)
  BY DescribedEdges
<1>2. PICK p, q \in Priced(rows) :
        /\ p.event.price = f /\ q.event.price = l
        /\ p.event.t <= r.event.t /\ r.event.t <= q.event.t
  BY <1>1 DEF Edges
<1> QED
  BY <1>2 DEF Rising

(* A price that rose goes on rising when more of it arrives.                *)
LEMMA RisingStands ==
    ASSUME NEW g, NEW rows, NEW key, NEW f, NEW l, Describes(g, rows, key, f, l),
           NEW h, NEW more, NEW k2, NEW f2, NEW l2, Describes(h, more, k2, f2, l2),
           Extends(rows, more), Rising(more),
           Priced(rows) # {}, f \in Nat, l \in Nat, f < l, f2 \in Nat, l2 \in Nat
    PROVE  EndsHigh(more, f2, l2)
<1>1. Edges(Priced(rows), f, l)
  BY DescribedEdges
<1>2. PICK p, q \in Priced(rows) : p.event.price = f /\ q.event.price = l
  BY <1>1 DEF Edges
<1>3. PICK p2 \in Priced(more) : p2.event.price = f
  BY <1>2 DEF Extends, Priced
<1>4. PICK q2 \in Priced(more) : q2.event.price = l
  BY <1>2 DEF Extends, Priced
<1>5. \A r \in Priced(more) : f2 <= r.event.price /\ r.event.price <= l2
  BY RisingEdges
<1> QED
  BY <1>3, <1>4, <1>5 DEF EndsHigh

(* An order on a side is there still, and is of something.                  *)
LEMMA SideStands ==
    ASSUME NEW g, NEW rows, NEW key, NEW f, NEW l, Describes(g, rows, key, f, l),
           NEW h, NEW more, NEW k2, NEW f2, NEW l2, Describes(h, more, k2, f2, l2),
           Extends(rows, more), Sized(more)
    PROVE  /\ g.buyQty > 0 => h.buyQty > 0
           /\ g.sellQty > 0 => h.sellQty > 0
<1>1. ASSUME NEW side \in {"BUY", "SELL"}, Ordered(rows, side) > 0
      PROVE  Ordered(more, side) > 0
  <2>1. \E r \in rows : r.event.msg = "NEW" /\ r.event.side = side
    <3>1. TwoSided(rows)
      BY DEF Describes, Ordinary
    <3> QED
      BY <1>1, <3>1, OrderedNone
  <2>2. PICK q \in more : q.event.msg = "NEW" /\ q.event.side = side
    BY <2>1 DEF Extends
  <2>3. q.event.qty \in Nat \ {0} /\ IsFiniteSet(more) /\ AllMeasured(more)
    BY DEF Describes, AllMeasured, Measured, Sized
  <2>4. Ordered(more, side) \in Nat /\ q.event.qty <= Ordered(more, side)
    BY <2>2, <2>3, OrderedNat
  <2> QED
    BY <2>3, <2>4
<1>2. g.buyQty = Ordered(rows, "BUY") /\ g.sellQty = Ordered(rows, "SELL")
  BY DescribedReads DEF Reads
<1>3. h.buyQty = Ordered(more, "BUY") /\ h.sellQty = Ordered(more, "SELL")
  <2>1. Reads(h, more, f2, l2)
    BY DescribedReads
  <2> QED
    BY <2>1 DEF Reads
<1> QED
  BY <1>1, <1>2, <1>3

(* Time runs on.                                                            *)
LEMMA SecsFall ==
    ASSUME NEW g, NEW rows, NEW key, NEW f, NEW l, Describes(g, rows, key, f, l),
           NEW h, NEW more, NEW k2, NEW f2, NEW l2, Describes(h, more, k2, f2, l2),
           Extends(rows, more)
    PROVE  h.secsToClose <= g.secsToClose
<1>1. \E r \in rows : g.secsToClose = TimeToClose(r.event.t)
  BY SecsOfRow
<1>2. PICK r \in rows : g.secsToClose = TimeToClose(r.event.t)
  BY <1>1
<1>3. PICK q \in more : q.event = r.event
  BY DEF Extends
<1>4. h.secsToClose <= TimeToClose(q.event.t)
  BY SecsOfRow
<1> QED
  BY <1>2, <1>3, <1>4

(* A marked close stays marked while the window lies before the close.      *)
LEMMA MarkingStays ==
    ASSUME NEW g, NEW rows, NEW key, NEW f, NEW l, Describes(g, rows, key, f, l),
           NEW h, NEW more, NEW k2, NEW f2, NEW l2, Describes(h, more, k2, f2, l2),
           Extends(rows, more), Sized(more), MarkingGate(g), 0 <= h.secsToClose,
           NEW mid \in Nat, FiveCentsShow(mid), PricedNear(more, mid),
           EndsHigh(more, f2, l2)
    PROVE  fires("MARKING_THE_CLOSE", h)
<1>1. IsGoldFeatures(g) /\ IsGoldFeatures(h)
  BY DEF Describes
<1>2. h.priceMoveBps > 0
  BY RisesWhen DEF EndsHigh
<1>3. PrintAtHigh(h)
  BY EndsAtHigh DEF EndsHigh
<1>4. h.buyQty > 0
  BY SideStands DEF MarkingGate
<1>5. h.nExecs >= 1
  <2>1. g.nExecs <= h.nExecs /\ g.nExecs \in Nat /\ h.nExecs \in Nat
    BY MoreOfKind
  <2> QED
    BY <2>1 DEF MarkingGate
<1>6. h.secsToClose <= CloseWindow
  <2>1. h.secsToClose <= g.secsToClose /\ g.secsToClose <= CloseWindow
    BY SecsFall DEF MarkingGate
  <2>2. h.secsToClose \in Int /\ g.secsToClose \in Int /\ CloseWindow \in Int
    BY <1>1, DetectorAssumption DEF IsGoldFeatures, CloseWindow, DetectorAssumption
  <2> QED
    BY <2>1, <2>2
<1>7. MarkingGate(h)
  BY <1>2, <1>4, <1>5, <1>6 DEF MarkingGate
<1> QED
  BY <1>1, <1>3, <1>7, GateIsMarking

-----------------------------------------------------------------------------
(* The prices of each scenario *)

(* Events: no later price is lower, and none is far over mid.               *)
Climbing(E, c) ==
    /\ \A d, e \in E : d.trader = c.trader /\ e.trader = c.trader
            /\ d.price # NoPrice /\ e.price # NoPrice /\ d.t <= e.t => d.price <= e.price
    /\ \A e \in E : e.trader = c.trader => e.price <= c.mid + 20

(* So it is in what the abuser's rows have of them.                         *)
LEMMA ClimbingRows ==
    ASSUME NEW c, NEW E, Climbing(E, c), NEW rows, OfAbuser(rows, E, c)
    PROVE  Rising(rows) /\ PricedNear(rows, c.mid)
BY DEF Climbing, OfAbuser, Rising, PricedNear, Priced

(* A wash trade has one price.                                              *)
LEMMA WashClimbs ==
    ASSUME NEW c, IsContext(c), NEW E, WashDeeds(E, c) PROVE Climbing(E, c)
<1>1. c.mid \in Nat
  BY DEF IsContext
<1>2. PICK b, s, fb, fs : WashOf(E, c, b, s, fb, fs)
  BY DEF WashDeeds, WashOf
<1>3. \A e \in E : e.price = c.mid
  BY <1>2 DEF WashOf, Deed
<1> QED
  BY <1>1, <1>3 DEF Climbing

(* A front run sells for more than it bought at, and later.                 *)
LEMMA FrontClimbs ==
    ASSUME NEW c, IsContext(c), NEW E, FrontDeeds(E, c) PROVE Climbing(E, c)
<1> DEFINE px == c.mid + randint(c, 6, 5, 20)
<1>1. c.mid \in Nat /\ c.t0 \in Nat /\ px \in Nat /\ c.mid <= px /\ px <= c.mid + 20
  <2>1. c.mid \in Nat /\ c.t0 \in Nat /\ px \in (c.mid + 5)..(c.mid + 20)
    BY Drawn
  <2> HIDE DEF px
  <2> QED
    BY <2>1
<1>2. PICK b, fb, s, fs, o, fo : FrontOf(E, c, b, fb, s, fs, o, fo)
  BY DEF FrontDeeds, FrontOf
<1>3. \A e \in E : e.trader = c.trader => e \in {b, fb, s, fs}
  BY <1>2, FrontParts
<1>4. /\ \A e \in {b, fb} : e.price = c.mid /\ c.t0 + 5 <= e.t /\ e.t <= c.t0 + 10
      /\ \A e \in {s, fs} : e.price = px /\ c.t0 + 30 <= e.t
  <2>1. /\ b.price = c.mid /\ b.t = c.t0 + 5 /\ fb.price = c.mid /\ fb.t = c.t0 + 10
        /\ s.price = px /\ s.t = c.t0 + 30 /\ fs.price = px /\ fs.t = c.t0 + 35
    BY <1>2 DEF FrontOf, Deed
  <2> HIDE DEF px
  <2> QED
    BY <1>1, <2>1
<1> HIDE DEF px
<1>5. /\ b.t \in Nat /\ fb.t \in Nat /\ s.t \in Nat /\ fs.t \in Nat
  <2>1. b.t = c.t0 + 5 /\ fb.t = c.t0 + 10 /\ s.t = c.t0 + 30 /\ fs.t = c.t0 + 35
    BY <1>2 DEF FrontOf, Deed
  <2> QED
    BY <1>1, <2>1
<1>6. ASSUME NEW d \in {b, fb, s, fs}, NEW e \in {b, fb, s, fs}, d.t <= e.t
      PROVE  d.price <= e.price
  BY <1>1, <1>4, <1>5, <1>6
<1>7. \A e \in {b, fb, s, fs} : e.price <= c.mid + 20
  BY <1>1, <1>4
<1> QED
  BY <1>3, <1>6, <1>7 DEF Climbing

(* A burst climbs to its peak, which the exit keeps.                        *)
LEMMA MomentumClimbs ==
    ASSUME NEW c, IsContext(c), NEW E, MomentumDeeds(E, c) PROVE Climbing(E, c)
<1> DEFINE qty(k) == randint(c, k, 2, 3)
<1>1. PICK o, fill, s, x :
        /\ E = {o[k] : k \in 1..5} \cup {fill[k] : k \in 1..5} \cup {s, x}
        /\ \A k \in 1..5 :
              /\ Deed(o[k], c, "burst", k - 1, "NEW", "BUY", qty(k), 8 * (k - 1), c.mid + k)
              /\ Deed(fill[k], c, "burst", k - 1, "EXEC", "BUY", qty(k),
                      8 * (k - 1) + 2, c.mid + k)
        /\ Deed(s, c, "exit-sell", 0, "NEW", "SELL", 20, 55, c.mid + 5)
        /\ Deed(x, c, "exit-sell", 0, "EXEC", "SELL", 20, 58, c.mid + 5)
  BY DEF MomentumDeeds
<1>2. c.mid \in Nat /\ c.t0 \in Nat
  BY DEF IsContext
<1> HIDE DEF qty
<1>3. ASSUME NEW e \in E
      PROVE  /\ \/ \E k \in 1..5 : e.price = c.mid + k
                        /\ (e.t = c.t0 + 8 * (k - 1) \/ e.t = c.t0 + 8 * (k - 1) + 2)
                \/ e.price = c.mid + 5 /\ (e.t = c.t0 + 55 \/ e.t = c.t0 + 58)
  <2>1. \A k \in 1..5 :
            /\ o[k].price = c.mid + k /\ o[k].t = c.t0 + 8 * (k - 1)
            /\ fill[k].price = c.mid + k /\ fill[k].t = c.t0 + (8 * (k - 1) + 2)
    BY <1>1 DEF Deed
  <2>2. /\ s.price = c.mid + 5 /\ s.t = c.t0 + 55
        /\ x.price = c.mid + 5 /\ x.t = c.t0 + 58
    BY <1>1 DEF Deed
  <2>3. \A k \in 1..5 : c.t0 + (8 * (k - 1) + 2) = c.t0 + 8 * (k - 1) + 2
    BY <1>2
  <2> QED
    BY <1>1, <2>1, <2>2, <2>3
<1>4. ASSUME NEW d \in E, NEW e \in E, d.t <= e.t
      PROVE  d.price <= e.price
  BY <1>2, <1>3, <1>4
<1>5. \A e \in E : e.price <= c.mid + 20
  BY <1>2, <1>3
<1> QED
  BY <1>4, <1>5 DEF Climbing

(* Marking the close climbs by waves, to the price that is filled.          *)
LEMMA MarkingClimbs ==
    ASSUME NEW c, IsContext(c), NEW E, MarkingDeeds(E, c) PROVE Climbing(E, c)
<1> DEFINE qty(k) == randint(c, k, 5, 7)
<1>1. PICK o, fill, x :
        /\ E = {o[k] : k \in 1..3} \cup {fill} \cup {x[k] : k \in 1..2}
        /\ \A k \in 1..3 : Deed(o[k], c, "mtc", k - 1, "NEW", "BUY", qty(k),
                                1500 * (k - 1), c.mid + k)
        /\ Deed(fill, c, "mtc", 2, "EXEC", "BUY", qty(3), 3050, c.mid + 3)
        /\ \A k \in 1..2 : Deed(x[k], c, "mtc-cancel", k - 1, "CANCEL", "BUY",
                                qty(k), 3070 + 5 * (k - 1), NoPrice)
  BY DEF MarkingDeeds
<1>2. c.mid \in Nat /\ c.t0 \in Nat
  BY DEF IsContext
<1> HIDE DEF qty
<1>3. ASSUME NEW e \in E
      PROVE  \/ \E k \in 1..3 : e.price = c.mid + k /\ e.t = c.t0 + 1500 * (k - 1)
             \/ e.price = c.mid + 3 /\ e.t = c.t0 + 3050
             \/ e.price = NoPrice
  <2>1. \A k \in 1..3 : o[k].price = c.mid + k /\ o[k].t = c.t0 + 1500 * (k - 1)
    BY <1>1 DEF Deed
  <2>2. fill.price = c.mid + 3 /\ fill.t = c.t0 + 3050 /\ \A k \in 1..2 : x[k].price = NoPrice
    BY <1>1 DEF Deed
  <2> QED
    BY <1>1, <2>1, <2>2
<1>4. ASSUME NEW d \in E, NEW e \in E, d.price # NoPrice, e.price # NoPrice, d.t <= e.t
      PROVE  d.price <= e.price
  BY <1>2, <1>3, <1>4
<1>5. \A e \in E : e.price <= c.mid + 20
  BY <1>2, <1>3 DEF NoPrice
<1> QED
  BY <1>4, <1>5 DEF Climbing

-----------------------------------------------------------------------------
(* Bursts and marked closes *)

(* Two prices, one over the other, among rising rows.                       *)
LEMMA RoseBetween ==
    ASSUME NEW g, NEW rows, NEW key, NEW f, NEW l, Describes(g, rows, key, f, l),
           NEW mid \in Nat, FiveCentsShow(mid), PricedNear(rows, mid), Rising(rows),
           NEW q \in Priced(rows), NEW r \in Priced(rows),
           q.event.price < r.event.price
    PROVE  EndsHigh(rows, f, l) /\ g.priceMoveBps > 0
<1>1. f \in Nat /\ l \in Nat /\ Priced(rows) # {}
  BY RisesWhen
<1>2. \A p \in Priced(rows) : f <= p.event.price /\ p.event.price <= l
  BY RisingEdges
<1>3. q.event.price \in Nat /\ r.event.price \in Nat
  BY DEF Describes, AllMeasured, Measured, Priced
<1>4. EndsHigh(rows, f, l)
  BY <1>1, <1>2, <1>3 DEF EndsHigh
<1> QED
  BY <1>1, <1>4, RisesWhen DEF EndsHigh

(* An order on a side shows as a quantity.                                  *)
LEMMA SideShows ==
    ASSUME NEW g, NEW rows, NEW key, NEW f, NEW l, Describes(g, rows, key, f, l),
           NEW q \in rows, q.event.msg = "NEW", q.event.qty # 0
    PROVE  /\ q.event.side = "BUY" => g.buyQty > 0
           /\ q.event.side = "SELL" => g.sellQty > 0
<1>1. /\ q.event.qty \in Nat \ {0} /\ IsFiniteSet(rows) /\ AllMeasured(rows)
  BY DEF Describes, AllMeasured, Measured
<1>2. /\ Ordered(rows, "BUY") \in Nat /\ Ordered(rows, "SELL") \in Nat
      /\ q.event.side = "BUY" => q.event.qty <= Ordered(rows, "BUY")
      /\ q.event.side = "SELL" => q.event.qty <= Ordered(rows, "SELL")
  BY <1>1, OrderedNat
<1>3. g.buyQty = Ordered(rows, "BUY") /\ g.sellQty = Ordered(rows, "SELL")
  BY DescribedReads DEF Reads
<1> QED
  BY <1>1, <1>2, <1>3

(* What a burst of buys and its exit are.                                   *)
BurstOf(E, c, e, o, s) ==
    /\ \A k \in 1..6 : e[k] \in E /\ e[k].trader = c.trader /\ e[k].msg = "EXEC"
    /\ \A j, k \in 1..6 : e[j] = e[k] => j = k
    /\ o \in E /\ o.trader = c.trader /\ o.price = c.mid + 1
    /\ s \in E /\ s.trader = c.trader /\ s.price = c.mid + 5
    /\ s.msg = "NEW" /\ s.side = "SELL" /\ s.qty = 20
    /\ \A x \in E : x.msg # "CANCEL"

(* A burst has six fills, from one price to a higher one, and a sell.       *)
LEMMA BurstParts ==
    ASSUME NEW c, NEW E, MomentumDeeds(E, c)
    PROVE  \E e, o, s : BurstOf(E, c, e, o, s)
<1> DEFINE qty(k) == randint(c, k, 2, 3)
<1>1. PICK o, fill, s, x :
        /\ E = {o[k] : k \in 1..5} \cup {fill[k] : k \in 1..5} \cup {s, x}
        /\ \A k \in 1..5 :
              /\ Deed(o[k], c, "burst", k - 1, "NEW", "BUY", qty(k), 8 * (k - 1), c.mid + k)
              /\ Deed(fill[k], c, "burst", k - 1, "EXEC", "BUY", qty(k),
                      8 * (k - 1) + 2, c.mid + k)
        /\ Deed(s, c, "exit-sell", 0, "NEW", "SELL", 20, 55, c.mid + 5)
        /\ Deed(x, c, "exit-sell", 0, "EXEC", "SELL", 20, 58, c.mid + 5)
  BY DEF MomentumDeeds
<1> HIDE DEF qty
<1> DEFINE e == [k \in 1..6 |-> IF k = 6 THEN x ELSE fill[k]]
<1>2. /\ \A k \in 1..5 : /\ o[k].msg = "NEW" /\ fill[k].msg = "EXEC" /\ fill[k] \in E
                         /\ fill[k].id[3] = "burst" /\ fill[k].id[4] = k - 1
                         /\ fill[k].trader = c.trader
      /\ x.msg = "EXEC" /\ x.id[3] = "exit-sell" /\ x \in E /\ x.trader = c.trader
  BY <1>1 DEF Deed
<1>3. e[6] = x /\ \A k \in 1..5 : e[k] = fill[k]
  OBVIOUS
<1> HIDE DEF e
<1>4. \A k \in 1..6 : k \in 1..5 \/ k = 6
  OBVIOUS
<1>5. \A k \in 1..6 : e[k] \in E /\ e[k].trader = c.trader /\ e[k].msg = "EXEC"
  BY <1>2, <1>3, <1>4
<1>6. \A j, k \in 1..6 : e[j] = e[k] => j = k
  <2>1. /\ \A k \in 1..5 : e[k].id[3] = "burst" /\ e[k].id[4] = k - 1
        /\ e[6].id[3] = "exit-sell"
    BY <1>2, <1>3
  <2> QED
    BY <1>4, <2>1
<1>7. o[1] \in E /\ o[1].trader = c.trader /\ o[1].price = c.mid + 1
  BY <1>1 DEF Deed
<1>8. s \in E /\ s.trader = c.trader /\ s.price = c.mid + 5
      /\ s.msg = "NEW" /\ s.side = "SELL" /\ s.qty = 20
  BY <1>1 DEF Deed
<1>9. \A y \in E : y.msg # "CANCEL"
  BY <1>1, <1>2, <1>8
<1>10. BurstOf(E, c, e, o[1], s)
  BY <1>5, <1>6, <1>7, <1>8, <1>9 DEF BurstOf
<1> QED
  BY <1>10

(* A whole burst is alerted as momentum ignition.                           *)
LEMMA MomentumWhole ==
    ASSUME NEW c, IsContext(c), FiveCentsShow(c.mid), NEW E, MomentumDeeds(E, c),
           NEW g, NEW rows, NEW key, NEW f, NEW l, Describes(g, rows, key, f, l),
           OfAbuser(rows, E, c), Covers(rows, E, c)
    PROVE  fires("MOMENTUM_IGNITION", g) /\ severity("MOMENTUM_IGNITION", g) >= 4
<1>1. PICK e, o, s : BurstOf(E, c, e, o, s)
  BY BurstParts
<1>2. c.mid \in Nat /\ IsGoldFeatures(g) /\ IsFiniteSet(rows)
  BY DEF IsContext, Describes
<1>3. 6 <= g.nExecs
  <2>1. g.nExecs = Cardinality(Kind(rows, "EXEC"))
    BY DescribedReads DEF Reads
  <2>2. /\ \A k \in 1..6 : e[k].msg = "EXEC" /\ \E r \in rows : r.event = e[k]
        /\ \A j, k \in 1..6 : e[j] = e[k] => j = k
    BY <1>1 DEF BurstOf, Covers
  <2>3. ASSUME NEW n \in Nat,
               \A k \in 1..n : e[k].msg = "EXEC" /\ \E r \in rows : r.event = e[k],
               \A j, k \in 1..n : e[j] = e[k] => j = k
        PROVE  n <= Cardinality(Kind(rows, "EXEC"))
    BY <1>2, <2>3, KindAtLeast
  <2>4. 6 <= Cardinality(Kind(rows, "EXEC"))
    BY <2>2, <2>3
  <2> QED
    BY <2>1, <2>4
<1>4. PICK q \in rows : q.event = o
  BY <1>1 DEF BurstOf, Covers
<1>5. PICK r \in rows : r.event = s
  BY <1>1 DEF BurstOf, Covers
<1>6. g.sellQty > 0
  <2>1. r.event.msg = "NEW" /\ r.event.qty # 0 /\ r.event.side = "SELL"
    BY <1>1, <1>5 DEF BurstOf
  <2> QED
    BY <2>1, SideShows
<1>7. g.priceMoveBps > 0
  <2>1. q \in Priced(rows) /\ r \in Priced(rows) /\ q.event.price < r.event.price
    BY <1>1, <1>2, <1>4, <1>5 DEF BurstOf, Priced, NoPrice
  <2>2. Rising(rows) /\ PricedNear(rows, c.mid)
    BY MomentumClimbs, ClimbingRows
  <2> QED
    BY <1>2, <2>1, <2>2, RoseBetween
<1>8. 5 * g.cancelRatio <= Scale
  <2>1. \A p \in rows : p.event.msg # "CANCEL"
    BY <1>1 DEF BurstOf, OfAbuser
  <2> QED
    BY <2>1, NoCancelNoSpoofing
<1>9. g.nExecs \in Nat
  BY <1>2 DEF IsGoldFeatures
<1>10. MomentumGate(g)
  BY <1>3, <1>6, <1>7, <1>8, <1>9 DEF MomentumGate
<1> QED
  BY <1>2, <1>3, <1>9, <1>10, GateIsBurst

(* A burst alerted on a part stays so when more of it arrives.              *)
LEMMA MomentumStands ==
    ASSUME NEW c, IsContext(c), FiveCentsShow(c.mid), NEW E, MomentumDeeds(E, c),
           NEW g, NEW rows, NEW key, NEW f, NEW l, Describes(g, rows, key, f, l),
           OfAbuser(rows, E, c), fires("MOMENTUM_IGNITION", g),
           NEW h, NEW more, NEW k2, NEW f2, NEW l2, Describes(h, more, k2, f2, l2),
           OfAbuser(more, E, c), Extends(rows, more), Sized(more)
    PROVE  fires("MOMENTUM_IGNITION", h)
<1>1. PICK e, o, s : BurstOf(E, c, e, o, s)
  BY BurstParts
<1>2. c.mid \in Nat /\ IsGoldFeatures(g) /\ IsGoldFeatures(h)
  BY DEF IsContext, Describes
<1>3. MomentumGate(g)
  BY <1>2, GatePassed DEF Detector
<1>4. h.nExecs >= 4
  <2>1. g.nExecs <= h.nExecs /\ g.nExecs \in Nat /\ h.nExecs \in Nat
    BY MoreOfKind
  <2> QED
    BY <1>3, <2>1 DEF MomentumGate
<1>5. h.sellQty > 0
  BY <1>3, SideStands DEF MomentumGate
<1>6. 5 * h.cancelRatio <= Scale
  <2>1. \A p \in more : p.event.msg # "CANCEL"
    BY <1>1 DEF BurstOf, OfAbuser
  <2> QED
    BY <2>1, NoCancelNoSpoofing
<1>7. h.priceMoveBps > 0
  <2>1. /\ Rising(rows) /\ PricedNear(rows, c.mid)
        /\ Rising(more) /\ PricedNear(more, c.mid)
    BY MomentumClimbs, ClimbingRows
  <2>2. Priced(rows) # {} /\ f < l /\ f \in Nat /\ l \in Nat
    BY <1>2, <1>3, <2>1, RisesWhen DEF MomentumGate
  <2>3. f2 \in Nat /\ l2 \in Nat
    BY <1>2, <2>1, RisesWhen
  <2>4. EndsHigh(more, f2, l2)
    BY <2>1, <2>2, <2>3, RisingStands
  <2> QED
    BY <1>2, <2>1, <2>4, RisesWhen DEF EndsHigh
<1>8. MomentumGate(h)
  BY <1>4, <1>5, <1>6, <1>7 DEF MomentumGate
<1> QED
  BY <1>2, <1>8, GateIsBurst

(* A close wholly marked within its last minute is alerted.                 *)
LEMMA MarkingWhole ==
    ASSUME NEW c, IsContext(c), FiveCentsShow(c.mid), NEW E, MarkingDeeds(E, c),
           NEW g, NEW rows, NEW key, NEW f, NEW l, Describes(g, rows, key, f, l),
           OfAbuser(rows, E, c), Covers(rows, E, c),
           0 <= g.secsToClose, g.secsToClose <= 60 * Second
    PROVE  fires("MARKING_THE_CLOSE", g) /\ severity("MARKING_THE_CLOSE", g) >= 4
<1> DEFINE qty(k) == randint(c, k, 5, 7)
<1>1. PICK o, fill, x :
        /\ E = {o[k] : k \in 1..3} \cup {fill} \cup {x[k] : k \in 1..2}
        /\ \A k \in 1..3 : Deed(o[k], c, "mtc", k - 1, "NEW", "BUY", qty(k),
                                1500 * (k - 1), c.mid + k)
        /\ Deed(fill, c, "mtc", 2, "EXEC", "BUY", qty(3), 3050, c.mid + 3)
        /\ \A k \in 1..2 : Deed(x[k], c, "mtc-cancel", k - 1, "CANCEL", "BUY",
                                qty(k), 3070 + 5 * (k - 1), NoPrice)
  BY DEF MarkingDeeds
<1>2. /\ c.mid \in Nat /\ IsGoldFeatures(g) /\ IsFiniteSet(rows) /\ qty(1) # 0
  <2>1. 1 \in 1..6
    OBVIOUS
  <2>2. qty(1) \in 5..7
    BY <2>1, Drawn
  <2> HIDE DEF qty
  <2> QED
    BY <2>2 DEF IsContext, Describes
<1> HIDE DEF qty
<1>3. /\ o[1] \in E /\ o[1].trader = c.trader /\ o[1].price = c.mid + 1
      /\ o[1].msg = "NEW" /\ o[1].side = "BUY" /\ o[1].qty = qty(1)
      /\ fill \in E /\ fill.trader = c.trader /\ fill.price = c.mid + 3
      /\ fill.msg = "EXEC"
  BY <1>1 DEF Deed
<1>4. PICK q \in rows : q.event = o[1]
  BY <1>3 DEF Covers
<1>5. PICK r \in rows : r.event = fill
  BY <1>3 DEF Covers
<1>6. g.buyQty > 0
  BY <1>2, <1>3, <1>4, SideShows
<1>7. EndsHigh(rows, f, l) /\ g.priceMoveBps > 0
  <2>1. q \in Priced(rows) /\ r \in Priced(rows) /\ q.event.price < r.event.price
    BY <1>2, <1>3, <1>4, <1>5 DEF Priced, NoPrice
  <2>2. Rising(rows) /\ PricedNear(rows, c.mid)
    BY MarkingClimbs, ClimbingRows
  <2> QED
    BY <1>2, <2>1, <2>2, RoseBetween
<1>8. g.nExecs >= 1
  <2>1. g.nExecs = Cardinality(Kind(rows, "EXEC"))
    BY DescribedReads DEF Reads
  <2>2. r \in Kind(rows, "EXEC") /\ IsFiniteSet(Kind(rows, "EXEC"))
    BY <1>2, <1>3, <1>5, FS_Subset DEF Kind
  <2>3. g.nExecs \in Nat /\ g.nExecs # 0
    BY <2>1, <2>2, FS_CardinalityType, FS_EmptySet
  <2> QED
    BY <2>3
<1>9. PrintAtHigh(g)
  BY <1>7, EndsAtHigh DEF EndsHigh
<1>10. g.secsToClose <= CloseWindow
  <2>1. g.secsToClose \in Int /\ Second \in Nat
    BY <1>2, DetectorAssumption DEF DetectorAssumption, IsGoldFeatures
  <2> QED
    BY <2>1 DEF CloseWindow
<1>11. MarkingGate(g)
  BY <1>6, <1>7, <1>8, <1>10 DEF MarkingGate
<1> QED
  BY <1>2, <1>9, <1>11, GateIsMarking

-----------------------------------------------------------------------------
(* Alerts on parts of a scenario *)

(* What is covered stays covered.                                           *)
LEMMA StillCovers ==
    ASSUME NEW rows, NEW E, NEW c, Covers(rows, E, c), NEW more, Extends(rows, more)
    PROVE  Covers(more, E, c)
BY DEF Covers, Extends

(* No order of a layered book is priced over the sale.                      *)
LEMMA SpoofingNear ==
    ASSUME NEW c, IsContext(c), NEW E, SpoofingDeeds(E, c), NEW rows, OfAbuser(rows, E, c)
    PROVE  PricedNear(rows, c.mid)
<1>1. c.mid \in Nat \ (0..5)
  BY DEF IsContext
<1>2. \A e \in E : e.price \in {c.mid - k : k \in 1..4} \cup {c.mid, NoPrice}
  BY DEF SpoofingDeeds, Deed
<1>3. \A e \in E : e.price <= c.mid + 20
  BY <1>1, <1>2 DEF NoPrice
<1> QED
  BY <1>3 DEF PricedNear, OfAbuser, Priced

(* The layers are under the sale and before it: with its fill and a layer   *)
(* the price has risen, to where it is highest.                             *)
LEMMA SpoofingEndsHigh ==
    ASSUME NEW c, IsContext(c), NEW E, SpoofingDeeds(E, c),
           NEW g, NEW rows, NEW key, NEW f, NEW l, Describes(g, rows, key, f, l),
           OfAbuser(rows, E, c),
           \E r \in rows : r.event.msg = "EXEC",
           \E r \in rows : r.event.msg = "NEW" /\ r.event.side = "BUY"
    PROVE  EndsHigh(rows, f, l)
<1>1. PICK o, x, s, fill :
        /\ E = {o[k] : k \in 1..4} \cup {s, fill} \cup {x[k] : k \in 1..4}
        /\ \A k \in 1..4 :
              /\ Deed(o[k], c, "spoof", k - 1, "NEW", "BUY", randint(c, k, 50, 55),
                      5 * (k - 1), c.mid - k)
              /\ Deed(x[k], c, "cancel", k - 1, "CANCEL", "BUY", 50,
                      40 + 2 * (k - 1), NoPrice)
        /\ Deed(s, c, "genuine-sell", 0, "NEW", "SELL", 2, 30, c.mid)
        /\ Deed(fill, c, "genuine-sell", 0, "EXEC", "SELL", 2, 35, c.mid)
  BY DEF SpoofingDeeds
<1>2. c.mid \in Nat \ (0..5) /\ c.t0 \in Nat
  BY DEF IsContext
<1>3. ASSUME NEW e \in E, e.price # NoPrice
      PROVE  \/ e.price < c.mid /\ e.price # NoPrice /\ e.t <= c.t0 + 15
             \/ e.price = c.mid /\ e.msg = "NEW" /\ e.side = "SELL" /\ e.t = c.t0 + 30
             \/ e.price = c.mid /\ e.msg = "EXEC" /\ e.t = c.t0 + 35
  <2>1. \A k \in 1..4 : /\ o[k].price = c.mid - k /\ o[k].t = c.t0 + 5 * (k - 1)
                        /\ x[k].price = NoPrice
    BY <1>1 DEF Deed
  <2>2. \A k \in 1..4 : c.mid - k < c.mid /\ c.t0 + 5 * (k - 1) <= c.t0 + 15
    BY <1>2
  <2>3. /\ s.price = c.mid /\ s.msg = "NEW" /\ s.side = "SELL" /\ s.t = c.t0 + 30
        /\ fill.price = c.mid /\ fill.msg = "EXEC" /\ fill.t = c.t0 + 35
    BY <1>1 DEF Deed
  <2> QED
    BY <1>1, <1>3, <2>1, <2>2, <2>3
<1>4. \A e \in E : /\ e.msg = "EXEC" => e.price = c.mid /\ e.t = c.t0 + 35
                   /\ e.msg = "NEW" /\ e.side = "BUY"
                        => e.price \in {c.mid - k : k \in 1..4} /\ e.price # NoPrice
  <2>1. \A k \in 1..4 : /\ o[k].price = c.mid - k /\ o[k].msg = "NEW"
                        /\ x[k].msg = "CANCEL"
    BY <1>1 DEF Deed
  <2>2. s.msg = "NEW" /\ s.side = "SELL" /\ fill.msg = "EXEC"
        /\ fill.price = c.mid /\ fill.t = c.t0 + 35
    BY <1>1 DEF Deed
  <2>3. \A k \in 1..4 : c.mid - k # NoPrice
    BY <1>2 DEF NoPrice
  <2> QED
    BY <1>1, <2>1, <2>2, <2>3
<1>5. PICK a \in rows : a.event.msg = "EXEC"
  OBVIOUS
<1>6. PICK b \in rows : b.event.msg = "NEW" /\ b.event.side = "BUY"
  OBVIOUS
<1>7. /\ a \in Priced(rows) /\ a.event.price = c.mid /\ a.event.t = c.t0 + 35
      /\ b \in Priced(rows) /\ b.event.price < c.mid /\ b.event.t <= c.t0 + 15
  <2>1. a.event \in E /\ b.event \in E
    BY DEF OfAbuser
  <2>2. a.event.price = c.mid /\ a.event.t = c.t0 + 35 /\ b.event.price # NoPrice
    BY <1>4, <1>5, <1>6, <2>1
  <2>3. b.event.price < c.mid /\ b.event.t <= c.t0 + 15
    BY <1>3, <1>6, <2>1, <2>2
  <2> QED
    BY <1>2, <2>2, <2>3 DEF Priced, NoPrice
<1>8. Edges(Priced(rows), f, l)
  BY <1>7, DescribedEdges
<1>9. PICK q, r \in Priced(rows) :
        /\ q.event.price = f /\ r.event.price = l
        /\ \A p \in Priced(rows) : q.event.t <= p.event.t /\ p.event.t <= r.event.t
  BY <1>8 DEF Edges
<1>10. \A p \in Priced(rows) : p.event \in E /\ p.event.price # NoPrice
                               /\ p.event.price \in Nat /\ p.event.t \in Nat
  BY DEF Describes, AllMeasured, Measured, Priced, OfAbuser
<1>11. \A p \in Priced(rows) : p.event.price <= c.mid
  BY <1>2, <1>3, <1>10
<1>12. l = c.mid
  <2>1. c.t0 + 35 <= r.event.t
    BY <1>7, <1>9
  <2> QED
    BY <1>2, <1>3, <1>9, <1>10, <2>1
<1>13. f < c.mid
  <2>1. q.event.t <= b.event.t
    BY <1>7, <1>9
  <2>2. q.event.t <= c.t0 + 15
    BY <1>2, <1>7, <1>10, <2>1
  <2> QED
    BY <1>2, <1>3, <1>9, <1>10, <2>2
<1> QED
  BY <1>7, <1>11, <1>12, <1>13 DEF EndsHigh

(* A close marked on a part was marked before it: later events of the       *)
(* window are before it too.                                                *)
LEMMA StillBeforeClose ==
    ASSUME Aligned, NEW mid \in Nat, FiveCentsShow(mid),
           NEW g, NEW rows, NEW key, NEW f, NEW l, Describes(g, rows, key, f, l),
           PricedNear(rows, mid), MarkingGate(g),
           \A q, r \in rows : q.event.t = r.event.t /\ q.event.price # NoPrice
                                /\ r.event.price # NoPrice => q.event.price = r.event.price,
           NEW h, NEW more, NEW k2, NEW f2, NEW l2, Describes(h, more, k2, f2, l2),
           \A q \in rows : \A r \in more : WindowStart(q.event.t) = WindowStart(r.event.t),
           \A q, r \in rows : WindowStart(q.event.t) = WindowStart(r.event.t)
    PROVE  0 <= h.secsToClose
<1>1. Priced(rows) # {} /\ f < l /\ f \in Nat /\ l \in Nat
  BY RisesWhen DEF MarkingGate
<1>2. Edges(Priced(rows), f, l)
  BY <1>1, DescribedEdges
<1>3. PICK q, r \in Priced(rows) :
        /\ q.event.price = f /\ r.event.price = l /\ q.event.t <= r.event.t
  BY <1>2 DEF Edges
<1>4. q \in rows /\ r \in rows /\ q.event.t # r.event.t
  BY <1>1, <1>3 DEF Priced
<1>5. PICK s \in more : h.secsToClose = TimeToClose(s.event.t)
  <2>1. \E s \in more : h.secsToClose = TimeToClose(s.event.t)
    BY SecsOfRow
  <2> QED
    BY <2>1
<1>6. q.event.t \in Nat /\ r.event.t \in Nat /\ s.event.t \in Nat
  BY <1>4 DEF Describes, AllMeasured, Measured
<1>7. g.secsToClose <= TimeToClose(r.event.t) /\ g.secsToClose \in Int
  BY <1>4, SecsOfRow DEF Describes, IsGoldFeatures
<1> DEFINE a == q.event.t
           b == r.event.t
           d == s.event.t
<1>8. /\ TimeToClose(a) \in Int /\ TimeToClose(b) \in Int
      /\ TimeToClose(a) - TimeToClose(b) = b - a
  BY <1>4, <1>6, OneSideOfTheClose
<1>9. TimeToClose(a) > 0
  BY <1>3, <1>4, <1>6, <1>7, <1>8 DEF MarkingGate
<1>10. TimeToClose(d) > 0 /\ TimeToClose(d) \in Int
  BY <1>4, <1>6, <1>9, OneSideOfTheClose
<1> QED
  BY <1>5, <1>10

(* Who marks a close has been filled and has bought.                        *)
LEMMA FilledAndBought ==
    ASSUME NEW g, NEW rows, NEW key, NEW f, NEW l, Describes(g, rows, key, f, l),
           MarkingGate(g)
    PROVE  /\ \E r \in rows : r.event.msg = "EXEC"
           /\ \E r \in rows : r.event.msg = "NEW" /\ r.event.side = "BUY"
<1>1. /\ g.nExecs = Cardinality(Kind(rows, "EXEC"))
      /\ g.buyQty = Ordered(rows, "BUY")
  BY DescribedReads DEF Reads
<1>2. \E r \in rows : r.event.msg = "EXEC"
  <2>1. Kind(rows, "EXEC") # {}
    BY <1>1, FS_EmptySet DEF MarkingGate
  <2> QED
    BY <2>1 DEF Kind
<1>3. \E r \in rows : r.event.msg = "NEW" /\ r.event.side = "BUY"
  BY <1>1, OrderedNone DEF MarkingGate, Describes, Ordinary
<1> QED
  BY <1>2, <1>3

-----------------------------------------------------------------------------
(* The inductive invariant: the scenario is one the generator returns, and  *)
(* the bus repeats only what it has delivered.                              *)

(* made is what the archetype's function returned in the context c.         *)
MadeFor(c) ==
    /\ IsContext(c) /\ c.trader = Abuser /\ c.sid = <<"abuse", 1>> /\ c.symbol \in Mids
    /\ made = Scenario(type, c) /\ Faithful(made, type, c)

Incomplete(e) == [e EXCEPT !.side = NoSide]

(* The table T holds rows of the scenario's events, and no second one       *)
(* without the first.                                                       *)
Arrived(T) ==
    /\ T \subseteq {Row(e, 1) : e \in Emitted} \cup {Row(e, 2) : e \in Emitted}
                   \cup {Row(Incomplete(e), 0) : e \in Emitted}
    /\ \A e \in Emitted : Row(e, 2) \in T => Row(e, 1) \in T

IInv ==
    /\ type \in Detector /\ noise \in 0..MaxNoise
    /\ \E c : MadeFor(c)
    /\ Arrived(raw)

(* Rows tell their event and copy.                                          *)
LEMMA Rows ==
    ASSUME NEW d, NEW e, NEW j, NEW k
    PROVE  /\ Row(e, k).event = e /\ Row(e, k).copy = k
           /\ Row(d, j) = Row(e, k) => d = e /\ j = k
<1>1. Row(e, k).event = e /\ Row(e, k).copy = k /\ Row(d, j).event = d /\ Row(d, j).copy = j
  BY DEF Row
<1> QED
  BY <1>1

(* Nothing has arrived at the start.                                        *)
LEMMA InitInv == Init => IInv
<1> SUFFICES ASSUME Init PROVE IInv
  OBVIOUS
<1>1. PICK start \in Starts, mid \in Mids, draws \in Draws :
          made = Scenario(type, Context(start, mid, draws))
  BY DEF Init
<1> DEFINE c == Context(start, mid, draws)
<1>2. c = [t0 |-> start, trader |-> Abuser, symbol |-> mid, mid |-> mid,
           sid |-> <<"abuse", 1>>, draws |-> draws]
  BY DEF Context
<1> HIDE DEF c
<1>3. IsContext(c) /\ c.trader = Abuser /\ c.sid = <<"abuse", 1>> /\ c.symbol \in Mids
  <2>1. /\ start \in Nat /\ mid \in Nat \ (0..5) /\ IsDraws(draws)
        /\ Abuser # Client(<<"abuse", 1>>) /\ 1 \in Nat
    BY SurveillanceAssumption DEF SurveillanceAssumption
  <2> QED
    BY <1>2, <2>1 DEF IsContext
<1>4. type \in Detector /\ type \in Range(Archetypes)
  <2>1. Range(Archetypes) = {Archetypes[1], Archetypes[2], Archetypes[3],
                             Archetypes[4], Archetypes[5]}
    BY DEF Archetypes, Range
  <2> QED
    BY <2>1 DEF Init, Detector, Archetypes
<1>5. Faithful(made, type, c)
  BY <1>1, <1>3, <1>4, ScenarioFaithful DEF c
<1>6. Arrived(raw)
  BY DEF Init, Arrived
<1>7. noise \in 0..MaxNoise
  BY SurveillanceAssumption DEF Init, SurveillanceAssumption
<1>8. made = Scenario(type, c)
  BY <1>1 DEF c
<1> QED
  BY <1>3, <1>4, <1>5, <1>6, <1>7, <1>8 DEF IInv, MadeFor

(* An event that arrives is one of the scenario.                            *)
LEMMA DeliverInv ==
    ASSUME IInv, NEW e \in Emitted, Deliver(e) PROVE IInv'
<1>1. raw' = raw \cup {Row(e, 1)} /\ UNCHANGED <<type, made, noise>>
  BY DEF Deliver
<1>2. Emitted' = Emitted
  BY <1>1 DEF Emitted
<1>3. \A d : Row(d, 2) # Row(e, 1)
  BY Rows
<1>4. Arrived(raw)'
  BY <1>1, <1>2, <1>3 DEF IInv, Arrived
<1> QED
  BY <1>1, <1>4 DEF IInv, MadeFor

(* So is one that arrives again: its first row is there.                    *)
LEMMA RedeliverInv ==
    ASSUME IInv, NEW e \in Emitted, Redeliver(e) PROVE IInv'
<1>1. /\ raw' = raw \cup {Row(e, 2)} /\ UNCHANGED <<type, made>>
      /\ Row(e, 1) \in raw /\ noise < MaxNoise /\ noise' = noise + 1
  BY DEF Redeliver
<1>2. Emitted' = Emitted
  BY <1>1 DEF Emitted
<1>3. \A d : Row(d, 2) = Row(e, 2) => d = e
  BY Rows
<1>4. Arrived(raw)'
  BY <1>1, <1>2, <1>3 DEF IInv, Arrived
<1>5. noise' \in 0..MaxNoise
  BY <1>1, SurveillanceAssumption DEF IInv, SurveillanceAssumption
<1> QED
  BY <1>1, <1>4, <1>5 DEF IInv, MadeFor

(* An event without a side is told by that from the whole ones.             *)
LEMMA IncompleteInv ==
    ASSUME IInv, NEW e \in Emitted, DeliverIncomplete(e) PROVE IInv'
<1>1. /\ raw' = raw \cup {Row(Incomplete(e), 0)} /\ UNCHANGED <<type, made>>
      /\ noise < MaxNoise /\ noise' = noise + 1
  BY DEF DeliverIncomplete, Incomplete
<1>2. Emitted' = Emitted
  BY <1>1 DEF Emitted
<1>3. \A d : Row(d, 2) # Row(Incomplete(e), 0)
  BY Rows
<1>4. Arrived(raw)'
  BY <1>1, <1>2, <1>3 DEF IInv, Arrived
<1>5. noise' \in 0..MaxNoise
  BY <1>1, SurveillanceAssumption DEF IInv, SurveillanceAssumption
<1> QED
  BY <1>1, <1>4, <1>5 DEF IInv, MadeFor

(* The raw table holds rows of the scenario's events and nothing else, in   *)
(* every state, however they are delivered.                                 *)
THEOREM Invariant == Spec => []IInv
<1>1. IInv /\ [Next]_vars => IInv'
  <2> SUFFICES ASSUME IInv, [Next]_vars PROVE IInv'
    OBVIOUS
  <2>1. CASE UNCHANGED vars
    BY <2>1 DEF vars, IInv, MadeFor, Arrived, Emitted
  <2>2. CASE Next
    BY <2>2, DeliverInv, RedeliverInv, IncompleteInv DEF Next
  <2> QED
    BY <2>1, <2>2
<1> QED
  BY <1>1, InitInv, PTL DEF Spec

-----------------------------------------------------------------------------
(* What silver holds *)

(* What is known of the scenario's events: they are whole, no two look      *)
(* alike to deduplication, and prices do not tie.                           *)
LEMMA EmittedEvents ==
    ASSUME NEW c, MadeFor(c)
    PROVE  /\ Emitted = Range(made.events) /\ IsFiniteSet(Emitted)
           /\ \A e \in Emitted : /\ Whole(e) /\ e.trader \in {Abuser, Client(c.sid)}
                                 /\ e.symbol = c.symbol /\ Flow(e, c)
           /\ \A d, e \in Emitted : DedupKey(d) = DedupKey(e) => d = e
           /\ Untied(Emitted) /\ made.label.sid = c.sid
<1> DEFINE s == made.events
<1>1. /\ Part(s, c, made.label.end) /\ Untied(Range(s)) /\ made.label.sid = c.sid
      /\ \A e \in Range(s) : Flow(e, c)
  BY DEF MadeFor, Faithful
<1>2. IsRun(s) /\ \A e \in Range(s) : Belongs(e, c, made.label.end)
  BY <1>1 DEF Part
<1>3. Emitted = Range(s)
  BY DEF Emitted, Range
<1> HIDE DEF s
<1>4. IsFiniteSet(Range(s))
  <2>1. DOMAIN s = 1..Len(s) /\ Len(s) \in Nat
    BY <1>2 DEF IsRun
  <2>2. IsFiniteSet(1..Len(s))
    BY <2>1, FS_Interval
  <2>3. Range(s) = {s[k] : k \in 1..Len(s)}
    BY <2>1 DEF Range
  <2> QED
    BY <2>2, <2>3, FiniteImage
<1>5. \A e \in Range(s) : /\ Whole(e) /\ e.trader \in {Abuser, Client(c.sid)}
                          /\ e.symbol = c.symbol
  BY <1>2 DEF Belongs, Parties, MadeFor
<1>6. \A d, e \in Range(s) : DedupKey(d) = DedupKey(e) => d = e
  BY <1>2 DEF IsRun, KeysApart, Range
<1> QED
  BY <1>1, <1>3, <1>4, <1>5, <1>6 DEF s

(* An incomplete event has the numbers of the whole one, and no side.       *)
LEMMA IncompleteEvent ==
    ASSUME NEW e, Whole(e)
    PROVE  Measured(Incomplete(e)) /\ Incomplete(e).side = NoSide
<1> DEFINE d == Incomplete(e)
<1>1. DOMAIN e = FixFields /\ Measured(e)
  BY DEF Whole
<1>2. d.side = NoSide /\ \A f \in FixFields : f # "side" => d[f] = e[f]
  BY <1>1 DEF Incomplete, FixFields
<1>3. /\ d.t = e.t /\ d.price = e.price /\ d.qty = e.qty
      /\ d.lastQty = e.lastQty /\ d.lastPx = e.lastPx
  BY <1>2 DEF FixFields
<1> HIDE DEF d
<1> QED
  BY <1>1, <1>2, <1>3 DEF Measured, d

(* The events of the scenario that T has whole.                             *)
Received(T) == {e \in Emitted : Row(e, 1) \in T}

(* The raw table is finite and measured, and its whole rows are those of    *)
(* the events that arrived.                                                 *)
LEMMA RawRows ==
    ASSUME NEW c, MadeFor(c), NEW T, Arrived(T)
    PROVE  /\ IsFiniteSet(T) /\ AllMeasured(T)
           /\ \A r \in T : RequiredPresent(r) => r.event \in Received(T)
           /\ \A e \in Received(T) : Row(e, 1) \in T /\ RequiredPresent(Row(e, 1))
<1> DEFINE A == {Row(e, 1) : e \in Emitted}
           B == {Row(e, 2) : e \in Emitted}
           C == {Row(Incomplete(e), 0) : e \in Emitted}
<1>1. /\ IsFiniteSet(Emitted) /\ \A e \in Emitted : Whole(e)
  BY EmittedEvents
<1>2. IsFiniteSet(A) /\ IsFiniteSet(B) /\ IsFiniteSet(C)
  <2> DEFINE f == [e \in Emitted |-> Row(e, 1)]
             g == [e \in Emitted |-> Row(e, 2)]
             h == [e \in Emitted |-> Row(Incomplete(e), 0)]
  <2>1. A = {f[e] : e \in Emitted} /\ B = {g[e] : e \in Emitted} /\ C = {h[e] : e \in Emitted}
    OBVIOUS
  <2> HIDE DEF f, g, h, A, B, C
  <2> QED
    BY <1>1, <2>1, FiniteImage
<1>3. T \in SUBSET (A \cup B \cup C)
  BY DEF Arrived
<1>4. IsFiniteSet(T)
  <2> HIDE DEF A, B, C
  <2>1. IsFiniteSet((A \cup B) \cup C)
    BY <1>2, FS_Union
  <2> QED
    BY <1>3, <2>1, FS_Subset
<1>5. ASSUME NEW r \in T
      PROVE  /\ Measured(r.event)
             /\ RequiredPresent(r) => r.event \in Received(T)
  <2>1. CASE r \in A
    <3>1. PICK e \in Emitted : r = Row(e, 1)
      BY <2>1
    <3>2. r.event = e
      BY <3>1, Rows
    <3> QED
      BY <1>1, <3>1, <3>2 DEF Whole, Received
  <2>2. CASE r \in B
    <3>1. PICK e \in Emitted : r = Row(e, 2)
      BY <2>2
    <3>2. r.event = e /\ Row(e, 1) \in T
      BY <3>1, Rows DEF Arrived
    <3> QED
      BY <1>1, <3>2 DEF Whole, Received
  <2>3. CASE r \in C
    <3>1. PICK e \in Emitted : r = Row(Incomplete(e), 0)
      BY <2>3
    <3>2. r.event = Incomplete(e)
      BY <3>1, Rows
    <3>3. Measured(Incomplete(e)) /\ Incomplete(e).side = NoSide
      BY <1>1, IncompleteEvent
    <3> QED
      BY <3>2, <3>3 DEF RequiredPresent
  <2> QED
    BY <1>3, <2>1, <2>2, <2>3
<1>6. ASSUME NEW e \in Received(T)
      PROVE  Row(e, 1) \in T /\ RequiredPresent(Row(e, 1))
  <2>1. e \in Emitted /\ Row(e, 1) \in T /\ Row(e, 1).event = e
    BY Rows DEF Received
  <2>2. e.side # NoSide
    BY <1>1, <2>1 DEF Whole, Side, NoSide
  <2> QED
    BY <2>1, <2>2 DEF RequiredPresent
<1> QED
  BY <1>4, <1>5, <1>6 DEF AllMeasured

(* Silver has exactly the events that arrived whole, each in one row.       *)
LEMMA SilverRows ==
    ASSUME NEW c, MadeFor(c), NEW T, Arrived(T), NEW S, S = to_silver(to_bronze(T))
    PROVE  /\ IsFiniteSet(S) /\ AllMeasured(S)
           /\ {r.event : r \in S} = Received(T)
           /\ \A q, r \in S : q.event = r.event => q = r
<1>1. /\ IsFiniteSet(T) /\ AllMeasured(T)
      /\ \A r \in T : RequiredPresent(r) => r.event \in Received(T)
      /\ \A e \in Received(T) : Row(e, 1) \in T /\ RequiredPresent(Row(e, 1))
  BY RawRows
<1>2. ASSUME NEW q \in to_bronze(T), NEW r \in to_bronze(T),
             DedupKey(q.event) = DedupKey(r.event)
      PROVE  q.event = r.event
  <2>1. q.event \in Emitted /\ r.event \in Emitted
    BY <1>1 DEF to_bronze, Received
  <2> QED
    BY <1>2, <2>1, EmittedEvents
<1>3. /\ {r.event : r \in S} = {r.event : r \in {q \in T : RequiredPresent(q)}}
      /\ \A q, r \in S : q.event = r.event => q = r
  BY <1>2, SilverHasTheWholeEvents
<1>4. {r.event : r \in {q \in T : RequiredPresent(q)}} = Received(T)
  <2>1. \A e \in Received(T) : e = Row(e, 1).event
    BY Rows
  <2> QED
    BY <1>1, <2>1
<1>5. S \in SUBSET T
  BY SilverOneRowPerKey DEF to_bronze
<1>6. IsFiniteSet(S) /\ AllMeasured(S)
  BY <1>1, <1>5, FS_Subset DEF AllMeasured
<1> QED
  BY <1>3, <1>4, <1>6

(* The events of a trader in a window that have arrived.                    *)
Share(T, trader, start) ==
    {e \in Received(T) : e.trader = trader /\ WindowStart(e.t) = start}

(* A gold row is made of the scenario's events of one trader, in one window *)
(* of its instrument.                                                       *)
GoldOf(T, g, c, f, l) ==
    LET key  == <<g.trader, c.symbol, g.windowStart>>
        rows == Group(to_silver(to_bronze(T)), key)
    IN  /\ IsFiniteSet(rows) /\ rows # {} /\ AllMeasured(rows) /\ OneRowEach(rows)
        /\ \A r \in rows : r.event \in Emitted /\ r.event.trader = g.trader
        /\ {r.event : r \in rows} = Share(T, g.trader, g.windowStart)
        /\ Ordinary(rows) /\ f \in FirstPx(Priced(rows)) /\ l \in LastPx(Priced(rows))
        /\ g = Features(rows, key, f, l) /\ IsGoldFeatures(g)

(* Rows of whole events have two sides, and fills with a price.             *)
LEMMA WholeIsOrdinary ==
    ASSUME NEW rows, \A q \in rows : Whole(q.event)
    PROVE  Ordinary(rows)
<1>1. TwoSided(rows)
  BY DEF TwoSided, Whole, Side
<1>2. Filled(Kind(rows, "EXEC")) = Kind(rows, "EXEC")
  BY DEF Filled, Kind, Whole, NoPrice
<1> QED
  BY <1>1, <1>2 DEF Ordinary

(* A gold row is made of the events of one trader and window.               *)
LEMMA GoldParts ==
    ASSUME NEW c, MadeFor(c), NEW T, Arrived(T), NEW g \in Gold(T)
    PROVE  \E f, l : GoldOf(T, g, c, f, l)
<1> DEFINE S == to_silver(to_bronze(T))
<1>1. /\ IsFiniteSet(S) /\ AllMeasured(S) /\ {r.event : r \in S} = Received(T)
      /\ \A q, r \in S : q.event = r.event => q = r
  BY SilverRows
<1>2. g \in to_gold(S)
  BY DEF Gold
<1> HIDE DEF S
<1>3. PICK key \in GoldKeys(S) : \E f, l : MadeOf(g, S, key, f, l)
  BY <1>1, <1>2, GoldRowParts
<1>4. PICK f, l : MadeOf(g, S, key, f, l)
  BY <1>3
<1> DEFINE rows == Group(S, key)
<1>5. IsGoldFeatures(g) /\ g.trader = key[1] /\ g.windowStart = key[3]
  BY <1>4 DEF WellFormed, MadeOf
<1>6. ASSUME NEW r \in rows
      PROVE  /\ r.event \in Emitted
             /\ key = <<r.event.trader, c.symbol, key[3]>>
  <2>1. r.event \in Emitted
    BY <1>1 DEF Received, Group
  <2>2. r.event.symbol = c.symbol
    BY <2>1, EmittedEvents
  <2>3. <<r.event.trader, r.event.symbol, WindowStart(r.event.t)>> = key
    BY DEF KeyOf, Group
  <2> QED
    BY <2>1, <2>2, <2>3
<1>7. IsFiniteSet(rows) /\ rows # {} /\ f \in FirstPx(Priced(rows))
      /\ l \in LastPx(Priced(rows)) /\ g = Features(rows, key, f, l)
  BY <1>4 DEF MadeOf
<1> HIDE DEF rows
<1>8. PICK r \in rows : TRUE
  BY <1>7
<1>9. key = <<g.trader, c.symbol, g.windowStart>>
  <2>1. key = <<r.event.trader, c.symbol, key[3]>>
    BY <1>6
  <2> QED
    BY <1>5, <2>1
<1>10. \A q \in rows : q.event.trader = g.trader
  <2> TAKE q \in rows
  <2>1. key = <<q.event.trader, c.symbol, key[3]>>
    BY <1>6
  <2> QED
    BY <1>5, <2>1
<1>11. rows = Group(to_silver(to_bronze(T)), <<g.trader, c.symbol, g.windowStart>>)
  BY <1>9 DEF rows, S
<1>12. AllMeasured(rows) /\ OneRowEach(rows)
  BY <1>1 DEF AllMeasured, OneRowEach, Group, rows
<1>13. {q.event : q \in rows} = Share(T, g.trader, g.windowStart)
  <2>1. \A e \in Received(T) :
            KeyOf(e) = key <=> e.trader = g.trader /\ WindowStart(e.t) = g.windowStart
    <3> TAKE e \in Received(T)
    <3>1. e.symbol = c.symbol
      BY EmittedEvents DEF Received
    <3> QED
      BY <1>9, <3>1 DEF KeyOf
  <2>2. {q.event : q \in rows} = {e \in Received(T) : KeyOf(e) = key}
    BY <1>1 DEF rows, Group
  <2> QED
    BY <2>1, <2>2 DEF Share
<1>14. Ordinary(rows)
  <2>1. \A q \in rows : Whole(q.event)
    BY <1>6, EmittedEvents
  <2> QED
    BY <2>1, WholeIsOrdinary
<1> QED
  BY <1>5, <1>6, <1>7, <1>9, <1>10, <1>11, <1>12, <1>13, <1>14 DEF GoldOf

(* The state stays well formed at every moment of the delivery: the raw     *)
(* table holds the scenario's events only, and what to_gold makes of it is  *)
(* a row of the abuser or of his client that the detectors can score.       *)
THEOREM TypeCorrect == Spec => []TypeOK
<1>1. IInv => TypeOK
  <2> SUFFICES ASSUME IInv PROVE TypeOK
    OBVIOUS
  <2>1. PICK c : MadeFor(c)
    BY DEF IInv
  <2>2. raw \subseteq {Row(e, k) : e \in Emitted, k \in {1, 2}}
                      \cup {Row([e EXCEPT !.side = NoSide], 0) : e \in Emitted}
    <3>1. \A e \in Emitted : /\ Row(e, 1) \in {Row(d, k) : d \in Emitted, k \in {1, 2}}
                             /\ Row(e, 2) \in {Row(d, k) : d \in Emitted, k \in {1, 2}}
      OBVIOUS
    <3> QED
      BY <3>1 DEF IInv, Arrived, Incomplete
  <2>3. ASSUME NEW g \in Gold(raw)
        PROVE  /\ IsGoldFeatures(g)
               /\ g.trader \in {Abuser, Client(made.label.sid)}
               /\ g.symbol \in Mids
               /\ g.secsToClose \in (CloseOfDay - DayLen)..CloseOfDay
    <3>1. IsFiniteSet(raw) /\ AllMeasured(raw)
          /\ \A r \in raw : RequiredPresent(r) => r.event \in Received(raw)
      BY <2>1, RawRows DEF IInv
    <3>2. /\ IsGoldFeatures(g)
          /\ g.secsToClose \in (CloseOfDay - DayLen)..CloseOfDay
          /\ \E r \in raw : /\ RequiredPresent(r)
                            /\ <<g.trader, g.symbol, g.windowStart>> = KeyOf(r.event)
      BY <3>1, GoldIsWellFormed
    <3>3. PICK r \in raw : /\ RequiredPresent(r)
                           /\ <<g.trader, g.symbol, g.windowStart>> = KeyOf(r.event)
      BY <3>2
    <3>4. g.trader = r.event.trader /\ g.symbol = r.event.symbol
      BY <3>3 DEF KeyOf
    <3>5. r.event \in Emitted
      BY <3>1, <3>3 DEF Received
    <3>6. /\ r.event.trader \in {Abuser, Client(c.sid)} /\ r.event.symbol = c.symbol
          /\ made.label.sid = c.sid /\ c.symbol \in Mids
      BY <2>1, <3>5, EmittedEvents DEF MadeFor
    <3> QED
      BY <3>2, <3>4, <3>6
  <2> QED
    BY <2>2, <2>3 DEF IInv, TypeOK
<1> QED
  BY <1>1, Invariant, PTL

(* At every moment of the delivery gold is that of the distinct whole       *)
(* events that have arrived: it does not matter how often the bus repeats   *)
(* itself, in which order, or which incomplete events come with them        *)
(* (bronze.py:7, silver.py:34).                                             *)
THEOREM NoiseLeavesNoTrace == Spec => []NoiseIsInvisible
<1>1. IInv => NoiseIsInvisible
  <2> SUFFICES ASSUME IInv PROVE NoiseIsInvisible
    OBVIOUS
  <2>1. PICK c : MadeFor(c)
    BY DEF IInv
  <2> DEFINE S == to_silver(to_bronze(raw))
             T == {Row(e, 1) : e \in Delivered}
  <2>2. /\ IsFiniteSet(S) /\ AllMeasured(S) /\ {r.event : r \in S} = Delivered
        /\ \A q, r \in S : q.event = r.event => q = r
    <3>1. Arrived(raw) /\ Delivered = Received(raw)
      BY DEF IInv, Delivered, Received
    <3> QED
      BY <2>1, <3>1, SilverRows
  <2>3. \A e : Row(e, 1).event = e
    BY Rows
  <2>4. {r.event : r \in T} = Delivered
    BY <2>3
  <2>5. \A q, r \in T : q.event = r.event => q = r
    BY <2>3
  <2>6. Gold(raw) = to_gold(S)
    BY DEF Gold
  <2> HIDE DEF S
  <2>7. NoiseIsInvisible <=> Gold(raw) = to_gold(T)
    BY DEF NoiseIsInvisible
  <2> HIDE DEF T
  <2>8. to_gold(S) = to_gold(T)
    BY <2>2, <2>4, <2>5, GoldOfTheEvents
  <2> QED
    BY <2>6, <2>7, <2>8
<1> QED
  BY <1>1, Invariant, PTL

(* Whatever part of a scenario a row of silver has, its events of one time  *)
(* have one price.                                                          *)
LEMMA OneEdgePrice ==
    ASSUME NEW priced,
           \A q, r \in priced : q.event.t = r.event.t => q.event.price = r.event.price
    PROVE  /\ \A f, h \in FirstPx(priced) : f = h
           /\ \A f, h \in LastPx(priced) : f = h
<1>1. \A at : \A f, h \in PxAt(priced, at) : f = h
  BY DEF PxAt
<1> QED
  BY <1>1 DEF FirstPx, LastPx

(* No tie between prices ever decides what a gold row says, although        *)
(* min_by and max_by leave ties open: whatever part of a scenario has       *)
(* arrived, the row of a trader and window is a function of its events      *)
(* (gold.py to_gold on scenarios.py).                                       *)
THEOREM GoldNeedsNoTieBreak == Spec => []GoldIsDetermined
<1>1. IInv => GoldIsDetermined
  <2> SUFFICES ASSUME IInv, NEW g \in Gold(raw), NEW h \in Gold(raw),
                      g.trader = h.trader, g.windowStart = h.windowStart
               PROVE  g = h
    BY DEF GoldIsDetermined
  <2>1. PICK c : MadeFor(c)
    BY DEF IInv
  <2> DEFINE key == <<g.trader, c.symbol, g.windowStart>>
             rows == Group(to_silver(to_bronze(raw)), key)
             priced == Priced(rows)
  <2>2. PICK f, l : GoldOf(raw, g, c, f, l)
    BY <2>1, GoldParts DEF IInv
  <2>3. PICK f2, l2 : GoldOf(raw, h, c, f2, l2)
    BY <2>1, GoldParts DEF IInv
  <2>4. /\ f \in FirstPx(priced) /\ l \in LastPx(priced)
        /\ g = Features(rows, key, f, l)
        /\ \A r \in rows : r.event \in Emitted /\ r.event.trader = g.trader
    BY <2>2 DEF GoldOf
  <2>5. /\ f2 \in FirstPx(priced) /\ l2 \in LastPx(priced)
        /\ h = Features(rows, key, f2, l2)
    BY <2>3 DEF GoldOf
  <2> HIDE DEF key, rows
  <2>6. \A q, r \in priced : q.event.t = r.event.t => q.event.price = r.event.price
    <3>1. Untied(Emitted)
      BY <2>1, EmittedEvents
    <3> QED
      BY <2>4, <3>1 DEF Untied, Priced
  <2> HIDE DEF priced
  <2>7. f = f2 /\ l = l2
    BY <2>4, <2>5, <2>6, OneEdgePrice
  <2> QED
    BY <2>4, <2>5, <2>7
<1> QED
  BY <1>1, Invariant, PTL

(* Whoever is alerted is the abuser: the client's flow buys at one price.   *)
LEMMA AbuserFires ==
    ASSUME NEW c, MadeFor(c), NEW T, Arrived(T),
           NEW d \in Detector, NEW g \in Gold(T), fires(d, g)
    PROVE  g.trader = Abuser
<1> SUFFICES ASSUME g.trader # Abuser PROVE FALSE
  OBVIOUS
<1>2. PICK f, l : GoldOf(T, g, c, f, l)
  BY GoldParts
<1> DEFINE key == <<g.trader, c.symbol, g.windowStart>>
           rows == Group(to_silver(to_bronze(T)), key)
<1>3. /\ IsFiniteSet(rows) /\ rows # {}
      /\ \A r \in rows : r.event \in Emitted /\ r.event.trader = g.trader
      /\ f \in FirstPx(Priced(rows)) /\ l \in LastPx(Priced(rows))
      /\ g = Features(rows, key, f, l) /\ IsGoldFeatures(g)
  BY <1>2 DEF GoldOf
<1> HIDE DEF key, rows
<1>4. c.mid \in Nat \ {0}
  BY ContextParts DEF MadeFor
<1>5. ASSUME NEW r \in rows
      PROVE  /\ r.event.side = "BUY" /\ r.event.msg # "CANCEL"
             /\ r.event.price \in {NoPrice, c.mid}
  <2>1. r.event.trader = Client(c.sid)
    BY <1>3, EmittedEvents
  <2>2. Flow(r.event, c)
    BY <1>3, EmittedEvents
  <2> QED
    BY <2>1, <2>2 DEF Flow
<1> DEFINE px == c.mid
<1> HIDE DEF px
<1>6. /\ px \in Nat \ {0}
      /\ \A r \in rows : /\ r.event.side = "BUY" /\ r.event.msg # "CANCEL"
                         /\ r.event.price \in {NoPrice, px}
  BY <1>4, <1>5 DEF px
<1> QED
  BY <1>6, <1>3, BuyingIsQuiet

(* Only the abuser is ever alerted: the client whose order is front-run is  *)
(* not, whatever part of the client's flow has arrived (front_running and   *)
(* the five detectors).                                                     *)
THEOREM AbuserAlone == Spec => []OnlyTheAbuser
<1>1. IInv => OnlyTheAbuser
  BY AbuserFires DEF IInv, OnlyTheAbuser, Alerts
<1> QED
  BY <1>1, Invariant, PTL

-----------------------------------------------------------------------------
(* Which detector alerts *)

(* The gold row g of the abuser, and the rows it is made of.                *)
AbuserRow(T, g, c, rows, key, f, l) ==
    /\ Describes(g, rows, key, f, l) /\ OfAbuser(rows, Emitted, c)
    /\ {r.event : r \in rows} = Share(T, Abuser, g.windowStart)
    /\ g.symbol = c.symbol

(* The rows of an abuser's gold row.                                        *)
LEMMA AbuserRows ==
    ASSUME NEW c, MadeFor(c), NEW T, Arrived(T), NEW g \in Gold(T), g.trader = Abuser
    PROVE  \E rows, key, f, l : AbuserRow(T, g, c, rows, key, f, l)
<1>1. PICK f, l : GoldOf(T, g, c, f, l)
  BY GoldParts
<1> DEFINE key == <<g.trader, c.symbol, g.windowStart>>
           rows == Group(to_silver(to_bronze(T)), key)
<1>2. Describes(g, rows, key, f, l)
  BY <1>1 DEF GoldOf, Describes
<1>3. OfAbuser(rows, Emitted, c)
  BY <1>1 DEF GoldOf, OfAbuser, MadeFor
<1>4. {r.event : r \in rows} = Share(T, Abuser, g.windowStart)
  BY <1>1 DEF GoldOf
<1>5. key[2] = c.symbol
  OBVIOUS
<1> HIDE DEF key, rows
<1>6. g.symbol = c.symbol
  BY <1>2, <1>5 DEF Describes, Features
<1> QED
  BY <1>2, <1>3, <1>4, <1>6 DEF AbuserRow

(* The instruments are cheap enough for five cents to show.                 *)
LEMMA PricesShow ==
    ASSUME NEW c, MadeFor(c) PROVE IsContext(c) /\ FiveCentsShow(c.mid)
<1>1. IsContext(c) /\ c.mid = c.symbol /\ c.symbol \in Mids
  BY ContextParts DEF MadeFor
<1> QED
  BY <1>1, SurveillanceAssumption DEF SurveillanceAssumption, FiveCentsShow

(* What the abuser has done, by archetype.                                  *)
LEMMA AbuserDoes ==
    ASSUME NEW c, MadeFor(c)
    PROVE  /\ type = "SPOOFING" => SpoofingDeeds(Emitted, c)
           /\ type = "WASH_TRADE" => WashDeeds(Emitted, c)
           /\ type = "FRONT_RUNNING" => FrontDeeds(Emitted, c)
           /\ type = "MOMENTUM_IGNITION" => MomentumDeeds(Emitted, c)
           /\ type = "MARKING_THE_CLOSE" => MarkingDeeds(Emitted, c)
<1>1. Emitted = Range(made.events) /\ made = Scenario(type, c)
  BY EmittedEvents DEF MadeFor
<1>2. /\ type = "SPOOFING" => made = spoofing(c)
      /\ type = "WASH_TRADE" => made = wash_trade(c)
      /\ type = "FRONT_RUNNING" => made = front_running(c)
      /\ type = "MOMENTUM_IGNITION" => made = momentum_ignition(c)
      /\ type = "MARKING_THE_CLOSE" => made = marking_the_close(c)
  BY <1>1 DEF Scenario
<1> QED
  BY <1>1, <1>2, SpoofingDoes, WashDoes, FrontDoes, MomentumDoes, MarkingDoes

(* Only the detector of the archetype, and near the close that of marking   *)
(* it, alerts on what the abuser did, whatever part of it is there.         *)
LEMMA OwnOrMark ==
    ASSUME NEW c, MadeFor(c), type \in Detector,
           NEW g, NEW rows, NEW key, NEW f, NEW l, Describes(g, rows, key, f, l),
           OfAbuser(rows, Emitted, c), NEW d \in Detector, fires(d, g)
    PROVE  d = type \/ d = "MARKING_THE_CLOSE"
<1>1. IsContext(c) /\ FiveCentsShow(c.mid)
  BY PricesShow
<1>2. CASE type = "SPOOFING"
  BY <1>2, AbuserDoes, SpoofingAlone
<1>3. CASE type = "WASH_TRADE"
  BY <1>1, <1>3, AbuserDoes, WashAlone
<1>4. CASE type = "FRONT_RUNNING"
  BY <1>1, <1>4, AbuserDoes, FrontAlone
<1>5. CASE type = "MOMENTUM_IGNITION"
  BY <1>1, <1>5, AbuserDoes, MomentumAlone
<1>6. CASE type = "MARKING_THE_CLOSE"
  BY <1>6, AbuserDoes, MarkingAlone
<1> QED
  BY <1>2, <1>3, <1>4, <1>5, <1>6 DEF Detector

(* Away from the close no other detector ever alerts, whatever part of the  *)
(* scenario has arrived or fell into the window: layering is no burst, a    *)
(* burst no round trip, and a round trip either gains or does not           *)
(* (DetectorIsolationSpec, "and the others stay silent").                   *)
THEOREM OthersAreSilent == Spec => []OthersStayQuiet
<1>1. IInv => OthersStayQuiet
  <2> SUFFICES ASSUME IInv, ~NearClose, NEW d \in Detector, NEW g \in Gold(raw),
                      fires(d, g)
               PROVE  d = type
    BY DEF OthersStayQuiet, Alerts
  <2>1. PICK c : MadeFor(c)
    BY DEF IInv
  <2>2. g.trader = Abuser
    BY <2>1, AbuserFires DEF IInv
  <2>3. PICK rows, key, f, l : AbuserRow(raw, g, c, rows, key, f, l)
    BY <2>1, <2>2, AbuserRows DEF IInv
  <2>4. Describes(g, rows, key, f, l) /\ OfAbuser(rows, Emitted, c)
    BY <2>3 DEF AbuserRow
  <2>5. ~MarkingGate(g)
    <3>1. \A r \in rows : TimeToClose(r.event.t) \notin 0..CloseWindow
      BY <2>4 DEF NearClose, OfAbuser
    <3> QED
      BY <2>4, <3>1, FarFromTheClose
  <2>6. d # "MARKING_THE_CLOSE"
    BY <2>4, <2>5, GatePassed DEF Describes
  <2> QED
    BY <2>1, <2>4, <2>6, OwnOrMark DEF IInv
<1> QED
  BY <1>1, Invariant, PTL

-----------------------------------------------------------------------------
(* A scenario that came wholly through is alerted *)

(* What arrives whole is in a gold row of its trader and window.            *)
LEMMA HasRow ==
    ASSUME NEW c, MadeFor(c), NEW T, Arrived(T), NEW e \in Received(T)
    PROVE  \E g \in Gold(T) : /\ g.trader = e.trader /\ g.symbol = e.symbol
                              /\ g.windowStart = WindowStart(e.t)
<1> DEFINE S == to_silver(to_bronze(T))
<1>1. IsFiniteSet(S) /\ AllMeasured(S) /\ {r.event : r \in S} = Received(T)
  BY SilverRows
<1>2. Gold(T) = to_gold(S)
  BY DEF Gold
<1> HIDE DEF S
<1>3. PICK r \in S : r.event = e
  BY <1>1
<1>4. PICK g \in to_gold(S) : <<g.trader, g.symbol, g.windowStart>> = KeyOf(r.event)
  BY <1>1, GoldCovers
<1>5. g.trader = e.trader /\ g.symbol = e.symbol /\ g.windowStart = WindowStart(e.t)
  BY <1>3, <1>4 DEF KeyOf
<1> QED
  BY <1>2, <1>5

(* The abuser does something.                                               *)
LEMMA AbuserActs ==
    ASSUME NEW c, MadeFor(c), type \in Detector
    PROVE  \E e \in Emitted : e.trader = Abuser
<1>1. c.trader = Abuser
  BY DEF MadeFor
<1>2. CASE type = "SPOOFING"
  BY <1>1, <1>2, AbuserDoes DEF SpoofingDeeds, Deed
<1>3. CASE type = "WASH_TRADE"
  BY <1>1, <1>3, AbuserDoes DEF WashDeeds, Deed
<1>4. CASE type = "FRONT_RUNNING"
  BY <1>1, <1>4, AbuserDoes DEF FrontDeeds, Deed
<1>5. CASE type = "MOMENTUM_IGNITION"
  BY <1>1, <1>5, AbuserDoes DEF MomentumDeeds, Deed
<1>6. CASE type = "MARKING_THE_CLOSE"
  BY <1>1, <1>6, AbuserDoes DEF MarkingDeeds, Deed
<1> QED
  BY <1>2, <1>3, <1>4, <1>5, <1>6 DEF Detector

(* A close marked a minute before it is marked within that minute.          *)
LEMMA MarkedInTime ==
    ASSUME NEW c, MadeFor(c), type = "MARKING_THE_CLOSE", AtTheClose,
           NEW e \in Emitted
    PROVE  0 <= TimeToClose(e.t) /\ TimeToClose(e.t) <= 60 * Second
<1>1. MarkingDeeds(Emitted, c) /\ IsContext(c) /\ made.label.start = c.t0 /\ c.t0 \in Nat
  BY AbuserDoes DEF MadeFor, Faithful, IsContext
<1> DEFINE v == TimeToClose(c.t0)
<1>2. v \in Int /\ 5000 <= v /\ v <= 60 * Second
  <2>1. v \in (50 * Second)..(60 * Second) /\ Second = 100
    BY <1>1, SurveillanceAssumption DEF AtTheClose, SurveillanceAssumption
  <2> HIDE DEF v
  <2> QED
    BY <2>1
<1>3. ASSUME NEW at, at \in 0..3075, e.t = c.t0 + at
      PROVE  0 <= TimeToClose(e.t) /\ TimeToClose(e.t) <= 60 * Second
  <2>1. at \in Nat /\ at <= 3075
    BY <1>3
  <2>2. at < v
    BY <1>2, <2>1
  <2>3. TimeToClose(e.t) = v - at
    BY <1>1, <1>3, <2>1, <2>2, TimeRunsDown
  <2>4. Second = 100
    BY SurveillanceAssumption DEF SurveillanceAssumption
  <2> HIDE DEF v
  <2> QED
    BY <1>2, <2>1, <2>2, <2>3, <2>4
<1>4. PICK o, fill, x :
        /\ Emitted = {o[k] : k \in 1..3} \cup {fill} \cup {x[k] : k \in 1..2}
        /\ \A k \in 1..3 : o[k].t = c.t0 + 1500 * (k - 1)
        /\ fill.t = c.t0 + 3050
        /\ \A k \in 1..2 : x[k].t = c.t0 + (3070 + 5 * (k - 1))
  BY <1>1 DEF MarkingDeeds, Deed
<1>5. CASE e = fill
  <2>1. 3050 \in 0..3075 /\ e.t = c.t0 + 3050
    BY <1>4, <1>5
  <2> QED
    BY <1>3, <2>1
<1>6. CASE \E k \in 1..3 : e = o[k]
  <2>1. PICK k \in 1..3 : e = o[k]
    BY <1>6
  <2>2. 1500 * (k - 1) \in 0..3075 /\ e.t = c.t0 + 1500 * (k - 1)
    BY <1>4, <2>1
  <2> QED
    BY <1>3, <2>2
<1>7. CASE \E k \in 1..2 : e = x[k]
  <2>1. PICK k \in 1..2 : e = x[k]
    BY <1>7
  <2>2. 3070 + 5 * (k - 1) \in 0..3075 /\ e.t = c.t0 + (3070 + 5 * (k - 1))
    BY <1>4, <2>1
  <2> QED
    BY <1>3, <2>2
<1> QED
  BY <1>4, <1>5, <1>6, <1>7

(* All that the abuser does in one window is alerted by the detector of the *)
(* archetype, with a severity that is reported.                             *)
LEMMA WholeFires ==
    ASSUME NEW c, MadeFor(c), type \in Detector, type = "MARKING_THE_CLOSE" => AtTheClose,
           NEW g, NEW rows, NEW key, NEW f, NEW l, Describes(g, rows, key, f, l),
           OfAbuser(rows, Emitted, c), Covers(rows, Emitted, c)
    PROVE  fires(type, g) /\ severity(type, g) >= 4
<1>1. IsContext(c) /\ FiveCentsShow(c.mid)
  BY PricesShow
<1>2. CASE type = "SPOOFING"
  BY <1>2, AbuserDoes, SpoofingWhole
<1>3. CASE type = "WASH_TRADE"
  BY <1>1, <1>3, AbuserDoes, WashWhole
<1>4. CASE type = "FRONT_RUNNING"
  BY <1>1, <1>4, AbuserDoes, FrontWhole
<1>5. CASE type = "MOMENTUM_IGNITION"
  BY <1>1, <1>5, AbuserDoes, MomentumWhole
<1>6. CASE type = "MARKING_THE_CLOSE"
  <2>1. PICK r \in rows : g.secsToClose = TimeToClose(r.event.t)
    BY SecsOfRow
  <2>2. r.event \in Emitted
    BY DEF OfAbuser
  <2>3. 0 <= g.secsToClose /\ g.secsToClose <= 60 * Second
    BY <1>6, <2>1, <2>2, MarkedInTime
  <2> QED
    BY <1>1, <1>6, <2>3, AbuserDoes, MarkingWhole
<1> QED
  BY <1>2, <1>3, <1>4, <1>5, <1>6 DEF Detector

(* A scenario that fell into one window and came wholly through is alerted  *)
(* by its own detector, with a severity of 4 or 5, whichever values were    *)
(* drawn, in whatever order it came and with whatever noise                 *)
(* (DetectorIsolationSpec, "fires on its own archetype").                   *)
THEOREM OwnFires == Spec => []OwnDetectorFires
<1>1. IInv => OwnDetectorFires
  <2> SUFFICES ASSUME IInv, Delivered = Emitted, InOneWindow,
                      type = "MARKING_THE_CLOSE" => AtTheClose
               PROVE  \E a \in Alerts(Gold(raw)) :
                          /\ a.detector = type /\ a.trader = Abuser
                          /\ a.severity >= 4
    BY DEF OwnDetectorFires
  <2>1. PICK c : MadeFor(c)
    BY DEF IInv
  <2>2. type \in Detector /\ Arrived(raw) /\ Received(raw) = Emitted /\ c.trader = Abuser
    BY <2>1 DEF IInv, Delivered, Received, MadeFor
  <2>3. PICK e \in Emitted : e.trader = Abuser
    BY <2>1, <2>2, AbuserActs
  <2>4. PICK g \in Gold(raw) : g.trader = Abuser /\ g.windowStart = WindowStart(e.t)
    BY <2>1, <2>2, <2>3, HasRow
  <2>5. PICK rows, key, f, l : AbuserRow(raw, g, c, rows, key, f, l)
    BY <2>1, <2>2, <2>4, AbuserRows
  <2>6. Describes(g, rows, key, f, l) /\ OfAbuser(rows, Emitted, c)
    BY <2>5 DEF AbuserRow
  <2>7. Covers(rows, Emitted, c)
    <3> SUFFICES ASSUME NEW d \in Emitted, d.trader = c.trader
                 PROVE  \E r \in rows : r.event = d
      BY DEF Covers
    <3>1. WindowStart(d.t) = g.windowStart
      BY <2>4 DEF InOneWindow
    <3>2. d \in Share(raw, Abuser, g.windowStart)
      BY <2>2, <3>1 DEF Share
    <3> QED
      BY <2>5, <3>2 DEF AbuserRow
  <2>8. fires(type, g) /\ severity(type, g) >= 4
    BY <2>1, <2>2, <2>6, <2>7, WholeFires
  <2> DEFINE a == [detector |-> type, trader |-> g.trader, symbol |-> g.symbol,
                   windowStart |-> g.windowStart, severity |-> severity(type, g)]
             p == <<type, g>>
  <2>9. p \in {q \in Detector \X Gold(raw) : fires(q[1], q[2])}
    BY <2>2, <2>4, <2>8
  <2>10. a \in Alerts(Gold(raw))
    BY <2>9 DEF Alerts
  <2>11. a.detector = type /\ a.trader = Abuser /\ a.severity >= 4
    BY <2>4, <2>8
  <2> HIDE DEF a
  <2> QED
    BY <2>10, <2>11
<1> QED
  BY <1>1, Invariant, PTL

-----------------------------------------------------------------------------
(* An alert stands *)

(* The abuser's rows of one window, before and after more has arrived: g is *)
(* what gold made of the first, h what it makes of the second.              *)
Grown(c, g, rows, key, f, l, h, more, k2, f2, l2) ==
    /\ Describes(g, rows, key, f, l) /\ OfAbuser(rows, Emitted, c)
    /\ Describes(h, more, k2, f2, l2) /\ OfAbuser(more, Emitted, c)
    /\ Extends(rows, more)
    /\ h.trader = g.trader /\ h.symbol = g.symbol /\ h.windowStart = g.windowStart
    /\ \A r \in rows : WindowStart(r.event.t) = g.windowStart
    /\ \A r \in more : WindowStart(r.event.t) = g.windowStart

(* A gold row of the abuser grows with the table.                           *)
LEMMA GoldGrows ==
    ASSUME NEW c, MadeFor(c), NEW T, Arrived(T), NEW U, Arrived(U), T \subseteq U,
           NEW g \in Gold(T), g.trader = Abuser
    PROVE  \E h \in Gold(U) : \E rows, key, f, l, more, k2, f2, l2 :
               Grown(c, g, rows, key, f, l, h, more, k2, f2, l2)
<1>1. PICK rows, key, f, l : AbuserRow(T, g, c, rows, key, f, l)
  BY AbuserRows
<1>2. Describes(g, rows, key, f, l) /\ OfAbuser(rows, Emitted, c) /\ g.symbol = c.symbol
      /\ {r.event : r \in rows} = Share(T, Abuser, g.windowStart)
  BY <1>1 DEF AbuserRow
<1>3. PICK r \in rows : TRUE
  BY <1>2 DEF Describes
<1>4. r.event \in Received(U) /\ r.event.trader = Abuser
      /\ WindowStart(r.event.t) = g.windowStart
  BY <1>2 DEF Share, Received
<1>5. PICK h \in Gold(U) : h.trader = Abuser /\ h.windowStart = g.windowStart
  BY <1>4, HasRow
<1>6. PICK more, k2, f2, l2 : AbuserRow(U, h, c, more, k2, f2, l2)
  BY <1>5, AbuserRows
<1>7. Describes(h, more, k2, f2, l2) /\ OfAbuser(more, Emitted, c) /\ h.symbol = c.symbol
      /\ {q.event : q \in more} = Share(U, Abuser, g.windowStart)
  BY <1>5, <1>6 DEF AbuserRow
<1>8. Share(T, Abuser, g.windowStart) \subseteq Share(U, Abuser, g.windowStart)
  BY DEF Share, Received
<1>9. Extends(rows, more)
  BY <1>2, <1>7, <1>8 DEF Extends
<1>10. /\ \A q \in rows : WindowStart(q.event.t) = g.windowStart
       /\ \A q \in more : WindowStart(q.event.t) = g.windowStart
  BY <1>2, <1>7 DEF Share
<1>11. Grown(c, g, rows, key, f, l, h, more, k2, f2, l2)
  BY <1>2, <1>5, <1>7, <1>9, <1>10 DEF Grown
<1> QED
  BY <1>5, <1>11

(* An alert of the archetype's own detector outlives what arrives later: a  *)
(* layered book keeps its cancels, a round trip was whole, a burst goes on. *)
LEMMA OwnStands ==
    ASSUME NEW c, MadeFor(c), NEW g, NEW rows, NEW key, NEW f, NEW l,
           NEW h, NEW more, NEW k2, NEW f2, NEW l2,
           Grown(c, g, rows, key, f, l, h, more, k2, f2, l2), Sized(more),
           type \in Detector \ {"MARKING_THE_CLOSE"}, fires(type, g)
    PROVE  fires(type, h)
<1>1. IsContext(c) /\ FiveCentsShow(c.mid)
  BY PricesShow
<1>2. /\ Describes(g, rows, key, f, l) /\ OfAbuser(rows, Emitted, c)
      /\ Describes(h, more, k2, f2, l2) /\ OfAbuser(more, Emitted, c)
      /\ Extends(rows, more)
  BY DEF Grown
<1>3. CASE type = "SPOOFING"
  BY <1>2, <1>3, AbuserDoes, SpoofingStands
<1>4. CASE type = "WASH_TRADE"
  <2>1. Covers(rows, Emitted, c)
    BY <1>2, <1>4, AbuserDoes, WashCovers
  <2>2. Covers(more, Emitted, c)
    BY <1>2, <2>1, StillCovers
  <2> QED
    BY <1>1, <1>2, <1>4, <2>2, AbuserDoes, WashWhole
<1>5. CASE type = "FRONT_RUNNING"
  <2>1. Covers(rows, Emitted, c)
    BY <1>1, <1>2, <1>5, AbuserDoes, FrontCovers
  <2>2. Covers(more, Emitted, c)
    BY <1>2, <2>1, StillCovers
  <2> QED
    BY <1>1, <1>2, <1>5, <2>2, AbuserDoes, FrontWhole
<1>6. CASE type = "MOMENTUM_IGNITION"
  BY <1>1, <1>2, <1>6, AbuserDoes, MomentumStands
<1> QED
  BY <1>3, <1>4, <1>5, <1>6 DEF Detector

(* The prices of the abuser are near mid; but for a layered book they rise. *)
LEMMA AbuserPrices ==
    ASSUME NEW c, MadeFor(c), type \in Detector, NEW rows, OfAbuser(rows, Emitted, c)
    PROVE  PricedNear(rows, c.mid) /\ (type # "SPOOFING" => Rising(rows))
<1>1. IsContext(c)
  BY PricesShow
<1>2. CASE type = "SPOOFING"
  BY <1>1, <1>2, AbuserDoes, SpoofingNear
<1>3. CASE type # "SPOOFING"
  <2>1. Climbing(Emitted, c)
    <3>1. CASE type = "WASH_TRADE"
      BY <1>1, <3>1, AbuserDoes, WashClimbs
    <3>2. CASE type = "FRONT_RUNNING"
      BY <1>1, <3>2, AbuserDoes, FrontClimbs
    <3>3. CASE type = "MOMENTUM_IGNITION"
      BY <1>1, <3>3, AbuserDoes, MomentumClimbs
    <3>4. CASE type = "MARKING_THE_CLOSE"
      BY <1>1, <3>4, AbuserDoes, MarkingClimbs
    <3> QED
      BY <1>3, <3>1, <3>2, <3>3, <3>4 DEF Detector
  <2> QED
    BY <2>1, ClimbingRows
<1> QED
  BY <1>2, <1>3

(* An alert for a marked close outlives what arrives later: the price goes  *)
(* on rising, and the window lies before the close.                         *)
LEMMA MarkStands ==
    ASSUME NEW c, MadeFor(c), NEW g, NEW rows, NEW key, NEW f, NEW l,
           NEW h, NEW more, NEW k2, NEW f2, NEW l2,
           Grown(c, g, rows, key, f, l, h, more, k2, f2, l2), Sized(more),
           type \in Detector, fires("MARKING_THE_CLOSE", g)
    PROVE  fires("MARKING_THE_CLOSE", h)
<1> DEFINE mid == c.mid
<1>1. IsContext(c) /\ FiveCentsShow(mid) /\ mid \in Nat
  BY PricesShow DEF IsContext
<1>2. /\ Describes(g, rows, key, f, l) /\ OfAbuser(rows, Emitted, c)
      /\ Describes(h, more, k2, f2, l2) /\ OfAbuser(more, Emitted, c)
      /\ Extends(rows, more)
  BY DEF Grown
<1>3. MarkingGate(g)
  BY <1>2, GatePassed DEF Describes, Detector
<1>4. /\ PricedNear(rows, mid) /\ PricedNear(more, mid)
      /\ type # "SPOOFING" => Rising(more)
  BY <1>2, AbuserPrices
<1> HIDE DEF mid
<1>5. Priced(rows) # {} /\ f < l /\ f \in Nat /\ l \in Nat
  BY <1>1, <1>2, <1>3, <1>4, RisesWhen DEF MarkingGate
<1>6. f2 \in Nat /\ l2 \in Nat
  BY <1>1, <1>2, <1>4, RisesWhen
<1>7. EndsHigh(more, f2, l2)
  <2>1. CASE type # "SPOOFING"
    BY <1>2, <1>4, <1>5, <1>6, <2>1, RisingStands
  <2>2. CASE type = "SPOOFING"
    <3>1. \E r \in more : r.event.msg = "EXEC"
      BY <1>2, <1>3, FilledAndBought DEF Extends
    <3>2. \E r \in more : r.event.msg = "NEW" /\ r.event.side = "BUY"
      BY <1>2, <1>3, FilledAndBought DEF Extends
    <3>3. SpoofingDeeds(Emitted, c)
      BY <2>2, AbuserDoes
    <3> QED
      BY <1>1, <1>2, <3>1, <3>2, <3>3, SpoofingEndsHigh
  <2> QED
    BY <2>1, <2>2
<1>8. 0 <= h.secsToClose
  <2>1. Aligned
    BY SurveillanceAssumption DEF SurveillanceAssumption, Aligned
  <2>2. \A q, r \in rows : q.event.t = r.event.t /\ q.event.price # NoPrice
                               /\ r.event.price # NoPrice => q.event.price = r.event.price
    <3>1. Untied(Emitted)
      BY EmittedEvents
    <3> QED
      BY <1>2, <3>1 DEF Untied, OfAbuser
  <2>3. /\ \A q \in rows : \A r \in more : WindowStart(q.event.t) = WindowStart(r.event.t)
        /\ \A q, r \in rows : WindowStart(q.event.t) = WindowStart(r.event.t)
    BY DEF Grown
  <2> QED
    BY <1>1, <1>2, <1>3, <1>4, <2>1, <2>2, <2>3, StillBeforeClose
<1> QED
  BY <1>1, <1>2, <1>3, <1>4, <1>7, <1>8, MarkingStays

(* An alert on a table stands on every larger one.                          *)
LEMMA AlertOutlives ==
    ASSUME NEW c, MadeFor(c), type \in Detector,
           NEW T, Arrived(T), NEW U, Arrived(U), T \subseteq U,
           NEW d \in Detector, NEW g \in Gold(T), fires(d, g)
    PROVE  \E h \in Gold(U) : /\ fires(d, h) /\ h.trader = g.trader
                              /\ h.symbol = g.symbol /\ h.windowStart = g.windowStart
<1>1. g.trader = Abuser
  BY AbuserFires
<1>2. PICK h \in Gold(U) : \E rows, key, f, l, more, k2, f2, l2 :
               Grown(c, g, rows, key, f, l, h, more, k2, f2, l2)
  BY <1>1, GoldGrows
<1>3. PICK rows, key, f, l, more, k2, f2, l2 :
               Grown(c, g, rows, key, f, l, h, more, k2, f2, l2)
  BY <1>2
<1>4. /\ Describes(g, rows, key, f, l) /\ OfAbuser(rows, Emitted, c)
      /\ OfAbuser(more, Emitted, c)
      /\ h.trader = g.trader /\ h.symbol = g.symbol /\ h.windowStart = g.windowStart
  BY <1>3 DEF Grown
<1>5. Sized(more)
  <2>1. \A e \in Emitted : e.qty # 0
    BY EmittedEvents DEF Whole
  <2> QED
    BY <1>4, <2>1 DEF OfAbuser, Sized
<1>6. d = type \/ d = "MARKING_THE_CLOSE"
  BY <1>4, OwnOrMark
<1>7. CASE d = "MARKING_THE_CLOSE"
  BY <1>3, <1>4, <1>5, <1>7, MarkStands
<1>8. CASE d = type /\ d # "MARKING_THE_CLOSE"
  BY <1>3, <1>4, <1>5, <1>8, OwnStands
<1> QED
  BY <1>6, <1>7, <1>8

(* No alert is ever taken back: what was raised on a part of a window       *)
(* stands when more of it arrives, whatever the part, the order of arrival, *)
(* the repetitions and the incomplete events in between (to_gold and the    *)
(* detectors; AlertId is the hash of detector, trader, symbol and window).  *)
THEOREM AlertsRemain == Spec => AlertsStand
<1>1. IInv /\ [Next]_vars
         => {AlertId(a) : a \in Alerts(Gold(raw))}
               \subseteq {AlertId(a) : a \in Alerts(Gold(raw'))}
  <2> SUFFICES ASSUME IInv, [Next]_vars, NEW a \in Alerts(Gold(raw))
               PROVE  \E b \in Alerts(Gold(raw')) : AlertId(a) = AlertId(b)
    OBVIOUS
  <2>1. PICK c : MadeFor(c)
    BY DEF IInv
  <2>2. type \in Detector /\ Arrived(raw)
    BY DEF IInv
  <2>3. Arrived(raw') /\ raw \subseteq raw'
    <3>1. CASE UNCHANGED vars
      BY <2>2, <3>1 DEF vars
    <3>2. CASE Next
      <4>1. PICK e \in Emitted : Deliver(e) \/ Redeliver(e) \/ DeliverIncomplete(e)
        BY <3>2 DEF Next
      <4>2. made' = made /\ raw \subseteq raw'
        BY <4>1 DEF Deliver, Redeliver, DeliverIncomplete
      <4>3. IInv'
        BY <4>1, DeliverInv, RedeliverInv, IncompleteInv
      <4>4. Emitted' = Emitted
        BY <4>2 DEF Emitted
      <4> QED
        BY <4>2, <4>3, <4>4 DEF IInv, Arrived
    <3> QED
      BY <3>1, <3>2
  <2>4. PICK p \in {q \in Detector \X Gold(raw) : fires(q[1], q[2])} :
            a = [detector |-> p[1], trader |-> p[2].trader, symbol |-> p[2].symbol,
                 windowStart |-> p[2].windowStart, severity |-> severity(p[1], p[2])]
    BY DEF Alerts
  <2> DEFINE d == p[1]
             g == p[2]
  <2>5. d \in Detector /\ g \in Gold(raw) /\ fires(d, g)
    BY <2>4
  <2>6. AlertId(a) = <<d, g.trader, g.symbol, g.windowStart>>
    BY <2>4 DEF AlertId
  <2> HIDE DEF d, g
  <2>7. PICK h \in Gold(raw') : /\ fires(d, h) /\ h.trader = g.trader
                               /\ h.symbol = g.symbol /\ h.windowStart = g.windowStart
    BY <2>1, <2>2, <2>3, <2>5, AlertOutlives
  <2> DEFINE b == [detector |-> d, trader |-> h.trader, symbol |-> h.symbol,
                   windowStart |-> h.windowStart, severity |-> severity(d, h)]
             q == <<d, h>>
  <2>8. q \in {x \in Detector \X Gold(raw') : fires(x[1], x[2])}
    BY <2>5, <2>7
  <2>9. b \in Alerts(Gold(raw'))
    BY <2>8 DEF Alerts
  <2>10. AlertId(b) = <<d, h.trader, h.symbol, h.windowStart>>
    BY DEF AlertId
  <2> HIDE DEF b
  <2> QED
    BY <2>6, <2>7, <2>9, <2>10
<1> QED
  BY <1>1, Invariant, PTL DEF Spec, AlertsStand

===============================================================================
