--------------------------- MODULE RunningQtyProofs ---------------------------
(***************************************************************************)
(* Every order is counted once, for any orders, batches and interruptions: *)
(* the invariant behind it, and the running totals it promises.            *)
(***************************************************************************)
EXTENDS RunningQty, DataLemmas

(* What the invariants say of the control alone.                            *)
LEMMA Control ==
    ASSUME TypeOK
    PROVE  /\ input \in Seq(Order)
           /\ Len(input) \in Nat /\ DOMAIN input = 1..Len(input)
           /\ committed \in Nat /\ planned \in Nat /\ sinkEnd \in Nat
           /\ committed <= planned /\ planned <= Len(input)
           /\ committed <= sinkEnd /\ sinkEnd <= planned
           /\ \A k \in 1..Len(input) : input[k].instrument \in Instrument
                                         /\ input[k].qty \in Int
<1>1. input \in Seq(Order) /\ Len(input) \in Nat /\ DOMAIN input = 1..Len(input)
  BY DEF TypeOK
<1>2. /\ committed \in Nat /\ planned \in Nat /\ sinkEnd \in Nat
      /\ committed <= planned /\ planned <= Len(input)
      /\ committed <= sinkEnd /\ sinkEnd <= planned
  BY <1>1 DEF TypeOK
<1>3. ASSUME NEW k \in 1..Len(input)
      PROVE  input[k].instrument \in Instrument /\ input[k].qty \in Int
  <2>1. input[k] \in Order
    BY <1>1
  <2> QED
    BY <2>1, RunningAssumption DEF Order, RunningAssumption
<1> QED
  BY <1>1, <1>2, <1>3

-----------------------------------------------------------------------------
(* The totals at an offset *)

Rows(orders, n, key) == {k \in 1..n : orders[k].instrument = key}

(* The parts of a sequence of orders.                                       *)
LEMMA OrderType ==
    ASSUME NEW orders \in Seq(Order)
    PROVE  /\ Len(orders) \in Nat /\ DOMAIN orders = 1..Len(orders)
           /\ \A k \in 1..Len(orders) : /\ orders[k] \in Order
                                        /\ orders[k].instrument \in Instrument
                                        /\ orders[k].qty \in Int
<1>1. Len(orders) \in Nat /\ DOMAIN orders = 1..Len(orders)
  OBVIOUS
<1>2. ASSUME NEW k \in 1..Len(orders)
      PROVE  /\ orders[k] \in Order
             /\ orders[k].instrument \in Instrument /\ orders[k].qty \in Int
  <2>1. orders[k] \in Order
    BY <1>1
  <2> QED
    BY <2>1, RunningAssumption DEF Order, RunningAssumption
<1> QED
  BY <1>1, <1>2

(* A total is a sum of integers over finitely many rows.                    *)
LEMMA TotalType ==
    ASSUME NEW orders \in Seq(Order), NEW n \in 0..Len(orders), NEW key
    PROVE  /\ IsFiniteSet(Rows(orders, n, key))
           /\ IntOn(qtys(orders), Rows(orders, n, key))
           /\ TotalAt(orders, n, key)
                = SumFunctionOnSet(qtys(orders), Rows(orders, n, key))
           /\ TotalAt(orders, n, key) \in Int
<1> DEFINE R == Rows(orders, n, key)
<1>1. n \in Nat /\ n <= Len(orders)
  BY OrderType
<1>2. IsFiniteSet(1..n) /\ R \in SUBSET (1..n)
  BY <1>1, FS_Interval DEF Rows
<1>3. IsFiniteSet(R)
  BY <1>2, FS_Subset
<1>4. \A k \in R : qtys(orders)[k] \in Int
  BY <1>1, <1>2, OrderType DEF qtys
<1>5. IntOn(qtys(orders), R)
  BY <1>4 DEF IntOn
<1>6. TotalAt(orders, n, key) = SumFunctionOnSet(qtys(orders), R)
  BY DEF TotalAt, Rows
<1> HIDE DEF R
<1>7. SumFunctionOnSet(qtys(orders), R) \in Int
  BY <1>3, <1>5, SumType
<1> QED
  BY <1>3, <1>4, <1>5, <1>6, <1>7 DEF R

(* From one offset to a later one a total changes by the rows between.      *)
LEMMA TotalMoves ==
    ASSUME NEW orders \in Seq(Order), NEW m \in Nat, NEW n \in Nat,
           m <= n, n <= Len(orders), NEW key
    PROVE  LET between == {k \in (m + 1)..n : orders[k].instrument = key}
           IN  TotalAt(orders, n, key)
                 = TotalAt(orders, m, key) + SumFunctionOnSet(qtys(orders), between)
<1> DEFINE between == {k \in (m + 1)..n : orders[k].instrument = key}
           Q    == qtys(orders)
           A(k) == Rows(orders, k, key)
<1>0. m \in 0..Len(orders) /\ n \in 0..Len(orders)
  BY OrderType
<1>1. A(n) = A(m) \cup between /\ A(m) \cap between = {}
  BY DEF Rows
<1>2. /\ IsFiniteSet(A(n)) /\ IsFiniteSet(A(m))
      /\ IntOn(Q, A(n))
      /\ TotalAt(orders, n, key) = SumFunctionOnSet(Q, A(n))
      /\ TotalAt(orders, m, key) = SumFunctionOnSet(Q, A(m))
  BY <1>0, TotalType
<1> HIDE DEF between, Q, A
<1>3. IsFiniteSet(between)
  BY <1>1, <1>2, FS_Subset
<1>4. SumFunctionOnSet(Q, A(m) \cup between)
        = SumFunctionOnSet(Q, A(m)) + SumFunctionOnSet(Q, between)
  BY <1>1, <1>2, <1>3, SumDisjoint
<1>5. TotalAt(orders, n, key)
        = TotalAt(orders, m, key) + SumFunctionOnSet(Q, between)
  BY <1>1, <1>2, <1>4
<1> QED
  BY <1>5 DEF between, Q

(* A key without orders between two offsets is the same at both, and one    *)
(* without any has a total of zero.                                         *)
LEMMA TotalWithout ==
    ASSUME NEW orders \in Seq(Order), NEW m \in Nat, NEW n \in Nat,
           m <= n, n <= Len(orders), NEW key,
           \A k \in (m + 1)..n : orders[k].instrument # key
    PROVE  /\ TotalAt(orders, n, key) = TotalAt(orders, m, key)
           /\ HasOrders(orders, n, key) <=> HasOrders(orders, m, key)
           /\ StateAt(orders, n, key) = StateAt(orders, m, key)
<1> DEFINE between == {k \in (m + 1)..n : orders[k].instrument = key}
<1>1. between = {}
  OBVIOUS
<1>2. TotalAt(orders, n, key)
        = TotalAt(orders, m, key) + SumFunctionOnSet(qtys(orders), between)
  BY TotalMoves
<1>3. m \in 0..Len(orders)
  BY OrderType
<1>4. TotalAt(orders, m, key) \in Int
  BY <1>3, TotalType
<1> HIDE DEF between
<1>5. TotalAt(orders, n, key) = TotalAt(orders, m, key)
  BY <1>1, <1>2, <1>4, SumEmpty
<1>6. HasOrders(orders, n, key) <=> HasOrders(orders, m, key)
  BY DEF HasOrders
<1> QED
  BY <1>5, <1>6 DEF StateAt

(* A key without orders has a total of zero.                                *)
LEMMA TotalZero ==
    ASSUME NEW orders \in Seq(Order), NEW n \in 0..Len(orders), NEW key,
           ~HasOrders(orders, n, key)
    PROVE  TotalAt(orders, n, key) = 0
<1>1. Rows(orders, n, key) = {}
  BY DEF Rows, HasOrders
<1> QED
  BY <1>1, TotalType, SumEmpty

(* What comes after an offset does not count at it.                         *)
LEMMA TotalOfPrefix ==
    ASSUME NEW orders \in Seq(Order), NEW more \in Seq(Order),
           NEW n \in Nat, n <= Len(orders), n <= Len(more),
           \A k \in 1..n : more[k] = orders[k], NEW key
    PROVE  /\ HasOrders(more, n, key) <=> HasOrders(orders, n, key)
           /\ TotalAt(more, n, key) = TotalAt(orders, n, key)
           /\ StateAt(more, n, key) = StateAt(orders, n, key)
<1> DEFINE R == Rows(orders, n, key)
<1>1. n \in 0..Len(orders) /\ n \in 0..Len(more)
  BY OrderType
<1>2. Rows(more, n, key) = R
  BY DEF Rows
<1>3. \A k \in R : qtys(orders)[k] = qtys(more)[k]
  BY <1>1, OrderType DEF qtys, Rows
<1>4. /\ IsFiniteSet(R) /\ IntOn(qtys(orders), R)
      /\ TotalAt(orders, n, key) = SumFunctionOnSet(qtys(orders), R)
      /\ TotalAt(more, n, key) = SumFunctionOnSet(qtys(more), R)
  BY <1>1, <1>2, TotalType
<1> HIDE DEF R
<1>5. TotalAt(more, n, key) = TotalAt(orders, n, key)
  BY <1>3, <1>4, SumSame
<1>6. HasOrders(more, n, key) <=> HasOrders(orders, n, key)
  BY DEF HasOrders
<1> QED
  BY <1>5, <1>6 DEF StateAt

(* The state of a key says whether it has orders, and nothing else.         *)
LEMMA StateType ==
    ASSUME NEW orders \in Seq(Order), NEW n \in 0..Len(orders), NEW key
    PROVE  /\ StateAt(orders, n, key) \in Int \cup {NoValue}
           /\ StateAt(orders, n, key) # NoValue <=> HasOrders(orders, n, key)
           /\ TotalAt(orders, n, key)
                = IF StateAt(orders, n, key) # NoValue
                  THEN StateAt(orders, n, key) ELSE 0
BY TotalType, TotalZero, RunningAssumption DEF StateAt, RunningAssumption

-----------------------------------------------------------------------------
(* The invariant, action by action *)

(* Nothing is counted at the start.                                         *)
LEMMA InitInv ==
    ASSUME Init
    PROVE  TypeOK /\ CountedOnce
<1>1. input \in Seq(Order) /\ Len(input) = 0
  BY DEF Init
<1>2. \A key : ~HasOrders(input, 0, key)
  BY DEF HasOrders
<1>3. \A key : StateAt(input, 0, key) = NoValue
  BY <1>2 DEF StateAt
<1>4. TypeOK
  BY <1>1, <1>2 DEF Init, TypeOK
<1>5. CountedOnce
  BY <1>2, <1>3 DEF Init, CountedOnce, Phases, BatchExact, SinkExact, newest
<1> QED
  BY <1>4, <1>5

(* An order that arrives is counted nowhere yet (MemoryStream.addData).     *)
LEMMA AddDataInv ==
    ASSUME TypeOK, CountedOnce, NEW o \in Order, addData(o)
    PROVE  TypeOK' /\ CountedOnce'
<1>1. /\ input' \in Seq(Order) /\ Len(input') = Len(input) + 1
      /\ \A k \in 1..Len(input) : input'[k] = input[k]
      /\ input' = Append(input, o)
  BY DEF TypeOK, addData
<1>2. /\ UNCHANGED <<planned, committed, stored, total, todo, out, sink, sinkEnd, pc>>
  BY DEF addData, log, batch
<1>3. ASSUME NEW n \in 0..Len(input), NEW key
      PROVE  /\ HasOrders(input', n, key) <=> HasOrders(input, n, key)
             /\ TotalAt(input', n, key) = TotalAt(input, n, key)
             /\ StateAt(input', n, key) = StateAt(input, n, key)
  <2>1. n \in Nat /\ n <= Len(input) /\ n <= Len(input')
    BY <1>1, Control
  <2>2. \A k \in 1..n : input'[k] = input[k]
    BY <1>1, <2>1, Control
  <2>3. input \in Seq(Order) /\ input' \in Seq(Order)
    BY <1>1, Control
  <2> QED
    BY <2>1, <2>2, <2>3, TotalOfPrefix
<1>4. committed \in 0..Len(input) /\ planned \in 0..Len(input) /\ sinkEnd \in 0..Len(input)
  BY Control
<1>5. batchKeys' = batchKeys
  <2>1. \A k \in (committed + 1)..planned : input'[k] = input[k]
    BY <1>1, Control
  <2> QED
    BY <1>2, <2>1 DEF batchKeys
<1>6. Phases'
  BY <1>2, <1>5 DEF CountedOnce, Phases
<1>7. \A key \in Instrument : stored'[key] = StateAt(input', committed', key)
  BY <1>2, <1>3, <1>4 DEF CountedOnce
<1>8. BatchExact'
  BY <1>2, <1>3, <1>4, <1>5 DEF CountedOnce, BatchExact
<1>9. SinkExact'
  <2>1. \A key : newest(key)' = newest(key)
    BY <1>2 DEF newest
  <2>2. \A row \in sink : row[1] \in 0..Len(input)
    BY <1>4, Control DEF TypeOK
  <2>3. \A row \in sink : row[3] = TotalAt(input', row[1], row[2])
    BY <1>3, <2>2 DEF CountedOnce, SinkExact
  <2>4. ASSUME NEW key \in Instrument
        PROVE  {row[3] : row \in newest(key)'}
                 = IF HasOrders(input', sinkEnd, key)
                   THEN {TotalAt(input', sinkEnd, key)} ELSE {}
    <3>1. {row[3] : row \in newest(key)}
            = IF HasOrders(input, sinkEnd, key)
              THEN {TotalAt(input, sinkEnd, key)} ELSE {}
      BY DEF CountedOnce, SinkExact
    <3> QED
      BY <1>3, <1>4, <2>1, <3>1
  <2> QED
    BY <1>2, <2>3, <2>4 DEF SinkExact
<1>10. CountedOnce'
  BY <1>6, <1>7, <1>8, <1>9 DEF CountedOnce
<1>11. TypeOK'
  BY <1>1, <1>2, <1>3, <1>4, Control DEF TypeOK, HasOrders
<1> QED
  BY <1>10, <1>11

(* A batch updates the totals of its keys and emits them, and a batch run   *)
(* again does so from the store of the one before (handleInputRows).        *)
LEMMA StartBatchInv ==
    ASSUME TypeOK, CountedOnce, StartBatch
    PROVE  TypeOK' /\ CountedOnce'
<1>1. /\ UNCHANGED <<input, committed, stored, sink, sinkEnd>>
      /\ pc = "idle" /\ pc' = "running" /\ out' = {} /\ total' = stored
      /\ planned' = IF planned > committed THEN planned ELSE Len(input)
      /\ Len(input) > committed
      /\ todo' = batchKeys'
  BY DEF StartBatch, batchKeys
<1>2. /\ planned' \in 0..Len(input) /\ committed < planned'
      /\ committed \in 0..planned' /\ sinkEnd \in {committed, planned'}
  BY <1>1, Control DEF TypeOK
<1>3. Phases'
  BY <1>1, <1>2 DEF Phases
<1>4. \A key \in Instrument : stored'[key] = StateAt(input', committed', key)
  BY <1>1 DEF CountedOnce
<1>5. BatchExact'
  <2>1. \A key \in Instrument : key \notin todo' =>
           StateAt(input, planned', key) = StateAt(input, committed, key)
    <3> SUFFICES ASSUME NEW key \in Instrument, key \notin todo'
                 PROVE  StateAt(input, planned', key) = StateAt(input, committed, key)
      OBVIOUS
    <3>1. \A k \in (committed + 1)..planned' : input[k].instrument # key
      BY <1>1 DEF batchKeys
    <3>2. input \in Seq(Order) /\ planned' \in Nat /\ committed \in Nat
            /\ committed <= planned' /\ planned' <= Len(input)
      BY <1>2, Control
    <3> QED
      BY <3>1, <3>2, TotalWithout
  <2>2. \A key \in Instrument : total'[key] =
           StateAt(input', IF key \in todo' THEN committed' ELSE planned', key)
    BY <1>1, <1>4, <2>1
  <2>3. out' = {<<key, TotalAt(input', planned', key)>> : key \in batchKeys' \ todo'}
    BY <1>1
  <2> QED
    BY <2>2, <2>3 DEF BatchExact
<1>6. SinkExact'
  BY <1>1 DEF CountedOnce, SinkExact, newest
<1>7. TypeOK'
  BY <1>1, <1>2 DEF TypeOK
<1> QED
  BY <1>3, <1>4, <1>5, <1>6, <1>7 DEF CountedOnce

(* A call for one key moves its state from the committed offset to the end  *)
(* of the batch.                                                            *)
LEMMA HandleInputRowsInv ==
    ASSUME TypeOK, CountedOnce, NEW key \in todo, handleInputRows(key)
    PROVE  TypeOK' /\ CountedOnce'
<1> DEFINE sum == carried(key) + SumFunctionOnSet(qtys(input), inputRows(key))
<1>1. /\ UNCHANGED <<input, planned, committed, stored, sink, sinkEnd, pc>>
      /\ pc = "running" /\ todo' = todo \ {key}
      /\ total' = [total EXCEPT ![key] = sum]
      /\ out' = out \cup {<<key, sum>>}
  BY DEF handleInputRows, log, update, result
<1>2. /\ key \in batchKeys /\ batchKeys \subseteq Instrument
      /\ committed < planned /\ committed \in 0..Len(input) /\ planned \in 0..Len(input)
      /\ input \in Seq(Order)
  <2>1. todo \subseteq batchKeys /\ committed < planned
    BY <1>1, Control DEF CountedOnce, Phases
  <2>2. batchKeys \subseteq Instrument
    BY Control DEF batchKeys
  <2> QED
    BY <2>1, <2>2, Control
<1>3. sum = TotalAt(input, planned, key)
  <2>1. total[key] = StateAt(input, committed, key)
    BY <1>1, <1>2 DEF CountedOnce, BatchExact
  <2>2. carried(key) = TotalAt(input, committed, key)
    BY <1>2, <2>1, StateType DEF carried
  <2>3. TotalAt(input, planned, key)
          = TotalAt(input, committed, key) + SumFunctionOnSet(qtys(input), inputRows(key))
    BY <1>2, Control, TotalMoves DEF inputRows
  <2> QED
    BY <2>2, <2>3
<1> HIDE DEF sum
<1>4. HasOrders(input, planned, key) /\ sum = StateAt(input, planned, key)
  <2>1. HasOrders(input, planned, key)
    BY <1>2, Control DEF batchKeys, HasOrders
  <2> QED
    BY <1>3, <2>1 DEF StateAt
<1>5. sum \in Int
  BY <1>2, <1>3, TotalType
<1>6. batchKeys' = batchKeys
  BY <1>1 DEF batchKeys
<1>7. Phases'
  BY <1>1, <1>6 DEF CountedOnce, Phases
<1>8. BatchExact'
  <2>1. total \in [Instrument -> Int \cup {NoValue}]
    BY DEF TypeOK
  <2>2. ASSUME NEW z \in Instrument
        PROVE  total'[z] = StateAt(input, IF z \in todo' THEN committed ELSE planned, z)
    <3>1. total[z] = StateAt(input, IF z \in todo THEN committed ELSE planned, z)
      BY <1>1 DEF CountedOnce, BatchExact
    <3>2. CASE z = key
      BY <1>1, <1>4, <2>1, <3>2
    <3>3. CASE z # key
      BY <1>1, <2>1, <3>1, <3>3
    <3> QED
      BY <3>2, <3>3
  <2>3. out' = {<<z, TotalAt(input, planned, z)>> : z \in batchKeys \ todo'}
    <3>1. out = {<<z, TotalAt(input, planned, z)>> : z \in batchKeys \ todo}
      BY <1>1 DEF CountedOnce, BatchExact
    <3>2. batchKeys \ todo' = (batchKeys \ todo) \cup {key}
      BY <1>1, <1>2
    <3> QED
      BY <1>1, <1>3, <3>1, <3>2
  <2> QED
    BY <1>1, <1>6, <2>2, <2>3 DEF BatchExact
<1>9. SinkExact' /\ \A z \in Instrument : stored'[z] = StateAt(input', committed', z)
  BY <1>1 DEF CountedOnce, SinkExact, newest
<1>10. TypeOK'
  BY <1>1, <1>2, <1>5 DEF TypeOK
<1> QED
  BY <1>7, <1>8, <1>9, <1>10 DEF CountedOnce

(* What a batch that has been worked off hands to the sink.                 *)
LEMMA WriteSinkInv ==
    ASSUME TypeOK, CountedOnce, WriteSink
    PROVE  TypeOK' /\ CountedOnce'
<1>1. /\ UNCHANGED <<input, planned, committed, stored, total, todo, out>>
      /\ pc = "running" /\ pc' = "written" /\ todo = {} /\ sinkEnd' = planned
      /\ sink' = IF planned > sinkEnd
                 THEN sink \cup {<<planned, row[1], row[2]>> : row \in out}
                 ELSE sink
  BY DEF WriteSink, log, batch
<1>2. /\ committed < planned /\ committed \in Nat /\ planned \in Nat
      /\ planned <= Len(input) /\ input \in Seq(Order) /\ planned \in 0..Len(input)
      /\ sinkEnd \in {committed, planned}
  BY <1>1, Control DEF CountedOnce, Phases, TypeOK
<1>3. out = {<<key, TotalAt(input, planned, key)>> : key \in batchKeys}
  BY <1>1 DEF CountedOnce, BatchExact
<1>4. batchKeys \subseteq Instrument /\ batchKeys' = batchKeys
  BY <1>1, Control DEF batchKeys
<1>5. SinkExact'
  <2>1. CASE sinkEnd = planned
    <3>1. sink' = sink
      BY <1>1, <1>2, <2>1
    <3> QED
      BY <1>1, <2>1, <3>1 DEF CountedOnce, SinkExact, newest
  <2>2. CASE sinkEnd = committed
    <3> DEFINE new(key) == <<planned, key, TotalAt(input, planned, key)>>
    <3>0. sink' = sink \cup {new(key) : key \in batchKeys}
      <4>1. {<<planned, row[1], row[2]>> : row \in out} = {new(key) : key \in batchKeys}
        <5> DEFINE sum(key) == TotalAt(input, planned, key)
                   in(row)  == <<planned, row[1], row[2]>>
        <5>1. out = {<<key, sum(key)>> : key \in batchKeys}
          BY <1>3
        <5> HIDE DEF sum
        <5>2. \A key : in(<<key, sum(key)>>) = <<planned, key, sum(key)>>
          OBVIOUS
        <5> HIDE DEF in
        <5>3. {in(row) : row \in out} = {<<planned, key, sum(key)>> : key \in batchKeys}
          BY <5>1, <5>2
        <5> QED
          BY <5>3 DEF in, sum
      <4>2. planned > sinkEnd
        BY <1>2, <2>2
      <4> HIDE DEF new
      <4> QED
        BY <1>1, <4>1, <4>2
    <3>1. \A row \in sink : /\ row \in (1..committed) \X Instrument \X Int
                            /\ row[3] = TotalAt(input, row[1], row[2])
      BY <2>2 DEF TypeOK, CountedOnce, SinkExact
    <3>2. \A row \in sink : row[1] \in Int /\ row[1] < planned
      BY <1>2, <3>1
    <3>3. \A row \in sink' : row[3] = TotalAt(input, row[1], row[2])
      <4>1. ASSUME NEW key \in batchKeys
            PROVE  new(key)[3] = TotalAt(input, new(key)[1], new(key)[2])
        OBVIOUS
      <4> HIDE DEF new
      <4> QED
        BY <3>0, <3>1, <4>1
    <3>4. ASSUME NEW key \in Instrument
          PROVE  {row[3] : row \in newest(key)'}
                   = IF HasOrders(input, planned, key)
                     THEN {TotalAt(input, planned, key)} ELSE {}
      <4>1. CASE key \in batchKeys
        <5>1. new(key) \in sink' /\ \A r \in sink' : r[1] <= planned
          BY <1>2, <3>0, <3>2, <4>1
        <5>2. \A r \in sink' : r[1] = planned /\ r[2] = key => r = new(key)
          BY <3>0, <3>2
        <5>3. newest(key)' = {new(key)}
          <6>1. new(key)[1] = planned /\ new(key)[2] = key
            OBVIOUS
          <6>2. \A r \in sink' : r[1] \in Int
            BY <1>2, <3>0, <3>2
          <6>3. newest(key)' = {row \in sink' : row[2] = key
                                  /\ \A r \in sink' : r[2] = key => r[1] <= row[1]}
            BY DEF newest
          <6> HIDE DEF new
          <6>4. ASSUME NEW row \in newest(key)' PROVE row = new(key)
            <7>1. row \in sink' /\ row[2] = key /\ new(key)[1] <= row[1]
              BY <5>1, <6>1, <6>3
            <7>2. row[1] = planned
              BY <1>2, <5>1, <6>1, <6>2, <7>1
            <7> QED
              BY <5>2, <7>1, <7>2
          <6>5. new(key) \in newest(key)'
            BY <5>1, <6>1, <6>3
          <6> QED
            BY <6>4, <6>5
        <5>4. HasOrders(input, planned, key)
          BY <1>2, <4>1 DEF batchKeys, HasOrders
        <5> QED
          BY <5>3, <5>4
      <4>2. CASE key \notin batchKeys
        <5>1. \A k \in (committed + 1)..planned : input[k].instrument # key
          BY <4>2 DEF batchKeys
        <5>2. /\ TotalAt(input, planned, key) = TotalAt(input, committed, key)
              /\ HasOrders(input, planned, key) <=> HasOrders(input, committed, key)
          BY <1>2, <5>1, TotalWithout
        <5>3. \A r \in sink' : r[2] = key <=> r \in sink /\ r[2] = key
          BY <3>0, <4>2
        <5>4. newest(key)' = newest(key)
          BY <3>0, <5>3 DEF newest
        <5>5. {row[3] : row \in newest(key)}
                = IF HasOrders(input, committed, key)
                  THEN {TotalAt(input, committed, key)} ELSE {}
          BY <2>2 DEF CountedOnce, SinkExact
        <5> QED
          BY <5>2, <5>4, <5>5
      <4> QED
        BY <4>1, <4>2
    <3> QED
      BY <1>1, <3>3, <3>4 DEF SinkExact
  <2> QED
    BY <1>2, <2>1, <2>2
<1>6. Phases' /\ BatchExact' /\ \A z \in Instrument : stored'[z] = StateAt(input', committed', z)
  BY <1>1, <1>4 DEF CountedOnce, Phases, BatchExact
<1>7. TypeOK'
  <2>1. sink' \subseteq (1..planned) \X Instrument \X Int
    <3>1. ASSUME NEW row \in sink PROVE row \in (1..planned) \X Instrument \X Int
      BY <1>2 DEF TypeOK
    <3>2. ASSUME NEW row \in out
          PROVE  <<planned, row[1], row[2]>> \in (1..planned) \X Instrument \X Int
      BY <1>2 DEF TypeOK
    <3> QED
      BY <1>1, <3>1, <3>2
  <2> QED
    BY <1>1, <1>2, <2>1 DEF TypeOK
<1> QED
  BY <1>5, <1>6, <1>7 DEF CountedOnce

(* A commit makes the batch's store the one later batches start from.       *)
LEMMA CommitBatchInv ==
    ASSUME TypeOK, CountedOnce, CommitBatch
    PROVE  TypeOK' /\ CountedOnce'
<1>1. /\ UNCHANGED <<input, planned, total, todo, out, sink, sinkEnd>>
      /\ pc = "written" /\ pc' = "idle" /\ committed' = planned /\ stored' = total
  BY DEF CommitBatch, batch
<1>2. /\ todo = {} /\ sinkEnd = planned
      /\ input \in Seq(Order) /\ planned \in 0..Len(input) /\ planned \in Nat
  BY <1>1, Control DEF CountedOnce, Phases
<1>3. \A key \in Instrument : stored'[key] = StateAt(input', committed', key)
  BY <1>1, <1>2 DEF CountedOnce, BatchExact
<1>4. Phases' /\ BatchExact' /\ SinkExact'
  BY <1>1, <1>2 DEF CountedOnce, Phases, BatchExact, SinkExact, newest
<1>5. \A key \in Instrument : stored'[key] # NoValue <=> HasOrders(input, planned, key)
  BY <1>1, <1>2, <1>3, StateType
<1>6. TypeOK'
  BY <1>1, <1>2, <1>5 DEF TypeOK, HasOrders
<1> QED
  BY <1>3, <1>4, <1>6 DEF CountedOnce

(* An interrupted batch leaves the committed store.                         *)
LEMMA InterruptInv ==
    ASSUME TypeOK, CountedOnce, Interrupt
    PROVE  TypeOK' /\ CountedOnce'
<1>1. /\ UNCHANGED <<input, planned, committed, stored, sink, sinkEnd>>
      /\ pc' = "idle" /\ total' = stored /\ todo' = {} /\ out' = {}
  BY DEF Interrupt, log
<1>2. CountedOnce'
  BY <1>1 DEF CountedOnce, Phases, BatchExact, SinkExact, newest
<1>3. TypeOK'
  BY <1>1 DEF TypeOK
<1> QED
  BY <1>2, <1>3

(* No step breaks the invariant.                                            *)
LEMMA Step ==
    ASSUME TypeOK, CountedOnce, [Next]_vars
    PROVE  TypeOK' /\ CountedOnce'
<1>1. CASE \E o \in Order : addData(o)
  BY <1>1, AddDataInv
<1>2. CASE StartBatch
  BY <1>2, StartBatchInv
<1>3. CASE \E key \in todo : handleInputRows(key)
  BY <1>3, HandleInputRowsInv
<1>4. CASE WriteSink
  BY <1>4, WriteSinkInv
<1>5. CASE CommitBatch
  BY <1>5, CommitBatchInv
<1>6. CASE Interrupt
  BY <1>6, InterruptInv
<1>7. CASE UNCHANGED vars
  <2>1. \A key : newest(key)' = newest(key)
    BY <1>7 DEF vars, newest
  <2>2. SinkExact'
    BY <1>7, <2>1 DEF vars, CountedOnce, SinkExact
  <2>3. Phases' /\ BatchExact' /\ \A z \in Instrument : stored'[z] = StateAt(input', committed', z)
    BY <1>7 DEF vars, log, batch, CountedOnce, Phases, BatchExact, batchKeys
  <2>4. TypeOK'
    BY <1>7 DEF vars, log, batch, TypeOK
  <2> QED
    BY <2>2, <2>3, <2>4 DEF CountedOnce
<1> QED
  BY <1>1, <1>2, <1>3, <1>4, <1>5, <1>6, <1>7 DEF Next, Engine

(* Every variable keeps its type, and a key has state exactly when some     *)
(* committed order is for it (RunningQtyProcessor's ValueState).            *)
THEOREM TypeCorrect == Spec => []TypeOK
<1>1. Init => TypeOK /\ CountedOnce
  BY InitInv
<1>2. (TypeOK /\ CountedOnce) /\ [Next]_vars => (TypeOK /\ CountedOnce)'
  BY Step
<1> QED
  BY <1>1, <1>2, PTL DEF Spec

(* Every order is counted once in the state store, in the running batch and *)
(* in the sink, for any number of orders, keys and batches, wherever a      *)
(* batch is interrupted and run again (TransformWithStateSpec.scala:14-33). *)
THEOREM OrdersCountedOnce == Spec => []CountedOnce
<1>1. Init => TypeOK /\ CountedOnce
  BY InitInv
<1>2. (TypeOK /\ CountedOnce) /\ [Next]_vars => (TypeOK /\ CountedOnce)'
  BY Step
<1> QED
  BY <1>1, <1>2, PTL DEF Spec

-----------------------------------------------------------------------------
(* The running totals *)

(* The latest row of the sink for a key is its total.                       *)
LEMMA LatestIsTotal ==
    ASSUME TypeOK, CountedOnce, NEW key \in Instrument
    PROVE  latest(key) = TotalAt(input, sinkEnd, key)
<1>1. input \in Seq(Order) /\ sinkEnd \in 0..Len(input)
  BY Control
<1>2. {row[3] : row \in newest(key)}
        = IF HasOrders(input, sinkEnd, key)
          THEN {TotalAt(input, sinkEnd, key)} ELSE {}
  BY DEF CountedOnce, SinkExact
<1>3. CASE HasOrders(input, sinkEnd, key)
  <2>1. newest(key) # {} /\ \A row \in newest(key) : row[3] = TotalAt(input, sinkEnd, key)
    BY <1>2, <1>3
  <2> QED
    BY <2>1 DEF latest
<1>4. CASE ~HasOrders(input, sinkEnd, key)
  <2>1. newest(key) = {}
    BY <1>2, <1>4
  <2> QED
    BY <1>1, <1>4, <2>1, TotalZero DEF latest
<1> QED
  BY <1>3, <1>4

(* The promised sum over the first n orders is the total at n.              *)
LEMMA PromisedSum ==
    ASSUME NEW orders \in Seq(Order), NEW n \in 0..Len(orders), NEW key
    PROVE  Promise!SumOf(SubSeq(orders, 1, n), key) = TotalAt(orders, n, key)
<1> DEFINE first == SubSeq(orders, 1, n)
<1>1. /\ first \in Seq(Order) /\ Len(first) = n /\ DOMAIN first = 1..n
      /\ \A k \in 1..n : first[k] = orders[k]
  BY OrderType
<1>2. n \in Nat /\ n <= Len(orders)
  BY OrderType
<1> HIDE DEF first
<1>3. TotalAt(first, n, key) = TotalAt(orders, n, key)
  BY <1>1, <1>2, TotalOfPrefix
<1>4. Promise!SumOf(first, key) = TotalAt(first, n, key)
  BY <1>1 DEF Promise!SumOf, TotalAt, qtys,
     Promise!SumFunctionOnSet, Promise!FoldFunctionOnSet, Promise!MapThenFoldSet,
     SumFunctionOnSet, FoldFunctionOnSet, MapThenFoldSet
<1> QED
  BY <1>3, <1>4 DEF first

(* The totals shown are the promised ones of the orders the sink counts.    *)
ShownExact ==
    [key \in Instrument |-> latest(key)] = Promise!Totals(SubSeq(input, 1, sinkEnd))

(* What the sink shows are the totals of the orders up to some offset.      *)
LEMMA ShownAreTotals ==
    ASSUME TypeOK, CountedOnce
    PROVE  /\ ShownExact
           /\ sinkEnd \in 0..Len(input) /\ input \in Seq(Order)
<1>1. sinkEnd \in 0..Len(input) /\ input \in Seq(Order)
  BY Control
<1>2. \A key \in Instrument :
         latest(key) = Promise!SumOf(SubSeq(input, 1, sinkEnd), key)
  BY <1>1, LatestIsTotal, PromisedSum
<1> QED
  BY <1>1, <1>2 DEF Promise!Totals, ShownExact

(* The same of the next state.                                              *)
LEMMA ShownAreTotalsNext == (TypeOK /\ CountedOnce)' => ShownExact'
<1>1. TypeOK /\ CountedOnce => ShownExact
  BY ShownAreTotals
<1> QED
  BY <1>1, PTL

(* The rows of the sink are running totals as KeyedTotals promises them:    *)
(* the latest total of every instrument is that of all orders up to some    *)
(* offset, the same for all of them, which only moves forward, whatever the *)
(* batches and interruptions (TransformWithStateSpec.scala:14-15).          *)
THEOREM RunningTotals == Spec => KeepsRunningTotals
<1>1. Init => Promise!Init
  <2> SUFFICES ASSUME Init PROVE Promise!Init
    OBVIOUS
  <2>1. TypeOK /\ CountedOnce
    BY InitInv
  <2>2. input = <<>> /\ sinkEnd = 0
    BY DEF Init
  <2>3. SubSeq(input, 1, sinkEnd) = <<>>
    BY <2>2
  <2> QED
    BY <2>1, <2>2, <2>3, ShownAreTotals DEF Promise!Init, ShownExact
<1>2. TypeOK /\ CountedOnce /\ [Next]_vars => [Promise!Next]_(Promise!vars)
  <2> SUFFICES ASSUME TypeOK, CountedOnce, [Next]_vars
               PROVE  [Promise!Next]_(Promise!vars)
    OBVIOUS
  <2>1. TypeOK' /\ CountedOnce'
    BY Step
  <2>2. CASE \E o \in Order : addData(o)
    <3>1. PICK o \in Order : addData(o)
      BY <2>2
    <3>2. input' = Append(input, o) /\ UNCHANGED <<sink, sinkEnd>>
      BY <3>1 DEF addData
    <3>3. [key \in Instrument |-> latest(key)]' = [key \in Instrument |-> latest(key)]
      BY <3>2 DEF latest, newest
    <3> QED
      BY <3>2, <3>3 DEF Promise!Next, Promise!Receive
  <2>3. CASE WriteSink /\ planned > sinkEnd
    <3>1. input' = input /\ sinkEnd' = planned
      BY <2>3 DEF WriteSink
    <3>2. planned \in (sinkEnd + 1)..Len(input)
      BY <2>3, Control
    <3>3. [key \in Instrument |-> latest(key)]'
            = Promise!Totals(SubSeq(input, 1, planned))
      BY <2>1, <3>1, ShownAreTotalsNext DEF ShownExact
    <3> QED
      BY <3>1, <3>2, <3>3 DEF Promise!Next, Promise!Show
  <2>4. CASE UNCHANGED <<input, sink, sinkEnd>>
    <3>1. [key \in Instrument |-> latest(key)]' = [key \in Instrument |-> latest(key)]
      BY <2>4 DEF latest, newest
    <3> QED
      BY <2>4, <3>1 DEF Promise!vars
  <2>5. CASE WriteSink /\ ~(planned > sinkEnd)
    <3>1. sinkEnd = planned
      BY <2>5, Control
    <3>2. UNCHANGED <<input, sink, sinkEnd>>
      BY <2>5, <3>1 DEF WriteSink
    <3> QED
      BY <3>2, <2>4
  <2>6. ASSUME ~(\E o \in Order : addData(o)), ~WriteSink
        PROVE  UNCHANGED <<input, sink, sinkEnd>>
    BY <2>6 DEF Next, Engine, StartBatch, handleInputRows, CommitBatch, Interrupt,
       log, batch, vars
  <2> QED
    BY <2>2, <2>3, <2>4, <2>5, <2>6
<1>3. Spec => [](TypeOK /\ CountedOnce)
  BY TypeCorrect, OrdersCountedOnce, PTL
<1> QED
  BY <1>1, <1>2, <1>3, PTL DEF Spec, KeepsRunningTotals, Promise!Spec

===============================================================================
