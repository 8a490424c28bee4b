------------------------------ MODULE RunningQty ------------------------------
(***************************************************************************)
(* The stateful processor of TransformWithStateSpec.scala: a running total *)
(* per instrument, kept in a ValueState across the micro-batches of a      *)
(* streaming query.  handleInputRows is called once per batch for every    *)
(* key the batch has rows of.                                              *)
(*                                                                         *)
(* The engine around it is not part of the repository and is modelled from *)
(* how the query uses it: it reads its source up to an offset it logs,     *)
(* starts the batch on the state of the last committed one, hands the rows *)
(* of the whole batch to the sink, which drops a batch it already has, and *)
(* commits.  A batch that is interrupted is run again, on the offsets      *)
(* logged for it, from checkpointLocation.                                 *)
(***************************************************************************)
EXTENDS Integers, FiniteSetsExt, SequencesExt

CONSTANTS
    Instrument,
    Qty,            \* bound: quantities of orders, any sign (Long)
    NoValue,        \* a ValueState that does not exist
    MaxOrders,      \* bound: orders added
    MaxInterrupted  \* bound: batches interrupted

ASSUME RunningAssumption ==
    /\ Qty \subseteq Int
    /\ NoValue \notin Int
    /\ MaxOrders \in Nat /\ MaxInterrupted \in Nat

VARIABLES
    input,        \* orders the source holds
    planned,      \* offset log: end of the newest batch
    committed,    \* commit log: end of the newest committed batch
    stored,       \* state store as of that batch: instrument -> total
    total,        \* ValueState as the running batch sees it
    todo,         \* keys handleInputRows is still to be called for
    out,          \* rows the batch has returned
    sink,         \* rows of tws_out: end of their batch, instrument, total
    sinkEnd,      \* end of the newest batch the sink has
    pc,           \* "idle", "running", or "written"
    interrupted   \* batches interrupted so far

batch == <<total, todo, out>>
log   == <<planned, committed, stored>>
vars  == <<input, log, batch, sink, sinkEnd, pc, interrupted>>

Order == [instrument : Instrument, qty : Qty]

Init ==
    /\ input = <<>>
    /\ planned = 0 /\ committed = 0
    /\ stored = [key \in Instrument |-> NoValue]
    /\ total = stored /\ todo = {} /\ out = {}
    /\ sink = {} /\ sinkEnd = 0
    /\ pc = "idle"
    /\ interrupted = 0

(* input.addData, at any moment.                                            *)
addData(o) ==
    /\ Len(input) < MaxOrders
    /\ input' = Append(input, o)
    /\ UNCHANGED <<log, batch, sink, sinkEnd, pc, interrupted>>

StartBatch ==
    /\ pc = "idle"
    /\ Len(input) > committed
    /\ planned' = IF planned > committed THEN planned ELSE Len(input)
    /\ total' = stored
    /\ todo' = {input[k].instrument : k \in (committed + 1)..planned'}
    /\ out' = {}
    /\ pc' = "running"
    /\ UNCHANGED <<input, committed, stored, sink, sinkEnd, interrupted>>

(* inputRows: where in the input the rows of the batch with this key are.   *)
inputRows(key) == {k \in (committed + 1)..planned : input[k].instrument = key}

(* The quantities of the orders.                                            *)
qtys(orders) == [k \in DOMAIN orders |-> orders[k].qty]

(* Mutant: the sum starts at zero in every batch.                           *)
carriedNever(key) == 0

(* if (total.exists()) total.get() else 0L                                  *)
carried(key) == IF total[key] # NoValue THEN total[key] ELSE 0

(* Mutant: the state is read but never written.                             *)
updateNever(key, sum) == total

update(key, sum) == [total EXCEPT ![key] = sum]

(* Mutant: a row is returned only for keys seen for the first time.         *)
resultOnce(key, sum) == IF total[key] = NoValue THEN {<<key, sum>>} ELSE {}

result(key, sum) == {<<key, sum>>}

handleInputRows(key) ==
    /\ pc = "running" /\ key \in todo
    /\ LET sum == carried(key) + SumFunctionOnSet(qtys(input), inputRows(key))
       IN  /\ total' = update(key, sum)
           /\ out' = out \cup result(key, sum)
    /\ todo' = todo \ {key}
    /\ UNCHANGED <<input, log, sink, sinkEnd, pc, interrupted>>

WriteSink ==
    /\ pc = "running" /\ todo = {}
    /\ sink' = IF planned > sinkEnd
               THEN sink \cup {<<planned, row[1], row[2]>> : row \in out}
               ELSE sink
    /\ sinkEnd' = planned
    /\ pc' = "written"
    /\ UNCHANGED <<input, log, batch, interrupted>>

CommitBatch ==
    /\ pc = "written"
    /\ committed' = planned
    /\ stored' = total
    /\ pc' = "idle"
    /\ UNCHANGED <<input, planned, batch, sink, sinkEnd, interrupted>>

(* Whatever the running batch kept in memory is lost.                       *)
Interrupt ==
    /\ pc # "idle"
    /\ interrupted < MaxInterrupted
    /\ interrupted' = interrupted + 1
    /\ total' = stored /\ todo' = {} /\ out' = {}
    /\ pc' = "idle"
    /\ UNCHANGED <<input, log, sink, sinkEnd>>

Engine ==
    StartBatch \/ (\E key \in todo : handleInputRows(key)) \/ WriteSink \/ CommitBatch

Next == (\E o \in Order : addData(o)) \/ Engine \/ Interrupt

Spec == Init /\ [][Next]_vars

(* processAllAvailable: the engine goes on while there is something to do.  *)
FairSpec == Spec /\ WF_vars(Engine)

-----------------------------------------------------------------------------
(* Properties *)

TypeOK ==
    /\ input \in Seq(Order)
    /\ planned \in 0..Len(input) /\ committed \in 0..planned
    /\ sinkEnd \in {committed, planned}
    /\ stored \in [Instrument -> Int \cup {NoValue}]
    /\ total \in [Instrument -> Int \cup {NoValue}]
    /\ out \subseteq Instrument \X Int
    /\ sink \subseteq (1..sinkEnd) \X Instrument \X Int
    /\ \A key \in Instrument :
        stored[key] # NoValue <=> \E k \in 1..committed : input[k].instrument = key

(* What the first n orders add up to for a key, and the state a key has     *)
(* once they are counted.                                                   *)
HasOrders(orders, n, key) == \E k \in 1..n : orders[k].instrument = key

TotalAt(orders, n, key) ==
    SumFunctionOnSet(qtys(orders), {k \in 1..n : orders[k].instrument = key})

StateAt(orders, n, key) ==
    IF HasOrders(orders, n, key) THEN TotalAt(orders, n, key) ELSE NoValue

(* The instruments the batch has rows of.                                   *)
batchKeys == {input[k].instrument : k \in (committed + 1)..planned}

(* The phases of a batch, with what holds in each.                          *)
Phases ==
    /\ pc \in {"idle", "running", "written"}
    /\ pc # "idle" => planned > committed
    /\ pc = "written" => todo = {} /\ sinkEnd = planned
    /\ todo \subseteq batchKeys

(* The running batch has moved exactly the keys it has handled on to its    *)
(* end, and returned one row for each.                                      *)
BatchExact ==
    pc # "idle" =>
        /\ \A key \in Instrument :
             total[key] = StateAt(input, IF key \in todo THEN committed ELSE planned, key)
        /\ out = {<<key, TotalAt(input, planned, key)>> : key \in batchKeys \ todo}

(* The newest rows the sink has of a key.                                   *)
newest(key) ==
    {row \in sink : row[2] = key /\ \A r \in sink : r[2] = key => r[1] <= row[1]}

(* Every row of the sink is the total its key had at the end of its batch,  *)
(* and the newest is the total at the sink's own offset: the batches since  *)
(* then had no order for the key.                                           *)
SinkExact ==
    /\ \A row \in sink : row[3] = TotalAt(input, row[1], row[2])
    /\ \A key \in Instrument :
         {row[3] : row \in newest(key)}
             = IF HasOrders(input, sinkEnd, key)
               THEN {TotalAt(input, sinkEnd, key)} ELSE {}

(* Every order is in a total once: in the state store those of the          *)
(* committed batches, in the running batch those up to its end, and in the  *)
(* sink those up to an offset that may be ahead of the state store while a  *)
(* batch waits to be run again (RunningQtyProcessor; checkpointLocation of  *)
(* the test).                                                               *)
CountedOnce ==
    /\ Phases
    /\ \A key \in Instrument : stored[key] = StateAt(input, committed, key)
    /\ BatchExact
    /\ SinkExact

(* latest of the test, which takes the greatest total of a key for its      *)
(* newest: right for the test's positive quantities, not for every Long.    *)
latest(key) == IF newest(key) = {} THEN 0 ELSE (CHOOSE row \in newest(key) : TRUE)[3]

Promise == INSTANCE KeyedTotals WITH
    received <- input,
    counted  <- sinkEnd,
    shown    <- [key \in Instrument |-> latest(key)]

(* However orders fall into batches, in whatever order the keys of a batch  *)
(* are handled and wherever a batch is interrupted and run again, the       *)
(* latest rows of the sink are the totals of all orders up to some offset   *)
(* (TransformWithStateSpec.scala:14-15, RunningQtyProcessor).               *)
KeepsRunningTotals == Promise!Spec

(* Every order is counted in the end, exactly once                          *)
(* (TransformWithStateSpec.scala:76-84, after processAllAvailable).         *)
AllCounted ==
    \A n \in 1..MaxOrders :
        Len(input) >= n ~>
            /\ sinkEnd >= n
            /\ \A key \in Instrument :
                latest(key) = Promise!SumOf(SubSeq(input, 1, sinkEnd), key)

===============================================================================
