----------------------------- MODULE KeyedTotals -----------------------------
(***************************************************************************)
(* What a running total per instrument promises, without batches or state: *)
(* at any time the totals shown are those of all orders received up to     *)
(* some moment, and that moment only moves forward.                        *)
(***************************************************************************)
EXTENDS Integers, SequencesExt

CONSTANTS Instrument, Order

VARIABLES
    received,  \* the orders, in the order they came
    counted,   \* how many of them the totals shown include
    shown      \* instrument -> total

vars == <<received, counted, shown>>

SumOf(orders, key) ==
    SumFunctionOnSet([k \in DOMAIN orders |-> orders[k].qty],
                     {k \in DOMAIN orders : orders[k].instrument = key})

Totals(orders) == [key \in Instrument |-> SumOf(orders, key)]

Init ==
    /\ received = <<>>
    /\ counted = 0
    /\ shown = Totals(<<>>)

Receive(o) ==
    /\ received' = Append(received, o)
    /\ UNCHANGED <<counted, shown>>

Show ==
    \E n \in (counted + 1)..Len(received) :
        /\ counted' = n
        /\ shown' = Totals(SubSeq(received, 1, n))
        /\ UNCHANGED received

Next == (\E o \in Order : Receive(o)) \/ Show

Spec == Init /\ [][Next]_vars

===============================================================================
