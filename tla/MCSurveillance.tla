--------------------------- MODULE MCSurveillance ---------------------------
(***************************************************************************)
(* Surveillance on the real day, window and close, with start times at     *)
(* which different things happen.                                          *)
(***************************************************************************)
EXTENDS Surveillance

MCAbuser == <<"A", 1>>

(* Some later day than the first.                                           *)
Today == 2 * DayLen

(* Well inside a window, and 200 ms before the end of one.                  *)
Midday == {Today + 600 * WindowLen + 500, Today + 601 * WindowLen - 20}

(* At this start every archetype is to be alerted.                          *)
LastMinute == Today + CloseOfDay - 60 * Second

(* One minute before the close, two seconds before it, 200 ms before it,    *)
(* and 80 s before it, where marking the close is cut in two.               *)
Closing == {LastMinute, Today + CloseOfDay - 2 * Second,
            Today + CloseOfDay - 20, Today + CloseOfDay - 80 * Second}

MCStarts == Midday \cup Closing

(* randint makes the lower end of every range of 0, the upper end of 47: 48 *)
(* is a multiple of the length of each of them.  On one instrument the odd  *)
(* draws are high and the even ones low, on the other the reverse.          *)
OddHigh  == [k \in 1..6 |-> IF k % 2 = 1 THEN 47 ELSE 0]
EvenHigh == [k \in 1..6 |-> IF k % 2 = 1 THEN 0 ELSE 47]

DrawsOf(mid) == IF mid = 3300 THEN OddHigh ELSE EvenHigh
MCDraws      == {OddHigh, EvenHigh}

(* Bound: momentum ignition, the scenario with the most events and so by    *)
(* far the most orders of arrival, is run on one instrument only.           *)
MCInit ==
    /\ Init
    /\ \E start \in Starts, mid \in Mids :
            /\ type = "MOMENTUM_IGNITION" => mid = 3300
            /\ made = Scenario(type, Context(start, mid, DrawsOf(mid)))

(* Bound: the bus errs only with the scenarios of one minute before the     *)
(* close on one instrument; the others arrive once, in any order.           *)
Noisy == made = Scenario(type, Context(LastMinute, 3300, OddHigh))

MCNext ==
    \E e \in Emitted :
        \/ Deliver(e)
        \/ Noisy /\ (Redeliver(e) \/ DeliverIncomplete(e))

MCSpec == MCInit /\ [][MCNext]_vars /\ WF_vars(\E e \in Emitted : Deliver(e))

=============================================================================
