----------------------------- MODULE Surveillance -----------------------------
(***************************************************************************)
(* One abuse scenario on its way through the pipeline: its events reach    *)
(* the raw table one at a time, in any order, some of them twice and some  *)
(* first with a required field missing, and at every moment the tables and *)
(* alerts are what bronze, silver, gold and the detectors make of what has *)
(* arrived.  The bus is not part of the repository: it is modelled from    *)
(* what silver.py says of it (idempotent re-delivery) and from the         *)
(* quarantine bronze.py keeps.                                             *)
(***************************************************************************)
EXTENDS Medallion

CONSTANTS
    Starts,      \* bound: times t0 a scenario may start at
    Abuser,      \* the trader it is injected for
    Mids,        \* bound: mid prices, one per instrument
    Draws,       \* bound: numbers the random generator gives a scenario
    MaxNoise     \* bound: events delivered twice or with a field missing

ASSUME SurveillanceAssumption ==
    /\ Starts \subseteq Nat
    /\ Mids \subseteq Nat \ (0..5)
    (* Five cents, what a front run gains at least, are more than a basis   *)
    (* point, as they are on the instruments of instruments.py.             *)
    /\ \A mid \in Mids : (Scale + 1) * mid <= 5 * (100 * (100 * Scale))
    (* Scenarios counts in units of 10 ms.                                  *)
    /\ Second = 100
    (* gold.py counts windows of 60 s, in a day of 24 h that closes at 16:00. *)
    /\ CloseOfDay % WindowLen = 0 /\ DayLen % WindowLen = 0
    /\ Abuser # Client(<<"abuse", 1>>)
    /\ \A draws \in Draws : IsDraws(draws)
    /\ MaxNoise \in Nat

VARIABLES
    type,     \* archetype of the scenario
    made,     \* what its function returned: events and label
    raw,      \* rows of the raw table
    noise     \* duplicates and incomplete events so far

vars == <<type, made, raw, noise>>

-----------------------------------------------------------------------------

Context(start, mid, draws) ==
    [t0 |-> start, trader |-> Abuser, symbol |-> mid, mid |-> mid,
     sid |-> <<"abuse", 1>>, draws |-> draws]

Init ==
    /\ type \in Detector
    /\ \E start \in Starts, mid \in Mids, draws \in Draws :
            made = Scenario(type, Context(start, mid, draws))
    /\ raw = {}
    /\ noise = 0

Emitted == {made.events[k] : k \in DOMAIN made.events}

Deliver(e) ==
    /\ Row(e, 1) \notin raw
    /\ raw' = raw \cup {Row(e, 1)}
    /\ UNCHANGED <<type, made, noise>>

(* The bus delivers once more what it has delivered before.                 *)
Redeliver(e) ==
    /\ noise < MaxNoise
    /\ Row(e, 1) \in raw
    /\ Row(e, 2) \notin raw
    /\ raw' = raw \cup {Row(e, 2)}
    /\ noise' = noise + 1
    /\ UNCHANGED <<type, made>>

(* An event arrives with a required field missing, whether or not it also   *)
(* arrives whole.                                                           *)
DeliverIncomplete(e) ==
    /\ noise < MaxNoise
    /\ Row([e EXCEPT !.side = NoSide], 0) \notin raw
    /\ raw' = raw \cup {Row([e EXCEPT !.side = NoSide], 0)}
    /\ noise' = noise + 1
    /\ UNCHANGED <<type, made>>

Next == \E e \in Emitted : Deliver(e) \/ Redeliver(e) \/ DeliverIncomplete(e)

Spec == Init /\ [][Next]_vars

(* The bus delivers at least once: it may repeat itself and interleave as   *)
(* it likes, but it does not stop while an event is still to come.          *)
FairSpec == Spec /\ WF_vars(\E e \in Emitted : Deliver(e))

-----------------------------------------------------------------------------
(* Properties *)

Delivered == {e \in Emitted : Row(e, 1) \in raw}

TypeOK ==
    /\ type \in Detector
    /\ raw \subseteq {Row(e, k) : e \in Emitted, k \in {1, 2}}
                     \cup {Row([e EXCEPT !.side = NoSide], 0) : e \in Emitted}
    /\ noise \in 0..MaxNoise
    /\ \A g \in Gold(raw) :
        /\ IsGoldFeatures(g)
        /\ g.trader \in {Abuser, Client(made.label.sid)}
        /\ g.symbol \in Mids
        /\ g.secsToClose \in (CloseOfDay - DayLen)..CloseOfDay

(* Re-delivered and incomplete events change nothing: the gold rows are     *)
(* those of the distinct whole events that arrived (silver.py:34, idempotent *)
(* re-delivery; bronze.py:7, rows missing a field are kept out).            *)
NoiseIsInvisible == Gold(raw) = to_gold({Row(e, 1) : e \in Delivered})

(* min_by and max_by break ties in no defined order; the scenarios are      *)
(* built so that no tie between different prices ever reaches them, and the *)
(* gold row of a window is a function of its events (gold.py to_gold).      *)
GoldIsDetermined ==
    \A g, h \in Gold(raw) :
        (g.trader = h.trader /\ g.windowStart = h.windowStart) => g = h

(* The whole scenario lies in one window, before or at the close.           *)
InOneWindow ==
    \A e \in Emitted : WindowStart(e.t) = WindowStart(made.label.start)

NearClose ==
    \E e \in Emitted : TimeToClose(e.t) \in 0..CloseWindow

(* t0 "~60 s before the session close", as marking_the_close asks.          *)
AtTheClose == TimeToClose(made.label.start) \in (50 * Second)..(60 * Second)

(* A scenario that fell into one window, and came wholly through, is alerted *)
(* by its own detector with a reportable severity                           *)
(* (DetectorIsolationSpec).                                                 *)
OwnDetectorFires ==
    (Delivered = Emitted /\ InOneWindow
        /\ (type = "MARKING_THE_CLOSE" => AtTheClose))
    => \E a \in Alerts(Gold(raw)) :
            /\ a.detector = type /\ a.trader = Abuser
            /\ a.severity >= 4

(* Once the bus has brought everything, in whatever order and with whatever *)
(* repetitions and losses of fields on the way, the abuser stands alerted   *)
(* for good (to_bronze, to_silver, to_gold and the detectors together).     *)
EventuallyAlerted ==
    (InOneWindow /\ (type = "MARKING_THE_CLOSE" => AtTheClose))
        => <>[](\E g \in Gold(raw) : g.trader = Abuser /\ fires(type, g))

(* Away from the close no other detector ever fires, not even on the part   *)
(* of a scenario that has arrived so far or that fell into this window.     *)
OthersStayQuiet ==
    ~NearClose => \A a \in Alerts(Gold(raw)) : a.detector = type

(* The detection matrix as the test states it, for the window the whole     *)
(* scenario falls into: its own detector fires and the others stay silent.  *)
DetectionMatrix ==
    (Delivered = Emitted /\ InOneWindow)
        => \A a \in Alerts(Gold(raw)) : a.detector = type

(* Only the abuser is alerted: neither the client that was front-run nor a  *)
(* part of the client's flow looks like abuse.                              *)
OnlyTheAbuser == \A a \in Alerts(Gold(raw)) : a.trader = Abuser

(* An alert raised on part of a window stands when more of it arrives.      *)
AlertsStand ==
    [][{AlertId(a) : a \in Alerts(Gold(raw))}
         \subseteq {AlertId(a) : a \in Alerts(Gold(raw'))}]_vars

===============================================================================
