----------------------------- MODULE StreamEngine -----------------------------
(***************************************************************************)
(* generate_stream of generator/synthfix/engine.py: a loop that emits one  *)
(* benign order per turn, injects labelled scenarios at randomly chosen    *)
(* turns, and sorts the events by time at the end; and what the pipeline,  *)
(* the detectors and the training labels make of the finished stream.      *)
(*                                                                         *)
(* Every call of the random generator is a choice.                         *)
(***************************************************************************)
EXTENDS Dataset

CONSTANTS
    NNormal,      \* n_normal
    AbuseCount,   \* abuse_count
    TStart,       \* bound: values of t_start
    Dt,           \* dt_ms
    Normals,      \* NORMAL_TRADERS
    Abusers,      \* ABUSIVE_TRADERS
    Mids,         \* INSTRUMENTS: the mid price of each, which names it
    BenignQty,    \* bound: quantities benign orders take
    BenignSides,  \* bound: sides they take
    BenignMoves,  \* bound: cents they are away from the mid
    Draws         \* bound: numbers the random generator gives a scenario

ASSUME EngineAssumption ==
    /\ NNormal \in Nat /\ AbuseCount \in Nat
    /\ TStart \subseteq Nat
    /\ Dt \in Nat
    /\ Mids \subseteq Nat \ (0..5)
    /\ Normals \cap Abusers = {}
    /\ \A who \in Normals \cup Abusers, n \in 1..AbuseCount :
            who # Client(<<"abuse", n>>)
    /\ BenignQty \subseteq Nat \ {0}
    /\ BenignSides \subseteq {"BUY", "SELL"}
    /\ BenignMoves \subseteq -5..5
    /\ \A draws \in Draws : IsDraws(draws)

VARIABLES
    pc,         \* "loop", or "returned"
    i,          \* turn of the loop
    t,          \* time of the next benign order
    injectAt,   \* inject_at: turns that inject a scenario
    injected,   \* scenarios injected so far
    events,
    labels

vars == <<pc, i, t, injectAt, injected, events, labels>>

-----------------------------------------------------------------------------

Init ==
    /\ pc = "loop"
    /\ i = 0
    /\ t \in TStart
    /\ injectAt \in kSubset(least(AbuseCount, NNormal), 0..(NNormal - 1))
    /\ injected = 0
    /\ events = <<>>
    /\ labels = <<>>

(* _benign_order: a limit order within 5 cents of the mid.                  *)
BenignOrder(who, mid, side, qty, move) ==
    [msg |-> "NEW", id |-> <<"n", i, "", 0>>, trader |-> who, symbol |-> mid,
     side |-> side, qty |-> qty, t |-> t, price |-> mid + move,
     exec |-> NoExec, lastQty |-> 0, lastPx |-> NoPrice, sid |-> NoSid]

(* Mutant: one turn too many.                                               *)
BenignTurnUnbounded(o) ==
    /\ pc = "loop"
    /\ i \notin injectAt
    /\ events' = Append(events, o)
    /\ t' = t + Dt
    /\ i' = i + 1
    /\ UNCHANGED <<pc, injectAt, injected, labels>>

(* A turn that injects nothing.                                             *)
BenignTurn(o) ==
    /\ pc = "loop" /\ i < NNormal
    /\ i \notin injectAt
    /\ events' = Append(events, o)
    /\ t' = t + Dt
    /\ i' = i + 1
    /\ UNCHANGED <<pc, injectAt, injected, labels>>

(* Mutant: half a second.                                                   *)
StepPastShort == ms(500)

StepPast == ms(2000)

(* A turn that also injects the next archetype of the cycle.                *)
InjectingTurn(o, abuser, mid, draws) ==
    LET archetype == Archetypes[(injected % Len(Archetypes)) + 1]
        made == Scenario(archetype,
                    [t0 |-> t + Dt, trader |-> abuser, symbol |-> mid, mid |-> mid,
                     sid |-> <<"abuse", injected + 1>>, draws |-> draws])
    IN  /\ pc = "loop" /\ i < NNormal
        /\ i \in injectAt
        /\ events' = Append(events, o) \o made.events
        /\ labels' = Append(labels, made.label)
        /\ injected' = injected + 1
        /\ t' = t + Dt + StepPast
        /\ i' = i + 1
        /\ UNCHANGED <<pc, injectAt>>

(* list.sort is stable: the place of the k-th of some events is after those *)
(* of an earlier time and those of the same time before it.                 *)
PlaceOf(evs, k) ==
    Cardinality({j \in DOMAIN evs :
        evs[j].t < evs[k].t \/ (evs[j].t = evs[k].t /\ j <= k)})

SortedByTime(evs) ==
    LET placed == {<<PlaceOf(evs, k), k>> : k \in DOMAIN evs}
    IN  [p \in DOMAIN evs |-> evs[(CHOOSE q \in placed : q[1] = p)[2]]]

(* events.sort by transact_time, and return.                                *)
Finish ==
    /\ pc = "loop" /\ i = NNormal
    /\ events' = SortedByTime(events)
    /\ pc' = "returned"
    /\ UNCHANGED <<i, t, injectAt, injected, labels>>

Turn(o) ==
    \/ BenignTurn(o)
    \/ \E abuser \in Abusers, mid \in Mids, draws \in Draws :
            InjectingTurn(o, abuser, mid, draws)

Next ==
    \/ \E who \in Normals, mid \in Mids, side \in BenignSides, qty \in BenignQty,
          move \in BenignMoves : Turn(BenignOrder(who, mid, side, qty, move))
    \/ Finish

Spec == Init /\ [][Next]_vars

-----------------------------------------------------------------------------
(* Properties *)

Returned == pc = "returned"

Table == {Row(events[k], k) : k \in DOMAIN events}

LabelSet == {labels[k] : k \in DOMAIN labels}

(* The abuser's own events of a labelled scenario.                          *)
OwnEvents(label) ==
    {events[k] : k \in {j \in DOMAIN events :
        events[j].sid = label.sid /\ events[j].trader = label.trader}}

TypeOK ==
    /\ pc \in {"loop", "returned"}
    /\ i \in 0..NNormal
    /\ t \in Nat
    /\ injectAt \subseteq 0..(NNormal - 1)
    /\ injected = Cardinality({k \in injectAt : k < i})
    /\ Len(labels) = injected
    /\ \A k \in DOMAIN events : events[k].t \in Nat /\ events[k].qty \in Nat \ {0}

(* Deduplication drops nothing of a generated stream: no two of its events  *)
(* share the columns dropDuplicates compares, although those do not include *)
(* what the event says (silver.py:35, generate_stream).                     *)
DedupKeepsTheStream == to_silver(to_bronze(Table)) = Table

(* A label tells the truth: the abuser's events of its scenario all lie in  *)
(* its window, on its instrument, and its ids are ids of such events        *)
(* (ScenarioLabel).                                                         *)
LabelsTrue ==
    \A label \in LabelSet :
        /\ \A e \in OwnEvents(label) :
              /\ e.symbol = label.symbol
              /\ label.start <= e.t /\ e.t <= label.end
        /\ label.ids \subseteq {e.id : e \in OwnEvents(label)}

(* A row is labelled positive exactly when the abuser of some scenario did  *)
(* something of it there (build_dataset).                                   *)
TrainingLabelsExact ==
    Returned =>
        \A key \in GoldKeys(Table) :
            y(LabelSet, key) = 1
              <=> \E label \in LabelSet : \E e \in OwnEvents(label) : KeyOf(e) = key

(* The model is trained on the features it is served: the pandas mirror     *)
(* computes of the finished stream what bronze, silver and gold compute of  *)
(* it, row by row and whatever ties of time the sorts break                 *)
(* (ml/dataset.py:4-5, gold_features and to_gold).                          *)
TrainingMatchesServing ==
    Returned =>
        LET silver == to_silver(to_bronze(Table))
        IN  \A key \in GoldKeys(Table) :
                {Restrict(g, FEATURES) : g \in GoldRows(silver, key)}
                    = gold_features(DataFrame(events), key)

(* Whatever shares a window, and whenever it happens, only labelled abusers *)
(* are alerted (the detectors on the stream's gold rows).                   *)
OnlyAbusersAlerted ==
    Returned => \A a \in Alerts(Gold(Table)) : a.trader \in Abusers

(* In the mixed windows of one trader's scenarios too, no gold row gets     *)
(* contradictory alerts, and round trips that alert are reportable.         *)
AlertsConsistent ==
    Returned =>
        \A g \in Gold(Table) :
            OneRoundTripAlert(g) /\ OneIntentAlert(g) /\ RoundTripsReportable(g)

(* The step takes the loop past the scenario (the comment on engine.py:74): *)
(* no benign order falls into a labelled window, and no two of them         *)
(* overlap.  Marking the close, which lasts longer than the step, is the    *)
(* one exception.                                                           *)
StepsPastScenario ==
    \A label \in {l \in LabelSet : l.type # "MARKING_THE_CLOSE"} :
        /\ \A k \in DOMAIN events :
              events[k].sid = NoSid =>
                ~(label.start <= events[k].t /\ events[k].t <= label.end)
        /\ \A other \in LabelSet :
              other.start >= label.start /\ other # label => other.start > label.end

(* marking_the_close takes t0 to be about 60 s before the close             *)
(* (scenarios.py:372): its window lies within the detector's closing window. *)
MarkedNearTheClose ==
    \A label \in LabelSet :
        label.type = "MARKING_THE_CLOSE" => TimeToClose(label.start) \in 0..CloseWindow

===============================================================================
