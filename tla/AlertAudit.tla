------------------------------ MODULE AlertAudit ------------------------------
(***************************************************************************)
(* The alerts the detectors emit (Emit.scala), with their ids and audit    *)
(* hashes, and what becomes of them downstream: the ML layer fills its     *)
(* fields, and a stored alert may be altered.  Python recomputes an audit  *)
(* hash from the contract (alert_contract.py); Scala made it.              *)
(*                                                                         *)
(* SHA-256 is modelled without collisions, as the bytes themselves; so is  *)
(* the part of it an alert id keeps.                                       *)
(***************************************************************************)
EXTENDS ByteGrammar, FiniteSetsExt

CONSTANTS
    Detector,    \* names of detectors, as texts
    Threshold,   \* detector -> score in 10^-9
    RegRefs,     \* detector -> list value
    Trader, Instrument,  \* bound: names, as texts
    Window,      \* bound: window starts
    WindowLen,
    RuleScore, MlScore,  \* bound: scores
    Now,         \* bound: values of createdAt
    MaxAlerts,   \* bound: alerts emitted
    MaxChanges   \* bound: fields changed downstream

VARIABLES
    issued,   \* the alerts as they were emitted
    held,     \* the same alerts as they are held now
    changes   \* fields filled or altered so far

vars == <<issued, held, changes>>

Str(text) == [str |-> text]
Int32(n)  == [int |-> n]
Null      == [null |-> 0]
Empty     == [list |-> <<>>]

(* The digest of bytes, one token wherever it is part of a text.            *)
sha256Hex(bytes) == <<[sha256 |-> bytes]>>

(* Mutant: the parts are put together without separators.                   *)
ofPlain(detector, trader, instrument, start, end) ==
    sha256Hex(detector \o trader \o instrument \o Digits(start) \o Digits(end))

(* AlertId.of                                                               *)
of(detector, trader, instrument, start, end) ==
    sha256Hex(canonicalBytes(<<Str(detector), Str(trader), Str(instrument),
                               Int32(start), Int32(end)>>))

Fifth == One \div 5

(* Mutant: rounded down and one added.                                      *)
fromRuleScoreDown(s) == {s.float \div Fifth + 1}

(* Severity.fromRuleScore: the next whole number of fifths.  The product is *)
(* one of doubles: of a score above a fifth by less than 10^-9 it is that   *)
(* fifth or more.                                                           *)
fromRuleScore(s) ==
    LET raw  == (s.float + Fifth - 1) \div Fifth
        raws == IF s.float % Fifth = 0 /\ s.off > 0 THEN {raw, raw + 1} ELSE {raw}
    IN  {Min({5, Max({1, r})}) : r \in raws}

(* Mutant: severity is left out of the hash.                                *)
auditedNoSeverity(a) ==
    <<a.alert_id, a.detector, a.trader_id, a.instrument, a.window_start,
      a.window_end, a.rule_score, Null, Empty, a.regulation_refs, a.desk,
      a.created_at>>

(* The fields Emit hashes, in the order it writes them down.                *)
audited(a) ==
    <<a.alert_id, a.detector, a.trader_id, a.instrument, a.window_start,
      a.window_end, a.severity, a.rule_score, Null, Empty, a.regulation_refs,
      a.desk, a.created_at>>

(* The alert Emit.fromScore makes.                                          *)
NewAlert(name, trader, instrument, start, s, sev, createdAt) ==
    LET end  == start + WindowLen
        body == [alert_id             |-> Str(of(name, trader, instrument, start, end)),
                 detector             |-> Str(name),
                 trader_id            |-> Str(trader),
                 instrument           |-> Str(instrument),
                 window_start         |-> Int32(start),
                 window_end           |-> Int32(end),
                 severity             |-> Int32(sev),
                 rule_score           |-> s,
                 ml_score             |-> Null,
                 shap_top_features    |-> Empty,
                 triggering_event_ids |-> Empty,
                 regulation_refs      |-> RegRefs[name],
                 desk                 |-> Str(Word("equity")),
                 created_at           |-> Int32(createdAt)]
    IN  [f \in DOMAIN body \cup {"audit_hash"} |->
            IF f = "audit_hash" THEN sha256Hex(canonicalBytes(audited(body))) ELSE body[f]]

Probability(v) == Is(v, "float") /\ v.float \in 0..One

(* Alert of the contract: the types of its fields and their ranges.         *)
IsAlert(a) ==
    /\ \A f \in {"alert_id", "detector", "trader_id", "instrument", "desk"} :
        Is(a[f], "str")
    /\ a.detector.str \in Detector
    /\ \A f \in {"window_start", "window_end", "severity", "created_at"} :
        Is(a[f], "int")
    /\ a.severity.int \in 1..5
    /\ Probability(a.rule_score)
    /\ a.ml_score = Null \/ Probability(a.ml_score)
    /\ \A f \in {"shap_top_features", "triggering_event_ids", "regulation_refs"} :
        Is(a[f], "list")

IsName(t) == IsSequence(t) /\ Separators \cap Range(t) = {}

IsReference(v) == Is(v, "str") /\ v = Str(v.str) /\ v.str # <<>> /\ IsName(v.str)

(* Names and references to regulations hold no separators: the former come  *)
(* from instruments.py, traders.py and the enum of detectors, the latter    *)
(* from the callers of Emit.                                                *)
ASSUME AlertAssumption ==
    /\ \A name \in Detector \cup Trader \cup Instrument : IsName(name)
    /\ \A name \in Detector : IsListOf(RegRefs[name], IsReference)
    /\ Window \cup Now \cup {WindowLen} \subseteq Int
    /\ \A s \in RuleScore \cup MlScore : IsScalar(s) /\ Probability(s)
    /\ MaxAlerts \in Nat /\ MaxChanges \in Nat

ALERT_HASH_FIELD_ORDER ==
    <<"alert_id", "detector", "trader_id", "instrument", "window_start",
      "window_end", "severity", "rule_score", "ml_score", "triggering_event_ids",
      "regulation_refs", "desk", "created_at">>

(* The contract's fields of an alert, in the contract's order.              *)
HashFields(a) ==
    [k \in DOMAIN ALERT_HASH_FIELD_ORDER |-> a[ALERT_HASH_FIELD_ORDER[k]]]

-----------------------------------------------------------------------------

Init ==
    /\ issued = <<>>
    /\ held = <<>>
    /\ changes = 0

fromScore(name, trader, instrument, start, s, createdAt) ==
    /\ Len(issued) < MaxAlerts
    /\ s.float >= Threshold[name]
    /\ \E sev \in fromRuleScore(s) :
        LET new == NewAlert(name, trader, instrument, start, s, sev, createdAt)
        IN  issued' = Append(issued, new) /\ held' = Append(held, new)
    /\ UNCHANGED changes

Change(k, f, v) ==
    /\ changes < MaxChanges
    /\ changes' = changes + 1
    /\ held' = [held EXCEPT ![k][f] = v]
    /\ UNCHANGED issued

(* The ML layer fills ml_score and the explanation (alert_contract.py:53).  *)
FillScore(k, s)  == held[k].ml_score = Null /\ Change(k, "ml_score", s)
Explain(k, s)    == Change(k, "shap_top_features", [list |-> <<s>>])

(* A stored field takes the value it has in another alert, or is cleared.   *)
Alter(k, f) ==
    \/ \E j \in DOMAIN issued : Change(k, f, issued[j][f])
    \/ f = "regulation_refs" /\ Change(k, f, Empty)

Next ==
    \/ \E name \in Detector, trader \in Trader, instrument \in Instrument,
          start \in Window, s \in RuleScore, createdAt \in Now :
            fromScore(name, trader, instrument, start, s, createdAt)
    \/ \E k \in DOMAIN held :
        \/ \E s \in MlScore : FillScore(k, s) \/ Explain(k, s)
        \/ \E f \in DOMAIN held[k] \ {"audit_hash"} : Alter(k, f)

Spec == Init /\ [][Next]_vars

-----------------------------------------------------------------------------
(* Properties *)

(* What Scala emits is an alert of the Python contract                      *)
(* (alert_contract.py:41-59), and stays one downstream.                     *)
TypeOK ==
    /\ Len(held) = Len(issued)
    /\ changes \in 0..MaxChanges
    /\ \A k \in DOMAIN held :
        /\ IsAlert(issued[k]) /\ IsAlert(held[k])
        /\ issued[k].rule_score.float >= Threshold[issued[k].detector.str]

(* Two alerts have one id exactly when they are about one detector, trader, *)
(* instrument and window: detecting again names the same alert, and names   *)
(* that run together do not collide (AlertId.of).                           *)
AlertIdsNameWindows ==
    \A j, k \in DOMAIN issued :
        issued[j].alert_id = issued[k].alert_id
          <=> \A f \in {"detector", "trader_id", "instrument", "window_start"} :
                issued[j][f] = issued[k][f]

Verifies(a) == a.audit_hash = sha256Hex(canonical_bytes(HashFields(a)))

(* The hash Scala put into an alert is the one Python makes of the alert it *)
(* holds, by the contract's field order, exactly when every field of that   *)
(* order still says what was emitted.  The rule score says it at 8 decimals *)
(* and as either side rounds: a half-way score may not verify untouched, a  *)
(* change below 8 decimals does.  An altered field and a filled ml_score    *)
(* show, an explanation does not (Emit.fromScore, ALERT_HASH_FIELD_ORDER).  *)
AuditHashExact ==
    \A k \in DOMAIN held :
        Verifies(held[k]) <=>
            /\ canonical_field(held[k].rule_score) = canonicalField(issued[k].rule_score)
            /\ \A f \in Range(ALERT_HASH_FIELD_ORDER) \ {"rule_score"} :
                 held[k][f] = issued[k][f]

(* What Emit.scala:6-7 promises: detector audit hashes verify on the other  *)
(* side, of alerts nobody altered and at most the ML layer filled           *)
(* (alert_contract.py:53-54).                                               *)
FilledVerifies ==
    \A k \in DOMAIN held :
        (\A f \in DOMAIN issued[k] \ {"ml_score", "shap_top_features"} :
            held[k][f] = issued[k][f])
        => Verifies(held[k])

===============================================================================
