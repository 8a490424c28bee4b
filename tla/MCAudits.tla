------------------------------- MODULE MCAudits -------------------------------
(***************************************************************************)
(* What is hashed, and how: field lists of values of every type, among     *)
(* them the ones that look alike, and the alerts of two detectors with     *)
(* different thresholds and regulations and with names that would run      *)
(* together without a separator (a + bb, ab + b).  Alerts are hashed with  *)
(* the grammar the lists are written in; apart from that the two have      *)
(* nothing to do with each other, and one rests while the other moves.     *)
(***************************************************************************)
EXTENDS FieldLists, AlertAudit, TLC

wash == Word("WASH_TRADE")
front == Word("FRONT_RUNNING")
a == Word("a")
b == Word("b")

MCDetector == {wash, front}
MCThreshold == wash :> 600000000 @@ front :> 500000000
MCRegRefs ==
    wash  :> [list |-> <<Str(Word("UMIR_2.2")), Str(Word("MIFID_II_ART12"))>>]
 @@ front :> [list |-> <<Str(Word("UMIR_4.1")), Str(Word("MIFID_II_ART12"))>>]

MCTrader == {a, a \o b}
MCInstrument == {b, b \o b}

(* The greatest score there is, and doubles above a fifth.                  *)
MCPlainRuleScore ==
    {[float |-> 1000000000, off |-> 0], [float |-> 600000000, off |-> 1]}

(* With them 257/512, exactly half a unit of the eighth decimal, and a      *)
(* double that looks at 8 decimals as Scala makes 257/512 look.             *)
MCRuleScore ==
    MCPlainRuleScore
    \cup {[float |-> 501953125, off |-> 0], [float |-> 501953131, off |-> 1]}

MCMlScore == {[float |-> 730000000, off |-> -1]}

(* The double below 0.73, and 1.0.                                          *)
MCPlainScores == {[float |-> 730000000, off |-> -1], [float |-> 1000000000, off |-> 0]}

(* Doubles at half a unit of the eighth decimal: 1/512 and 3/512, exactly,  *)
(* and the doubles below 0.123456785 and above 0.123456775.                 *)
MCHalfScores ==
    {[float |-> 1953125, off |-> 0], [float |-> 5859375, off |-> 0],
     [float |-> 123456785, off |-> -1], [float |-> 123456775, off |-> 1]}

MCLists ==
    {Empty, [list |-> <<Str(a), Str(b)>>],
     [list |-> <<Str(a), [list |-> <<Str(b)>>]>>],
     [list |-> <<[float |-> 1953125, off |-> 0]>>]}

MCValue ==
    {Null, [bool |-> TRUE], [int |-> 1],
     Str(<<>>), Str(Digits(1)), Str(a), Str(b), Str(a \o b),
     Str(a \o <<US>> \o b), Str(a \o <<RS>> \o b)}
    \cup MCPlainScores \cup MCHalfScores \cup MCLists

(* Bound: alerts and changes together.                                      *)
MaxSteps == 3

MCInit == ListsInit /\ Init

MCNext ==
    \/ ListsNext /\ issued = <<>> /\ UNCHANGED vars
    \/ /\ ours = <<>> /\ theirs = <<>> /\ UNCHANGED lists
       /\ Next
       /\ Len(issued') + changes' <= MaxSteps

MCSpec == MCInit /\ [][MCNext]_<<lists, vars>>

===============================================================================
