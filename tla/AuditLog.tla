------------------------------- MODULE AuditLog -------------------------------
(***************************************************************************)
(* What the audit chain promises its users, without hashes, links or       *)
(* loops: there is one log that only grows; a question is a list of        *)
(* claims, each saying what was logged and after which history; the answer *)
(* is True exactly when the claims are the log from its first statement    *)
(* on, as far as they go.                                                  *)
(***************************************************************************)
EXTENDS Naturals, Sequences

CONSTANTS
    Statement,  \* what may be logged
    Utterance   \* what a claim may say: any Statement, and more

VARIABLES
    log,     \* everything said so far
    asked,   \* the claims of the last question
    answer   \* "none" before the first question, "pending", or the answer

vars == <<log, asked, answer>>

Claim == [says : Utterance, after : Seq(Statement)]

(* The k-th claim names the k-th statement and the log as it was then. *)
Holds(claims) ==
    /\ Len(claims) <= Len(log)
    /\ \A k \in 1..Len(claims) :
        /\ claims[k].says = log[k]
        /\ claims[k].after = SubSeq(log, 1, k)

Init ==
    /\ log = <<>>
    /\ asked = <<>>
    /\ answer = "none"

Say(s) ==
    /\ answer # "pending"
    /\ log' = Append(log, s)
    /\ UNCHANGED <<asked, answer>>

Ask ==
    /\ answer # "pending"
    /\ asked' \in Seq(Claim)
    /\ answer' = "pending"
    /\ UNCHANGED log

(* A claim that cannot even be rendered may be refused aloud. *)
Answer ==
    /\ answer = "pending"
    /\ answer' \in IF Holds(asked) THEN {"True"} ELSE {"False", "raised"}
    /\ UNCHANGED <<log, asked>>

Next == (\E s \in Statement : Say(s)) \/ Ask \/ Answer

Spec == Init /\ [][Next]_vars

===============================================================================
