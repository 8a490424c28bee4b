----------------------------- MODULE MCRunningQty -----------------------------
(***************************************************************************)
(* The running totals of the instruments of the test, in every order and   *)
(* batching, with quantities that may cancel each other out.               *)
(***************************************************************************)
EXTENDS RunningQty

MCInstrument == {"RY", "BNS"}

MCQty == {3, -3}

===============================================================================
