---------------------------- MODULE MCStreamEngine ----------------------------
(***************************************************************************)
(* A short stream in which each archetype is injected once.                *)
(***************************************************************************)
EXTENDS StreamEngine

MCNormals == {<<"T", 0>>}
MCAbusers == {<<"A", 0>>, <<"A", 1>>}

(* t_start's default is 01:06:40 of its day ...                             *)
Default == {400000}

(* ... the others put the scenarios across a window boundary, and the last  *)
(* of them, marking the close, about 60 s before the close.                 *)
MCStarts == Default \cup {WindowLen * 100 - 600, CloseOfDay - 68 * Second}

(* Five cents below the mid, and five above.                                *)
EitherEnd == {-5, 5}

(* randint makes the lower end of every range of 0, the upper end of 47.    *)
MCDraws == {[k \in 1..6 |-> IF k % 2 = 1 THEN 47 ELSE 0]}

===============================================================================
