------------------------------ MODULE MCSession ------------------------------
(***************************************************************************)
(* Three voices for TLC, each with a link to the next.                     *)
(***************************************************************************)
EXTENDS Session

Chain == [v \in Voice |-> {v + 1} \cap Voice]

\* Bound of the run.  A voice may have one error, cancel or crash, that in the middle two;
\* and two voices may have one each, of those that the chain ends with.
TwoInTheMiddle == [v \in Voice |-> IF v = 1 THEN 2 ELSE 1]

FewTroubles == \/ troubles[0] = 0 /\ troubles[1] + troubles[2] <= 2
               \/ troubles[1] = 0 /\ troubles[2] = 0

MCNext == Next /\ FewTroubles'

\* No step that is fair is an error, a cancel or a crash, so the bound forbids none of them.
MCSpec == Init /\ [][MCNext]_vars /\ Fairness
=============================================================================
