----------------------------- MODULE SyncBarrier -----------------------------
(***************************************************************************)
(* What Comms::synchronize promises: a barrier used again and again.  A    *)
(* voice enters a round and leaves it when all the others have entered it  *)
(* too.  A voice may stop anywhere; one that stops before it has entered a *)
(* round keeps all the others in it.                                       *)
(***************************************************************************)
EXTENDS Integers

CONSTANTS
    Voice,     \* those that synchronize
    Rounds     \* how many times, a natural number

VARIABLES
    entered,   \* rounds each voice has entered
    passed     \* rounds each voice has left

vars == <<entered, passed>>

Init ==
    /\ entered = [v \in Voice |-> 0]
    /\ passed = [v \in Voice |-> 0]

Enter(v) ==
    /\ entered[v] = passed[v] /\ entered[v] < Rounds
    /\ entered' = [entered EXCEPT ![v] = @ + 1]
    /\ UNCHANGED passed

Pass(v) ==
    /\ passed[v] < entered[v]
    /\ \A w \in Voice : entered[w] > passed[v]
    /\ passed' = [passed EXCEPT ![v] = @ + 1]
    /\ UNCHANGED entered

Next == \E v \in Voice : Enter(v) \/ Pass(v)

Spec == Init /\ [][Next]_vars
=============================================================================
