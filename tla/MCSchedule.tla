------------------------------ MODULE MCSchedule ------------------------------
(***************************************************************************)
(* Four processes and two voices for TLC to schedule.                      *)
(***************************************************************************)
EXTENDS Schedule

\* Every set of at most three zero-lag links: chains, forks, joins, and the loops of one,
\* two and three processes.
FewLinks == {L \in SUBSET (Process \X Process) : Cardinality(L) <= 3}

\* The name of a process starts with no ident, with one of the first group, or with
\* idents of both, of which the second's is longer; the file may name a group's voice.
Fits == {<<0, 0>>, <<1, 0>>, <<1, 2>>}

TwoGroups ==
    {[g \in 1 .. 2 |-> [fit |-> [p \in Process |-> fit[p][g]], named |-> named[g]]] :
        fit \in [Process -> Fits], named \in {<<-1, -1>>, <<1, -1>>}}

\* All but process 2 run in the same binding, which is not thread-safe.
Classes == <<"1258", "std", "1258", "1258">>
=============================================================================
