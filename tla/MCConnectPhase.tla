---------------------------- MODULE MCConnectPhase ----------------------------
(***************************************************************************)
(* Systems of three voices for TLC to connect.                             *)
(***************************************************************************)
EXTENDS ConnectPhase

\* A loop through three voices that output 1 starts.  Output 4 of the first voice, which
\* follows, goes to both others, as their first stream from there and as a later one.
Loop ==
    [home  |-> <<0, 1, 2, 0>>,
     needs |-> <<{3}, {1, 4}, {2, 4}, {2, 4}>>,
     owner |-> <<1, 2, 3, 1>>,
     after |-> <<{}, {1}, {2}, {3}>>,
     all   |-> {4}]

\* The links run against the order of voices and of processes, so that every global
\* pass can connect one more; output 4 follows the second input of its process.
Against ==
    [home  |-> <<0, 0, 1, 2>>,
     needs |-> <<{2}, {3, 4}, {4}, {}>>,
     owner |-> <<1, 2, 3, 4>>,
     after |-> <<{2}, {3, 4}, {4}, {}>>,
     all   |-> {2}]

\* Two processes wait for one another; the rest can be connected.
Circular ==
    [home  |-> <<0, 1, 2, 2>>,
     needs |-> <<{2}, {1, 3}, {}, {3, 4}>>,
     owner |-> <<1, 2, 3, 4>>,
     after |-> <<{2}, {1}, {}, {3}>>,
     all   |-> {2}]

\* Every system of three processes with one output each, which is created at once,
\* after all inputs have been seen one by one, or only when they are all there.
Others == [p \in 1 .. 3 |-> SUBSET (1 .. 3 \ {p})]

Every(home) ==
    {[home  |-> home,
      needs |-> n,
      owner |-> <<1, 2, 3>>,
      after |-> [p \in 1 .. 3 |-> IF kind[p] = "early" THEN {} ELSE n[p]],
      all   |-> {p \in 1 .. 3 : kind[p] = "all"}] :
        n \in {f \in [1 .. 3 -> SUBSET (1 .. 3)] : \A p \in 1 .. 3 : f[p] \in Others[p]},
        kind \in [1 .. 3 -> {"early", "late", "all"}]}

SomeSystems == {Loop, Against, Circular} \cup Every(<<0, 1, 2>>) \cup Every(<<2, 0, 2>>)
=============================================================================
