--------------------------- MODULE MCRemoteStream ---------------------------
(***************************************************************************)
(* An instance of RemoteStream for TLC.                                    *)
(***************************************************************************)
EXTENDS RemoteStream

\* One peer voice, which reads through a link of lag 1.
OneLag == [p \in 1 .. 1 |-> 1]
=============================================================================
