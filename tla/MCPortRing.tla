----------------------------- MODULE MCPortRing -----------------------------
(***************************************************************************)
(* Instances of PortRing and PortSave for TLC.                             *)
(***************************************************************************)
EXTENDS PortSave, TLC

\* A reader in another thread without lag and one with lag 2, one in the
\* writer's thread before the writer (lag 1) and one after it (lag 0).
MixedLag == (0 :> 0) @@ (1 :> 2) @@ (2 :> 1) @@ (3 :> 0)

\* One reader in another thread, of lag 2.
SaveLag == 0 :> 2
=============================================================================
