--------------------------- MODULE MCMeshagatchiIpc ---------------------------
(* Instances of MeshagatchiIpc for TLC. *)
EXTENDS MeshagatchiIpc, TLC

\* Calls of the event tool are interchangeable (safety only).
Symmetry == Permutations(Tools)
=============================================================================
