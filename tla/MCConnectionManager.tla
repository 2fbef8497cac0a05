------------------------- MODULE MCConnectionManager -------------------------
(* Instances of ConnectionManager for TLC. *)
EXTENDS ConnectionManager, TLC

\* Callers with the same rights, supervisor threads and interfaces are
\* interchangeable (no liveness is checked in the runs that use the symmetry).
Symmetry == Permutations(Callers) \cup Permutations(Supervisors)
            \cup Permutations(Ifaces)
=============================================================================
