---- MODULE MCSystem ----
(* System on a small instance. *)
EXTENDS System

\* Callers carry no meaning beyond their identity.
Symmetry == Permutations(Callers) \cup Permutations(SessionCallers)

====
