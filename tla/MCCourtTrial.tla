----------------------------- MODULE MCCourtTrial ------------------------------
(* Model values for CourtTrial. *)
EXTENDS CourtTrial, TLC

\* Calls are interchangeable: nothing distinguishes two goroutines but their
\* state.
Symmetry == Permutations(Calls)
================================================================================
