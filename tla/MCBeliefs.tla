------------------------------- MODULE MCBeliefs -------------------------------
(* Model values for Beliefs. *)
EXTENDS Beliefs

\* An answer for A that exceeds the scale, and words against A.
MCRatings == {[a |-> 250, b |-> -50, c |-> 100, r |-> 100]}
MCScores == {-90}

\* A judge nearly certain of A, on the scale of 0 to 100.
MCRulings == {<<9700, 300>>}
================================================================================
