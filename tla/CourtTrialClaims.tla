--------------------------- MODULE CourtTrialClaims ----------------------------
(***************************************************************************)
(* What comments, docs and tests of the repository say of a trial and      *)
(* CourtTrial shows not to hold: one property for each, next to the words  *)
(* it states.  Each is checked by a run of its own that must find it       *)
(* violated.                                                               *)
(***************************************************************************)
EXTENDS CourtTrial

\* A published verdict is left only by appealing or reopening: the execution
\* path validates the action itself (service.go:807-809, statemachine.go:31).
VerdictNotUndone ==
  [][phase = "verdict" /\ phase' # phase => CanTransition("verdict", phase')]_vars

--------------------------------------------------------------------------------
(* Resumption after a crash, for a user who keeps asking for the verdict and *)
(* a recovery that does run.                                                 *)

InsistentUser ==
  \A c \in Calls : WF_vars(Request(c, "direct_verdict")) /\ SF_vars(Recover(c))

InsistentSpec == FairSpec /\ InsistentUser

\* A deliberation that a crash interrupted goes on with the next action
\* (recovery.go:143-146).
DeliberationResumes == phase = "deliberation" ~> phase # "deliberation"
================================================================================
