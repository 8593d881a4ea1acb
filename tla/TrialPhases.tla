------------------------------ MODULE TrialPhases ------------------------------
(***************************************************************************)
(* The pure part of a trial: courtroom/statemachine.go.  Which phase may   *)
(* follow which, which user action each phase admits, and how many rounds  *)
(* of cross-examination a mode allows.                                     *)
(***************************************************************************)
EXTENDS Naturals

\* The phases the state machine knows.  "clarification" and
\* "option_generation" are declared in model/db.go and used nowhere.
Phases == {"idle", "opening", "evidence", "cross_exam", "closing",
           "deliberation", "verdict", "appeal"}

Successors ==
  [idle         |-> {"opening", "closing"},
   opening      |-> {"evidence", "cross_exam", "closing"},
   evidence     |-> {"cross_exam", "closing"},
   cross_exam   |-> {"cross_exam", "closing"},
   closing      |-> {"deliberation"},
   deliberation |-> {"verdict"},
   verdict      |-> {"appeal", "evidence"},
   appeal       |-> {"evidence", "closing"}]

CanTransition(from, to) == to \in Successors[from]

Modes == {"quick", "standard", "deep"}

RoundsOf(mode) == IF mode = "quick" THEN 2 ELSE IF mode = "deep" THEN 5 ELSE 3

\* No evidence and no investigation once the trial is being closed.
Debating == Phases \ {"closing", "deliberation", "verdict", "appeal"}

\* The phases in which ValidateAction admits each action.
Admits ==
  [start                 |-> {"idle"},
   submit_evidence       |-> Debating,
   direct_verdict        |-> Phases \ {"verdict", "idle"},
   skip_agent            |-> Phases,
   dispatch_investigator |-> Debating,
   interrupt             |-> {"opening", "evidence", "cross_exam", "closing"},
   continue_cross_exam   |-> {"cross_exam", "evidence"},
   start_cross_exam      |-> {"opening"},
   reopen_trial          |-> {"verdict", "appeal"},
   force_skip_opening    |-> {"opening"},
   restart_opening       |-> {"opening"}]

ValidateAction(phase, action) == phase \in Admits[action]
================================================================================
