---------------------------- MODULE TrialLifecycle -----------------------------
(***************************************************************************)
(* What a trial promises the people in it, said over the persistent row    *)
(* only: the debate moves forward one round at a time, it is closed at the *)
(* round it has reached, a verdict weighs all the evidence submitted and   *)
(* is published once it is written, a trial is completed only with its     *)
(* verdict published, and a reopened trial goes on where it stopped.       *)
(* CourtTrial implements it as long as requests do not overlap.            *)
(***************************************************************************)
EXTENDS TrialPhases

CONSTANT MaxRounds

VARIABLES phase, round, status, verdict, evidence

vars == <<phase, round, status, verdict, evidence>>

Init ==
  /\ phase = "idle" /\ round = 0 /\ status = "active"
  /\ evidence = 0
  /\ verdict = [round |-> 0, evidence |-> 0, written |-> FALSE]

Open ==
  /\ phase = "idle"
  /\ phase' = "opening"
  /\ UNCHANGED <<round, status, verdict, evidence>>

NextRound ==
  /\ phase \in {"opening", "evidence", "cross_exam"}
  /\ round < MaxRounds
  /\ phase' = "cross_exam" /\ round' = round + 1
  /\ UNCHANGED <<status, verdict, evidence>>

Submit ==
  /\ phase \in Debating
  /\ evidence' = evidence + 1
  /\ UNCHANGED <<phase, round, status, verdict>>

Close ==
  /\ phase \in {"opening", "evidence", "cross_exam"}
  /\ phase' = "closing"
  /\ UNCHANGED <<round, status, verdict, evidence>>

Retire ==
  /\ phase = "closing"
  /\ phase' = "deliberation"
  /\ UNCHANGED <<round, status, verdict, evidence>>

Decide ==
  /\ phase = "deliberation"
  /\ verdict' = [round |-> round, evidence |-> evidence, written |-> TRUE]
  /\ UNCHANGED <<phase, round, status, evidence>>

Publish ==
  /\ phase = "deliberation"
  /\ verdict = [round |-> round, evidence |-> evidence, written |-> TRUE]
  /\ phase' = "verdict"
  /\ UNCHANGED <<round, status, verdict, evidence>>

Complete ==
  /\ phase = "verdict"
  /\ status' = "completed"
  /\ UNCHANGED <<phase, round, verdict, evidence>>

Reopen ==
  /\ phase = "verdict"
  /\ phase' = "evidence"
  /\ UNCHANGED <<round, status, verdict, evidence>>

Reactivate ==
  /\ phase = "evidence"
  /\ status' = "active"
  /\ UNCHANGED <<phase, round, verdict, evidence>>

Next == \/ Open \/ NextRound \/ Submit \/ Close \/ Retire \/ Decide
        \/ Publish \/ Complete \/ Reopen \/ Reactivate

Spec == Init /\ [][Next]_vars
================================================================================
