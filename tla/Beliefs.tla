-------------------------------- MODULE Beliefs --------------------------------
(***************************************************************************)
(* What the agents of a trial believe and when the debate ends on it: the  *)
(* log-odds engine that evidence drives (belief/engine_v06.go, diff.go,    *)
(* anchoring.go), the step a speech takes (courtroom/service.go), the      *)
(* judge's rulings (agent/orchestrator.go, probability.go), the snapshots  *)
(* of a round and the signals of convergence (belief/convergence.go).      *)
(*                                                                         *)
(* A belief is belief_a in hundredths, a log-odds is in thousandths; the   *)
(* session lock is held from PickRound to the end of the round, so that    *)
(* the handlers of one session take turns. Writes, reads and LLM calls     *)
(* fail at will. Crashes and interleavings are Casework's and CourtTrial's.*)
(***************************************************************************)
EXTENDS Integers, Sequences, FiniteSets

CONSTANTS
  Modes,        \* court_sessions.max_rounds: 2, 3 or 5 (quick, standard, deep)
  Ratings,      \* what the LLM may answer of an evidence, in percent and out of range too
  Scores,       \* what its keywords may add up to, in percent
  Rulings,      \* the pairs the judge may answer, in percent
  SpeechStep,   \* what a confident speech moves its speaker by (the code's 5)
  MaxEvidence,  \* bound: pieces of evidence
  MaxRepeats,   \* bound: rounds run again by a request that read an old row
  MaxFaults     \* bound: calls that fail

ASSUME BeliefsAssumption ==
  /\ Modes \subseteq Nat \ {0} /\ Modes # {}
  /\ Ratings \subseteq [a : Int, b : Int, c : Int, r : Int] /\ Scores \subseteq Int
  /\ Rulings \subseteq Int \X Int
  /\ {SpeechStep, MaxEvidence, MaxRepeats, MaxFaults} \subseteq Nat

VARIABLES
  belief,   \* agents.belief_a
  trail,    \* posterior_belief_a of the last row of belief_diffs of each agent
  diffs,    \* what the evidence just submitted has done to each agent
  prev,     \* belief_snapshots of the round before this one
  curr,     \* belief_snapshots of this round, oldest first
  limit,    \* max_rounds of the session
  round,    \* current_round
  pc,       \* what the request that holds the lock does next
  spoken,   \* the lawyers whose speech of this round is saved
  alike,    \* both speeches of the round are saved and use nearly the same words
  stable,   \* the session's entry in stableRounds
  ended,    \* why the trial is being finished or over, "" while the debate goes on
  evidence, repeats, faults   \* for the bounds

vars == <<belief, trail, diffs, prev, curr, limit, round, pc, spoken, alike, stable,
          ended, evidence, repeats, faults>>

Lawyers == {"prosecutor", "defender"}

\* The agents that hold a belief, in the order of their rows; the investigator
\* is moved by evidence in memory and keeps its row, the clerk is never moved.
Holders == <<"prosecutor", "defender", "judge">>
Agents == {"prosecutor", "defender", "investigator", "judge"}

--------------------------------------------------------------------------------
(* Numbers. *)

\* Log-odds of 0.50, 0.51, ... 0.99, and of the epsilon short of 1.
LogOdds == <<0, 40, 80, 120, 160, 201, 241, 282, 323, 364, 405, 447, 490, 532,
  575, 619, 663, 708, 754, 800, 847, 895, 944, 995, 1046, 1099, 1153, 1208, 1266,
  1325, 1386, 1450, 1516, 1586, 1658, 1735, 1815, 1901, 1992, 2091, 2197, 2314,
  2442, 2587, 2752, 2944, 3178, 3476, 3892, 4595, 13816>>

Logit(p) == IF p >= 50 THEN LogOdds[p - 49] ELSE -LogOdds[51 - p]

Clamp(v, lo, hi) == IF v < lo THEN lo ELSE IF v > hi THEN hi ELSE v

\* The visible belief whose log-odds is nearest: Sigmoid, clamped to 0.05..0.95.
Sigmoid(z) == 5 + Cardinality({p \in 6..95 : Logit(p - 1) + Logit(p) <= 2 * z})

\* A division that treats both sides of zero alike.
Tenth(x) == IF x >= 0 THEN x \div 10 ELSE -((-x) \div 10)

Anchors == [prosecutor   |-> [priorA |-> 70, uptake |-> 4, anchor |-> 7],
            defender     |-> [priorA |-> 30, uptake |-> 4, anchor |-> 7],
            investigator |-> [priorA |-> 50, uptake |-> 8, anchor |-> 2],
            judge        |-> [priorA |-> 50, uptake |-> 6, anchor |-> 3]]

\* An answer on the scale of 0 to 100 is recognised, then the pair sums to 1.
ClampPair(pair) ==
  LET whole == IF pair[1] + pair[2] > 150 THEN 10000 ELSE 100
      a == Clamp(pair[1], 0, whole)
      b == Clamp(pair[2], 0, whole)
  IN  IF a + b > 0 THEN (100 * a) \div (a + b) ELSE 50

--------------------------------------------------------------------------------
(* What an evidence is found to say: its impact on A and on B, and how much it *)
(* counts, credibility times relevance.                                        *)

\* The LLM's answer, brought into range.
Rated(e) == [a |-> Clamp(e.a, -100, 100), b |-> Clamp(e.b, -100, 100),
             cr |-> (Clamp(e.c, 0, 100) * Clamp(e.r, 0, 100)) \div 100]

\* estimateImpact, with a credibility of 0.85 and a relevance of 0.8.
Estimated(score) ==
  LET a == Clamp(score, -80, 80) IN [a |-> a, b |-> -(a \div 2), cr |-> 68]

\* Without a client, an answer, or an answer that parses, the keywords decide.
Evaluations == {Rated(e) : e \in Ratings} \union {Estimated(score) : score \in Scores}

--------------------------------------------------------------------------------
(* The engine. *)

\* Confirmed or contradicted: whether the evidence leans where the agent leans.
ConfirmationSign(p, e) ==
  IF p = 50 THEN (IF e.a >= e.b THEN 1 ELSE -1)
  ELSE IF (p > 50) <=> (e.a > e.b) THEN 1 ELSE -1

Weight(e) == (e.cr * (IF e.a >= 0 THEN e.a ELSE -e.a)) \div 100

\* ln 2 is 693 thousandths; uptake is in tenths, the weight in hundredths.
Shift(a, p, e) == ConfirmationSign(p, e) * ((Anchors[a].uptake * Weight(e) * 693) \div 1000)

\* The evidence moves the log-odds and the anchor pulls them back; a pull that
\* would turn the step around is left out.
Posterior(a, p, e) ==
  LET kept  == 10 - Anchors[a].anchor
      step  == Tenth(kept * Shift(a, p, e))
      moved == Tenth(kept * (Logit(p) + Shift(a, p, e)) + Anchors[a].anchor * Logit(Anchors[a].priorA))
  IN  Sigmoid(IF (moved - Logit(p)) * Shift(a, p, e) < 0 THEN Logit(p) + step ELSE moved)

Moved(e) == {a \in Agents : Shift(a, belief[a], e) # 0}

\* The row of belief_diffs the evidence gives an agent, and the direction the
\* engine gave it.
Diff(a, e) == [prior |-> belief[a], posterior |-> Posterior(a, belief[a], e),
               sign |-> ConfirmationSign(belief[a], e)]

--------------------------------------------------------------------------------
Start == [prosecutor |-> 75, defender |-> 25, investigator |-> 50, judge |-> 50]

Init ==
  /\ belief = Start /\ trail = Start /\ diffs = {}
  /\ prev = <<>> /\ curr = <<>> /\ limit \in Modes /\ round = 0 /\ pc = "idle"
  /\ spoken = {} /\ alike = FALSE /\ stable = 0 /\ ended = ""
  /\ evidence = 0 /\ repeats = 0 /\ faults = 0

Fault == faults < MaxFaults /\ faults' = faults + 1
Fine == UNCHANGED faults

rows == <<belief, trail>>
Quiet == diffs' = {}
debate == <<prev, curr, limit, round, spoken, alike, stable, ended, repeats>>

\* Every agent is moved in memory, the diffs are inserted (one that cannot be
\* is passed over), and then the rows are written in turn until one fails.
SubmitEvidence(e) ==
  LET new == [a \in Agents |-> Posterior(a, belief[a], e)] IN
  /\ pc = "idle" /\ ended = "" /\ evidence < MaxEvidence /\ evidence' = evidence + 1
  /\ \E lost \in SUBSET Moved(e), written \in 0..Len(Holders) :
       /\ \/ lost = {} /\ written = Len(Holders) /\ Fine
          \/ Cardinality(lost) = 1 /\ written = Len(Holders) /\ Fault
          \/ lost = {} /\ written < Len(Holders) /\ Fault
       /\ diffs' = {Diff(a, e) : a \in Moved(e)}
       /\ trail' = [a \in Agents |-> IF a \in Moved(e) \ lost THEN new[a] ELSE trail[a]]
       /\ belief' = [a \in Agents |->
            IF a \in Moved(e) /\ (\E i \in 1..written : Holders[i] = a) THEN new[a] ELSE belief[a]]
  /\ UNCHANGED <<debate, pc>>

--------------------------------------------------------------------------------
(* A round. *)

NextRound ==
  /\ Quiet /\ pc = "idle" /\ ended = ""
  /\ IF round + 1 > limit
     THEN ended' = "rounds_over" /\ pc' = "ruling" /\ UNCHANGED <<prev, curr, round, spoken>>
     ELSE round' = round + 1 /\ prev' = curr /\ curr' = <<>> /\ spoken' = {}
          /\ pc' = "prosecutor" /\ UNCHANGED ended
  /\ alike' = FALSE
  /\ UNCHANGED <<rows, limit, stable, evidence, repeats>> /\ Fine

\* The second of two requests that read the row before either moved it.
SameRound ==
  /\ Quiet /\ pc = "idle" /\ ended = "" /\ round > 0 /\ repeats < MaxRepeats
  /\ repeats' = repeats + 1 /\ pc' = "prosecutor"
  /\ UNCHANGED <<rows, prev, curr, limit, round, spoken, alike, stable, ended, evidence>> /\ Fine

After == [prosecutor |-> "defender", defender |-> "snapshot"]

\* The round's error ends the request; the lock is free again.
RoundFails == Fault /\ pc' = "idle"

SpokenAlready(l) ==
  /\ Quiet /\ pc = l /\ l \in spoken /\ pc' = After[l]
  /\ UNCHANGED <<rows, debate, evidence>> /\ Fine

NoSpeech(l) ==
  /\ Quiet /\ pc = l /\ l \notin spoken /\ RoundFails
  /\ UNCHANGED <<rows, debate, evidence>>

Direction == [pro_a |-> 1, pro_b |-> -1]

\* What a later look at the last speeches finds, once the second one is saved.
ReadBack(l) == IF l = "defender" THEN alike' \in BOOLEAN ELSE UNCHANGED alike

\* applySpeakToBelief, after the speech is saved: challenge and neutral move
\* nothing; a row that cannot be written leaves no diff, a diff may be lost.
Speak(l) ==
  /\ Quiet /\ pc = l /\ l \notin spoken /\ spoken' = spoken \union {l} /\ pc' = After[l]
  /\ ReadBack(l)
  /\ \/ UNCHANGED rows /\ Fine
     \/ \E stance \in DOMAIN Direction, stored \in BOOLEAN, logged \in BOOLEAN :
          LET new == Clamp(belief[l] + Direction[stance] * SpeechStep, 5, 95) IN
          /\ IF stored /\ logged THEN Fine ELSE stored # logged /\ Fault
          /\ belief' = IF stored THEN [belief EXCEPT ![l] = new] ELSE belief
          /\ trail' = IF stored /\ logged
                      THEN [trail EXCEPT ![l] = new] ELSE trail
  /\ UNCHANGED <<prev, curr, limit, round, stable, ended, evidence, repeats>>

\* recordBeliefSnapshots: one row per holder, until an insert fails.
Snapshot ==
  /\ Quiet /\ pc = "snapshot"
  /\ \E n \in 0..Len(Holders) :
       /\ IF n = Len(Holders) THEN pc' = "assess" /\ Fine ELSE RoundFails
       /\ curr' = curr \o [i \in 1..n |-> <<Holders[i], belief[Holders[i]]>>]
  /\ UNCHANGED <<rows, prev, limit, round, spoken, alike, stable, ended, evidence, repeats>>

\* JudgeAssess: no answer, or no row written, leaves the belief; no diff is kept.
Assess ==
  /\ Quiet /\ pc = "assess" /\ pc' = "decide"
  /\ \/ UNCHANGED belief /\ Fault
     \/ \E pair \in Rulings \union {<<belief.judge, 100 - belief.judge>>} :
          belief' = [belief EXCEPT !.judge = ClampPair(pair)] /\ Fine
  /\ UNCHANGED <<trail, debate, evidence>>

--------------------------------------------------------------------------------
(* Convergence. *)

\* The rows of an agent, its oldest (not the code's choice) and its newest.
SnapshotsOf(s, a) == {i \in DOMAIN s : s[i][1] = a}
Oldest(s, a) == LET is == SnapshotsOf(s, a) IN s[CHOOSE i \in is : \A j \in is : i <= j][2]
Latest(s, a) == LET is == SnapshotsOf(s, a) IN s[CHOOSE i \in is : \A j \in is : j <= i][2]

SignalsOscillation == alike

SignalsConsensus ==
  /\ \A l \in Lawyers : SnapshotsOf(curr, l) # {}
  /\ \/ \A l \in Lawyers : Latest(curr, l) >= 85
     \/ \A l \in Lawyers : Latest(curr, l) <= 15

\* No agent of both rounds moved by five hundredths or more.
SignalsDriftLow ==
  LET both == {i \in DOMAIN curr : SnapshotsOf(prev, curr[i][1]) # {}} IN
  /\ both # {}
  /\ \A i \in both : curr[i][2] - Latest(prev, curr[i][1]) \in -4..4

Reason ==
  IF round < 2 THEN ""
  ELSE IF SignalsOscillation THEN "reasoning_oscillation"
  ELSE IF SignalsConsensus THEN "consensus"
  ELSE IF SignalsDriftLow /\ stable >= 2 THEN "belief_stable"
  ELSE IF round >= 5 THEN "max_rounds" ELSE ""

\* updateStableCounter is told belief_stable only when that ends the debate.
StableAfter(fired, converged) == IF fired /\ ~converged THEN stable + 1 ELSE 0

\* The snapshots are read, a signal ends the debate, or the user is asked.
Decide ==
  /\ Quiet /\ pc = "decide"
  /\ \/ round >= 2 /\ RoundFails /\ UNCHANGED <<stable, ended>>
     \/ /\ stable' = StableAfter(Reason = "belief_stable", Reason # "")
        /\ \/ Reason = "" /\ round < limit /\ pc' = "idle" /\ UNCHANGED ended /\ Fine
           \/ Reason = "" /\ round >= limit /\ pc' = "ruling" /\ ended' = "rounds_over" /\ Fine
           \/ Reason # "" /\ pc' = "ruling" /\ ended' = Reason /\ Fine
           \/ Reason # "" /\ RoundFails /\ UNCHANGED ended     \* converged cannot be stored
  /\ UNCHANGED <<rows, prev, curr, limit, round, spoken, alike, evidence, repeats>>

--------------------------------------------------------------------------------
DirectVerdict ==
  /\ Quiet /\ pc = "idle" /\ ended = "" /\ pc' = "ruling" /\ ended' = "direct_verdict"
  /\ UNCHANGED <<rows, prev, curr, limit, round, spoken, alike, stable, evidence, repeats>> /\ Fine

\* JudgeFinalDecision.
FinalDecisions == {ClampPair(pair) : pair \in Rulings}

Judge(a) == belief' = [belief EXCEPT !.judge = ClampPair(<<a, 100 - a>>)]

\* finishTrial before it closes the debate: the semaphore is full, or the row cannot
\* be read or moved. The debate goes on as if nothing had been announced.
FinishRefused ==
  /\ Quiet /\ pc = "ruling" /\ pc' = "idle" /\ ended' = ""
  /\ Fine \/ Fault
  /\ UNCHANGED <<rows, prev, curr, limit, round, spoken, alike, stable, evidence, repeats>>

\* finishTrial from there on: after the closing statements, which later rounds
\* compare too, the judge's final decision, or the belief it has; its row may stay
\* unwritten. What fails may leave the trial in closing or in deliberation, where
\* neither evidence nor a round nor another verdict is admitted.
Rule ==
  /\ Quiet /\ pc = "ruling" /\ alike' \in BOOLEAN
  /\ \/ \E a \in FinalDecisions : Judge(a) /\ pc' = "over" /\ Fine
     \/ /\ UNCHANGED belief \/ \E a \in FinalDecisions \cup {belief.judge} : Judge(a)
        /\ pc' \in {"over", "stuck"} /\ Fault
  /\ UNCHANGED <<trail, prev, curr, limit, round, spoken, stable, ended, evidence, repeats>>

\* Rounds, beliefs and the counter stay as they are.
Reopen ==
  /\ Quiet /\ pc = "over" /\ pc' = "idle" /\ ended' = ""
  /\ UNCHANGED <<rows, prev, curr, limit, round, spoken, alike, stable, evidence, repeats>> /\ Fine

Next ==
  \/ \E e \in Evaluations : SubmitEvidence(e)
  \/ NextRound \/ SameRound
  \/ \E l \in Lawyers : SpokenAlready(l) \/ NoSpeech(l) \/ Speak(l)
  \/ Snapshot \/ Assess \/ Decide
  \/ DirectVerdict \/ FinishRefused \/ Rule \/ Reopen

Spec == Init /\ [][Next]_vars

--------------------------------------------------------------------------------
(* Properties. *)

\* Evidence never moves a visible belief against the direction the engine gave
\* it, however far the agent stands from its anchor (engine_v06.go:95-110). A
\* judge beyond 0.95 is brought back into the visible range, whatever is said.
NeverInverted ==
  \A d \in diffs : d.prior \in 5..95 => (d.posterior - d.prior) * d.sign >= 0

\* While no write failed, the audit rows of a lawyer tell the belief the lawyer
\* has: evidence and speeches leave no jump between them (service.go:2402-2404).
TrailTold == faults = 0 => \A l \in Lawyers : trail[l] = belief[l]

\* A debate said to have ended in consensus has both lawyers at one extreme from
\* then on, until the verdict is made or finishTrial gives the debate back: in spite
\* of rounds that failed half-way and were run again over older snapshots, with
\* evidence in between.
ConsensusShared ==
  ended = "consensus" =>
    (\A l \in Lawyers : belief[l] >= 85) \/ (\A l \in Lawyers : belief[l] <= 15)

\* A signal ends a debate only after two rounds and after both lawyers spoke in
\* the last one, whatever failed on the way; no round is past the mode's limit.
Debated ==
  /\ round <= limit
  /\ ended \in {"reasoning_oscillation", "consensus", "belief_stable", "max_rounds"}
       => round >= 2 /\ spoken = Lawyers

\* The record of beliefs is sound: evidence is never inverted, the lawyers'
\* audit trail is whole, and a debate ends for the reason that is announced.
DeliberationSound == NeverInverted /\ TrailTold /\ ConsensusShared /\ Debated

================================================================================
