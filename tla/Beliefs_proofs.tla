----------------------------- MODULE Beliefs_proofs ----------------------------
(***************************************************************************)
(* What is proved of Beliefs: the log-odds scale rises and Sigmoid inverts *)
(* it, so that the pull of an anchor never turns a step around; and, with  *)
(* the rows, the snapshots and the place of the request related by         *)
(* BeliefsInv, that the record of beliefs stays sound.                     *)
(***************************************************************************)
EXTENDS Beliefs, Filters_proofs, FiniteSetTheorems

--------------------------------------------------------------------------------
(* The scale. *)

\* The table rises.
LEMMA TableRises ==
  /\ \A i \in 1..51 : LogOdds[i] \in Nat
  /\ \A i \in 1..50 : LogOdds[i] < LogOdds[i + 1]
  /\ LogOdds[1] = 0
  BY DEF LogOdds

\* One hundredth more is more in log-odds.
LEMMA LogitNext ==
  /\ \A p \in 5..95 : Logit(p) \in Int
  /\ \A p \in 5..94 : Logit(p) < Logit(p + 1)
<1>1. ASSUME NEW p \in 5..95 PROVE Logit(p) \in Int
  <2>1. CASE p >= 50
    <3>1. p - 49 \in 1..51
      BY <2>1
    <3>2. QED
      BY <2>1, <3>1, TableRises DEF Logit
  <2>2. CASE ~(p >= 50)
    <3>1. 51 - p \in 1..51
      BY <2>2
    <3>2. LogOdds[51 - p] \in Nat
      BY <3>1, TableRises
    <3>3. QED
      BY <2>2, <3>2 DEF Logit
  <2>3. QED
    BY <2>1, <2>2
<1>2. ASSUME NEW p \in 5..94 PROVE Logit(p) < Logit(p + 1)
  <2>1. CASE p >= 50
    <3>1. p - 49 \in 1..50 /\ (p - 49) + 1 = (p + 1) - 49
      BY <2>1
    <3>2. QED
      BY <2>1, <3>1, TableRises DEF Logit
  <2>2. CASE p = 49
    <3>1. 51 - p = 1 + 1 /\ (p + 1) - 49 = 1 /\ 1 \in 1..50
      BY <2>2
    <3>2. LogOdds[51 - p] > 0 /\ LogOdds[(p + 1) - 49] = 0 /\ LogOdds[51 - p] \in Nat
      BY <3>1, TableRises
    <3>3. QED
      BY <2>2, <3>2 DEF Logit
  <2>3. CASE p < 49
    <3>1. 51 - (p + 1) \in 1..50 /\ (51 - (p + 1)) + 1 = 51 - p /\ 51 - p \in 1..51
          /\ 51 - (p + 1) \in 1..51
      BY <2>3
    <3>2. /\ LogOdds[51 - (p + 1)] < LogOdds[51 - p]
          /\ LogOdds[51 - p] \in Nat /\ LogOdds[51 - (p + 1)] \in Nat
      BY <3>1, TableRises
    <3>3. QED
      BY <2>3, <3>2 DEF Logit
  <2>4. QED
    BY <2>1, <2>2, <2>3
<1>3. QED
  BY <1>1, <1>2

\* So Logit is monotone on the visible range.
LEMMA LogitRises ==
  ASSUME NEW p \in 5..95, NEW q \in 5..95, p < q
  PROVE  Logit(p) < Logit(q)
<1> DEFINE I == {n \in Nat : p + 1 + n \in 5..95 => Logit(p) < Logit(p + 1 + n)}
<1>1. 0 \in I
  <2>1. p + 1 + 0 = p + 1 /\ p \in 5..94
    OBVIOUS
  <2>2. QED
    BY <2>1, LogitNext
<1>2. ASSUME NEW n \in Nat, n \in I PROVE n + 1 \in I
  <2>1. SUFFICES ASSUME p + 1 + (n + 1) \in 5..95 PROVE Logit(p) < Logit(p + 1 + (n + 1))
    OBVIOUS
  <2>2. p + 1 + n \in 5..94 /\ (p + 1 + n) + 1 = p + 1 + (n + 1)
    BY <2>1
  <2>3. Logit(p) < Logit(p + 1 + n) /\ Logit(p + 1 + n) < Logit((p + 1 + n) + 1)
    BY <1>2, <2>2, LogitNext
  <2>4. Logit(p) \in Int /\ Logit(p + 1 + n) \in Int /\ Logit(p + 1 + (n + 1)) \in Int
    BY <2>1, <2>2, LogitNext
  <2>5. QED
    BY <2>2, <2>3, <2>4
<1>3. q - p - 1 \in Nat /\ p + 1 + (q - p - 1) = q
  OBVIOUS
<1>4. q - p - 1 \in I
  <2> HIDE DEF I
  <2>1. QED
    BY <1>1, <1>2, <1>3, SetInduction
<1>5. QED
  BY <1>3, <1>4

\* From 0.05 to p there are so many steps.
LEMMA Steps ==
  \A p \in 5..95 : IsFiniteSet(6..p) /\ Cardinality(6..p) = p - 5
<1> SUFFICES ASSUME NEW p \in 5..95 PROVE IsFiniteSet(6..p) /\ Cardinality(6..p) = p - 5
  OBVIOUS
<1>1. IsFiniteSet(6..p) /\ Cardinality(6..p) = IF 6 > p THEN 0 ELSE p - 6 + 1
  BY FS_Interval
<1>2. QED
  BY <1>1

\* Sigmoid stays within 0.05..0.95.
LEMMA SigmoidVisible ==
  ASSUME NEW z
  PROVE  Sigmoid(z) \in 5..95
<1>1. PICK S : S = {q \in 6..95 : Logit(q - 1) + Logit(q) <= 2 * z}
  OBVIOUS
<1>2. Sigmoid(z) = 5 + Cardinality(S) /\ S \subseteq 6..95
  BY <1>1 DEF Sigmoid
<1>3. IsFiniteSet(6..95) /\ Cardinality(6..95) = 90
  <2>1. 95 \in 5..95 /\ 95 - 5 = 90
    OBVIOUS
  <2>2. QED
    BY <2>1, Steps
<1>4. IsFiniteSet(S) /\ Cardinality(S) <= 90
  <2>1. PICK R : R = 6..95
    OBVIOUS
  <2>2. IsFiniteSet(R) /\ Cardinality(R) = 90 /\ S \in SUBSET R
    BY <1>2, <1>3, <2>1
  <2>3. IsFiniteSet(S) /\ Cardinality(S) <= Cardinality(R)
    BY <2>2, FS_Subset
  <2>4. QED
    BY <2>2, <2>3
<1>5. Cardinality(S) \in Nat
  BY <1>4, FS_CardinalityType
<1>6. QED
  BY <1>2, <1>4, <1>5

\* There it is the inverse of Logit: what is above the log-odds of p is above p, what
\* is below is below.
LEMMA SigmoidInverts ==
  ASSUME NEW z \in Int, NEW p \in 5..95
  PROVE  /\ Logit(p) <= z => p <= Sigmoid(z)
         /\ z <= Logit(p) => Sigmoid(z) <= p
<1> DEFINE S == {q \in 6..95 : Logit(q - 1) + Logit(q) <= 2 * z}
<1>1. /\ Sigmoid(z) = 5 + Cardinality(S)
      /\ S \subseteq 6..95 /\ IsFiniteSet(6..95) /\ Cardinality(6..95) = 90
  <2>1. Sigmoid(z) = 5 + Cardinality(S) /\ S \subseteq 6..95
    BY DEF Sigmoid
  <2>2. 95 \in 5..95 /\ 95 - 5 = 90
    OBVIOUS
  <2>3. QED
    BY <2>1, <2>2, Steps
<1>2. IsFiniteSet(S) /\ Cardinality(S) \in Nat /\ Cardinality(S) <= 90
  BY <1>1, FS_Subset, FS_CardinalityType
<1>3. ASSUME Logit(p) <= z PROVE p <= Sigmoid(z)
  <2>1. 6..p \subseteq S
    <3> SUFFICES ASSUME NEW q \in 6..p PROVE q \in S
      OBVIOUS
    <3>1. q \in 6..95 /\ q - 1 \in 5..95 /\ q \in 5..95 /\ q - 1 < p /\ (q < p \/ q = p)
      OBVIOUS
    <3>2. Logit(q - 1) <= Logit(p) /\ Logit(q) <= Logit(p)
      <4>1. Logit(q - 1) < Logit(p)
        BY <3>1, LogitRises
      <4>2. Logit(q) < Logit(p) \/ Logit(q) = Logit(p)
        BY <3>1, LogitRises
      <4>3. QED
        BY <3>1, <4>1, <4>2, LogitNext
    <3>3. Logit(q - 1) \in Int /\ Logit(q) \in Int /\ Logit(p) \in Int
      BY <3>1, LogitNext
    <3>4. Logit(q - 1) + Logit(q) <= 2 * z
      BY <1>3, <3>2, <3>3
    <3>5. QED
      BY <3>1, <3>4
  <2>2. Cardinality(6..p) = p - 5
    BY Steps
  <2>3. Cardinality(6..p) <= Cardinality(S)
    BY <1>2, <2>1, FS_Subset
  <2>4. QED
    BY <1>1, <1>2, <2>2, <2>3
<1>4. ASSUME z <= Logit(p) PROVE Sigmoid(z) <= p
  <2>1. S \subseteq 6..p
    <3> SUFFICES ASSUME NEW q \in 6..95, Logit(q - 1) + Logit(q) <= 2 * z, ~(q <= p) PROVE FALSE
      OBVIOUS
    <3>1. q - 1 \in 5..95 /\ q \in 5..95 /\ p < q /\ (p < q - 1 \/ p = q - 1)
      OBVIOUS
    <3>2. Logit(p) < Logit(q) /\ (Logit(p) < Logit(q - 1) \/ Logit(p) = Logit(q - 1))
      BY <3>1, LogitRises
    <3>3. Logit(q - 1) \in Int /\ Logit(q) \in Int /\ Logit(p) \in Int
      BY <3>1, LogitNext
    <3>4. QED
      BY <1>4, <3>2, <3>3
  <2>2. Cardinality(6..p) = p - 5 /\ IsFiniteSet(6..p)
    BY Steps
  <2>3. Cardinality(S) <= Cardinality(6..p)
    BY <2>1, <2>2, FS_Subset
  <2>4. QED
    BY <1>1, <1>2, <2>2, <2>3
<1>5. QED
  BY <1>1, <1>2, <1>3, <1>4

--------------------------------------------------------------------------------
(* The engine. *)

\* A tenth has the sign of the whole.
LEMMA TenthSign ==
  ASSUME NEW x \in Int
  PROVE  /\ Tenth(x) \in Int
         /\ x >= 0 => Tenth(x) >= 0
         /\ x <= 0 => Tenth(x) <= 0
  BY DEF Tenth

\* What an evidence is found to say is within its range.
LEMMA EvaluationsInRange ==
  ASSUME NEW e \in Evaluations
  PROVE  e.a \in -100..100 /\ e.b \in Int /\ e.cr \in Nat
<1>1. ASSUME NEW r \in Ratings, e = Rated(r) PROVE e.a \in -100..100 /\ e.b \in Int /\ e.cr \in Nat
  <2>1. r.a \in Int /\ r.b \in Int /\ r.c \in Int /\ r.r \in Int
    BY BeliefsAssumption
  <2>2. /\ Clamp(r.a, -100, 100) \in -100..100 /\ Clamp(r.b, -100, 100) \in Int
        /\ Clamp(r.c, 0, 100) \in Nat /\ Clamp(r.r, 0, 100) \in Nat
    BY <2>1 DEF Clamp
  <2>3. ASSUME NEW x \in Nat, NEW y \in Nat PROVE (x * y) \div 100 \in Nat
    <3>1. x * y \in Nat
      OBVIOUS
    <3>2. QED
      BY <3>1
  <2>4. QED
    BY <1>1, <2>2, <2>3 DEF Rated
<1>2. ASSUME NEW k \in Scores, e = Estimated(k) PROVE e.a \in -100..100 /\ e.b \in Int /\ e.cr \in Nat
  <2>1. k \in Int
    BY BeliefsAssumption
  <2>2. Clamp(k, -80, 80) \in -80..80
    BY <2>1 DEF Clamp
  <2>3. QED
    BY <1>2, <2>2 DEF Estimated
<1>3. QED
  BY <1>1, <1>2 DEF Evaluations

\* Every agent's uptake is positive, and its anchor keeps a part of every step.
LEMMA AnchorsInRange ==
  ASSUME NEW a \in Agents
  PROVE  /\ Anchors[a].uptake \in 1..10 /\ Anchors[a].anchor \in 1..9
         /\ Anchors[a].priorA \in 5..95
  BY DEF Agents, Anchors

\* An evidence shifts an agent in the direction the engine gave it.
LEMMA ShiftSign ==
  ASSUME NEW a \in Agents, NEW p \in Int, NEW e \in Evaluations
  PROVE  /\ Shift(a, p, e) \in Int
         /\ \/ ConfirmationSign(p, e) = 1 /\ Shift(a, p, e) >= 0
            \/ ConfirmationSign(p, e) = -1 /\ Shift(a, p, e) <= 0
<1>1. ConfirmationSign(p, e) = 1 \/ ConfirmationSign(p, e) = -1
  BY DEF ConfirmationSign
<1>2. Weight(e) \in Nat
  <2>1. e.cr \in Nat /\ e.a \in Int
    BY EvaluationsInRange
  <2>2. (IF e.a >= 0 THEN e.a ELSE -e.a) \in Nat
    BY <2>1
  <2>3. ASSUME NEW x \in Nat, NEW y \in Nat PROVE (x * y) \div 100 \in Nat
    <3>1. x * y \in Nat
      OBVIOUS
    <3>2. QED
      BY <3>1
  <2>4. QED
    BY <2>1, <2>2, <2>3 DEF Weight
<1>3. (Anchors[a].uptake * Weight(e) * 693) \div 1000 \in Nat
  <2>1. Anchors[a].uptake * Weight(e) \in Nat
    BY <1>2, AnchorsInRange
  <2>2. ASSUME NEW x \in Nat PROVE (x * 693) \div 1000 \in Nat
    OBVIOUS
  <2>3. QED
    BY <2>1, <2>2
<1>4. QED
  BY <1>1, <1>3 DEF Shift

\* The anchor may damp a step, or leave the agent where it is, but never turns the
\* step around, wherever in the visible range the agent stands.
LEMMA AnchorNeverInverts ==
  ASSUME NEW a \in Agents, NEW p \in 5..95, NEW e \in Evaluations, Shift(a, p, e) # 0
  PROVE  (Posterior(a, p, e) - p) * ConfirmationSign(p, e) >= 0
<1> DEFINE shift == Shift(a, p, e)
           kept == 10 - Anchors[a].anchor
           step == Tenth(kept * shift)
           moved == Tenth(kept * (Logit(p) + shift) + Anchors[a].anchor * Logit(Anchors[a].priorA))
           to == IF (moved - Logit(p)) * shift < 0 THEN Logit(p) + step ELSE moved
<1>1. Posterior(a, p, e) = Sigmoid(to)
  BY DEF Posterior
<1>2. shift \in Int /\ kept \in 1..9 /\ Logit(p) \in Int /\ Logit(Anchors[a].priorA) \in Int
  BY ShiftSign, AnchorsInRange, LogitNext
<1>3. /\ kept * shift \in Int
      /\ shift > 0 => kept * shift >= 0
      /\ shift < 0 => kept * shift <= 0
  <2> HIDE DEF shift, kept
  <2>1. QED
    BY <1>2
<1>4. step \in Int /\ (shift > 0 => step >= 0) /\ (shift < 0 => step <= 0)
  <2> HIDE DEF shift, kept
  <2>1. QED
    BY <1>2, <1>3, TenthSign
<1>5. moved \in Int
  <2>1. kept * (Logit(p) + shift) \in Int /\ Anchors[a].anchor * Logit(Anchors[a].priorA) \in Int
    <3> HIDE DEF shift, kept
    <3>1. QED
      BY <1>2, AnchorsInRange
  <2> HIDE DEF shift, kept
  <2>2. kept * (Logit(p) + shift) + Anchors[a].anchor * Logit(Anchors[a].priorA) \in Int
    BY <2>1
  <2>3. QED
    BY <2>2, TenthSign
<1>6. /\ to \in Int
      /\ shift > 0 => Logit(p) <= to
      /\ shift < 0 => to <= Logit(p)
  <2> HIDE DEF shift, kept, step, moved
  <2>1. ASSUME NEW x \in Int, NEW y \in Int
        PROVE  /\ x < 0 /\ y > 0 => x * y < 0
               /\ x > 0 /\ y < 0 => x * y < 0
    OBVIOUS
  <2>2. moved - Logit(p) \in Int
    BY <1>2, <1>5
  <2>3. shift > 0 /\ moved - Logit(p) < 0 => (moved - Logit(p)) * shift < 0
    BY <1>2, <2>1, <2>2
  <2>4. shift < 0 /\ moved - Logit(p) > 0 => (moved - Logit(p)) * shift < 0
    BY <1>2, <2>1, <2>2
  <2>5. CASE (moved - Logit(p)) * shift < 0
    <3>1. to = Logit(p) + step
      BY <2>5
    <3>2. QED
      BY <1>2, <1>4, <3>1
  <2>6. CASE ~((moved - Logit(p)) * shift < 0)
    <3>1. to = moved
      BY <2>6
    <3>2. QED
      BY <1>2, <1>5, <2>3, <2>4, <2>6, <3>1
  <2>7. QED
    BY <2>5, <2>6
<1>7. /\ Sigmoid(to) \in Int
      /\ shift > 0 => p <= Sigmoid(to)
      /\ shift < 0 => Sigmoid(to) <= p
  <2> HIDE DEF shift, to
  <2>1. PICK z \in Int : z = to
    BY <1>6
  <2>2. /\ Sigmoid(z) \in 5..95
        /\ Logit(p) <= z => p <= Sigmoid(z)
        /\ z <= Logit(p) => Sigmoid(z) <= p
    BY SigmoidVisible, SigmoidInverts
  <2>3. QED
    BY <1>6, <2>1, <2>2
<1>8. \/ ConfirmationSign(p, e) = 1 /\ shift > 0
      \/ ConfirmationSign(p, e) = -1 /\ shift < 0
  BY ShiftSign
<1>9. QED
  <2> HIDE DEF shift, to
  <2>1. QED
    BY <1>1, <1>7, <1>8

\* Whatever the engine computes is visible.
LEMMA PosteriorVisible ==
  ASSUME NEW a, NEW p, NEW e
  PROVE  Posterior(a, p, e) \in 5..95
  BY SigmoidVisible DEF Posterior

\* A pair is brought into the range of a belief.
LEMMA ClampPairInRange ==
  ASSUME NEW pair \in Int \X Int
  PROVE  ClampPair(pair) \in 0..100
<1>1. ASSUME NEW x \in Nat, NEW d \in Nat, d > 0, x <= d
      PROVE  (100 * x) \div d \in 0..100
  <2>1. 100 * x \in Nat /\ 100 * x <= 100 * d
    BY <1>1
  <2>2. PICK n \in Nat : n = 100 * x
    BY <2>1
  <2>3. n \div d \in Nat /\ d * (n \div d) <= n
    BY <1>1
  <2>4. ASSUME n \div d > 100 PROVE FALSE
    <3>1. d * (n \div d) >= d * 101
      BY <1>1, <2>3, <2>4
    <3>2. QED
      BY <1>1, <2>1, <2>2, <2>3, <3>1
  <2>5. QED
    BY <2>2, <2>3, <2>4
<1> DEFINE whole == IF pair[1] + pair[2] > 150 THEN 10000 ELSE 100
           x == Clamp(pair[1], 0, whole)
           y == Clamp(pair[2], 0, whole)
<1>2. x \in Nat /\ y \in Nat
  BY DEF Clamp
<1>3. ClampPair(pair) = IF x + y > 0 THEN (100 * x) \div (x + y) ELSE 50
  BY DEF ClampPair
<1> HIDE DEF x, y
<1>4. CASE x + y > 0
  <2>1. x + y \in Nat /\ x <= x + y
    BY <1>2
  <2>2. (100 * x) \div (x + y) \in 0..100
    BY <1>1, <1>2, <1>4, <2>1
  <2>3. QED
    BY <1>3, <1>4, <2>2
<1>5. CASE ~(x + y > 0)
  BY <1>3, <1>5
<1>6. QED
  BY <1>4, <1>5

--------------------------------------------------------------------------------
(* The debate. *)

Places == {"idle", "prosecutor", "defender", "snapshot", "assess", "decide", "ruling", "over",
           "stuck"}

Counters == limit \in Nat /\ round \in 0..limit /\ faults \in Nat

\* Where the request is: what has been said, and that nothing has ended yet.
Rounds ==
  /\ Counters
  /\ pc \in Places /\ spoken \subseteq Lawyers
  /\ ended # "" => pc \in {"ruling", "over", "stuck"}
  /\ pc = "defender" => "prosecutor" \in spoken
  /\ pc \in {"snapshot", "assess", "decide"} => spoken = Lawyers

\* The rows: what a lawyer believes is visible, a judge may be certain.
Rows ==
  /\ belief \in [Agents -> 0..100] /\ trail \in [Agents -> 5..95]
  /\ \A l \in Lawyers : belief[l] \in 5..95

\* From their insertion to the end of the round, the newest snapshot of a lawyer is
\* what it believes.
Snapshots ==
  /\ curr \in Seq(Agents \X (0..100))
  /\ pc \in {"assess", "decide"} =>
       \A l \in Lawyers : SnapshotsOf(curr, l) # {} /\ Latest(curr, l) = belief[l]

BeliefsInv == Rounds /\ Rows /\ Snapshots /\ DeliberationSound

\* The lawyers are agents, and the holders of rows.
LEMMA TheHolders ==
  /\ Lawyers \subseteq Agents /\ Len(Holders) = 3
  /\ Holders[1] = "prosecutor" /\ Holders[2] = "defender" /\ Holders[3] = "judge"
  /\ \A i \in 1..3 : Holders[i] \in Agents
  /\ \A l \in Lawyers : \E i \in 1..3 : Holders[i] = l
  /\ "judge" \in Agents /\ "judge" \notin Lawyers
  BY DEF Lawyers, Agents, Holders

\* A trial starts with visible beliefs, no rounds and no snapshots.
LEMMA InitInv == Init => BeliefsInv
<1> SUFFICES ASSUME Init PROVE BeliefsInv
  OBVIOUS
<1>1. Rounds
  <2>1. Modes \subseteq Nat
    BY BeliefsAssumption
  <2>2. limit \in Modes /\ round = 0 /\ faults = 0
    BY DEF Init
  <2>3. Counters
    BY <2>1, <2>2 DEF Counters
  <2>4. QED
    BY <2>3 DEF Init, Rounds, Places
<1>2. Rows
  <2>1. Start \in [Agents -> 5..95]
    BY DEF Start, Agents
  <2>2. belief \in [Agents -> 5..95] /\ trail \in [Agents -> 5..95]
    BY <2>1 DEF Init
  <2>3. belief \in [Agents -> 0..100]
    BY <2>2
  <2>4. QED
    BY <2>2, <2>3, TheHolders DEF Rows
<1>3. Snapshots
  BY EmptySeq DEF Init, Snapshots
<1>4. DeliberationSound
  <2>1. diffs = {} /\ trail = belief /\ ended = ""
    BY DEF Init
  <2>2. Counters
    BY <1>1 DEF Rounds
  <2>3. round <= limit
    BY <2>2 DEF Counters
  <2>4. QED
    BY <2>1, <2>3 DEF DeliberationSound, NeverInverted, TrailTold, ConsensusShared, Debated
<1>5. QED
  BY <1>1, <1>2, <1>3, <1>4 DEF BeliefsInv

\* A call may fail: then that is no longer a trial in which nothing failed.
LEMMA Faulted ==
  ASSUME BeliefsInv, Fine \/ Fault, UNCHANGED <<limit, round>>
  PROVE  Counters' /\ (faults' = 0 => faults = 0 /\ ~Fault)
<1>1. Counters
  BY DEF BeliefsInv, Rounds
<1>2. limit' = limit /\ round' = round
  OBVIOUS
<1>3. CASE Fine
  BY <1>1, <1>2, <1>3 DEF Counters, Fine, Fault
<1>4. CASE Fault
  BY <1>1, <1>2, <1>4 DEF Counters, Fault
<1>5. QED
  BY <1>3, <1>4

\* A step that writes no belief and no snapshot, starts no round, announces no signal
\* and stays off the end of the round.
LEMMA RestStays ==
  ASSUME BeliefsInv, Quiet, UNCHANGED <<rows, curr, limit, round>>, Fine \/ Fault,
         ended' \in {ended, "", "direct_verdict", "rounds_over"}, spoken' = spoken,
         pc' \in {"assess", "decide"} => pc \in {"assess", "decide"},
         Counters' => Rounds'
  PROVE  BeliefsInv'
<1>1. belief' = belief /\ trail' = trail /\ curr' = curr /\ limit' = limit /\ round' = round
      /\ diffs' = {}
  BY DEF rows, Quiet
<1>2. Rows'
  BY <1>1 DEF BeliefsInv, Rows
<1>3. Snapshots'
  BY <1>1 DEF BeliefsInv, Snapshots
<1>4. Counters' /\ (faults' = 0 => faults = 0)
  BY Faulted
<1>5. NeverInverted' /\ TrailTold' /\ ConsensusShared'
  BY <1>1, <1>4 DEF BeliefsInv, DeliberationSound, NeverInverted, TrailTold, ConsensusShared
<1>6. Debated'
  BY <1>1 DEF BeliefsInv, DeliberationSound, Debated
<1>7. QED
  BY <1>2, <1>3, <1>4, <1>5, <1>6 DEF BeliefsInv, DeliberationSound

--------------------------------------------------------------------------------
(* The steps. *)

\* Evidence moves what is in memory; diffs and rows follow it unless one failed.
LEMMA EvidenceStep ==
  ASSUME BeliefsInv, NEW e \in Evaluations, SubmitEvidence(e)
  PROVE  BeliefsInv'
<1>1. /\ pc = "idle" /\ ended = "" /\ pc' = "idle"
      /\ UNCHANGED <<curr, limit, round, spoken, ended>>
      /\ diffs' = {Diff(a, e) : a \in Moved(e)}
  BY DEF SubmitEvidence, debate
<1> DEFINE new == [a \in Agents |-> Posterior(a, belief[a], e)]
<1>2. PICK lost \in SUBSET Moved(e), written \in 0..Len(Holders) :
        /\ \/ lost = {} /\ written = Len(Holders) /\ Fine
           \/ Cardinality(lost) = 1 /\ written = Len(Holders) /\ Fault
           \/ lost = {} /\ written < Len(Holders) /\ Fault
        /\ trail' = [a \in Agents |-> IF a \in Moved(e) \ lost THEN new[a] ELSE trail[a]]
        /\ belief' = [a \in Agents |->
             IF a \in Moved(e) /\ (\E i \in 1..written : Holders[i] = a) THEN new[a] ELSE belief[a]]
  BY DEF SubmitEvidence
<1>3. new \in [Agents -> 5..95]
  BY PosteriorVisible
<1> HIDE DEF new
<1>4. Counters' /\ (faults' = 0 => faults = 0 /\ lost = {} /\ written = 3)
  <2>1. Fine \/ Fault
    BY <1>2
  <2>2. Counters' /\ (faults' = 0 => faults = 0 /\ ~Fault)
    BY <1>1, <2>1, Faulted
  <2>3. ~Fault => lost = {} /\ written = 3
    BY <1>2, TheHolders
  <2>4. QED
    BY <2>2, <2>3
<1>5. Rounds'
  BY <1>1, <1>4 DEF BeliefsInv, Rounds
<1>6. Rows'
  <2>1. belief \in [Agents -> 0..100] /\ trail \in [Agents -> 5..95]
        /\ \A l \in Lawyers : belief[l] \in 5..95
    BY DEF BeliefsInv, Rows
  <2>2. belief' \in [Agents -> 0..100] /\ trail' \in [Agents -> 5..95]
    BY <1>2, <1>3, <2>1
  <2>3. \A l \in Lawyers : belief'[l] \in 5..95
    BY <1>2, <1>3, <2>1, TheHolders
  <2>4. QED
    BY <2>2, <2>3 DEF Rows
<1>7. Snapshots'
  BY <1>1 DEF BeliefsInv, Snapshots
<1>8. NeverInverted'
  <2> SUFFICES ASSUME NEW d \in diffs', d.prior \in 5..95
               PROVE  (d.posterior - d.prior) * d.sign >= 0
    BY DEF NeverInverted
  <2>1. PICK a \in Moved(e) : d = Diff(a, e)
    BY <1>1
  <2>2. /\ d.prior = belief[a] /\ d.posterior = Posterior(a, belief[a], e)
        /\ d.sign = ConfirmationSign(belief[a], e)
    BY <2>1 DEF Diff
  <2>3. a \in Agents /\ Shift(a, belief[a], e) # 0
    BY DEF Moved
  <2>4. QED
    BY <2>2, <2>3, AnchorNeverInverts
<1>9. TrailTold'
  <2> SUFFICES ASSUME faults' = 0, NEW l \in Lawyers PROVE trail'[l] = belief'[l]
    BY DEF TrailTold
  <2>1. trail[l] = belief[l]
    BY <1>4 DEF BeliefsInv, DeliberationSound, TrailTold
  <2>2. lost = {} /\ \E i \in 1..written : Holders[i] = l
    BY <1>4, TheHolders
  <2>3. QED
    BY <1>2, <2>1, <2>2, TheHolders
<1>10. ConsensusShared' /\ Debated'
  BY <1>1 DEF BeliefsInv, DeliberationSound, ConsensusShared, Debated
<1>11. QED
  BY <1>5, <1>6, <1>7, <1>8, <1>9, <1>10 DEF BeliefsInv, DeliberationSound

\* A round begins with nothing said and no snapshots.
LEMMA NextRoundStep ==
  ASSUME BeliefsInv, NextRound
  PROVE  BeliefsInv'
<1>1. CASE round + 1 > limit
  <2>1. /\ pc = "idle" /\ pc' = "ruling" /\ ended' = "rounds_over" /\ Fine
        /\ UNCHANGED <<rows, curr, limit, round, spoken>> /\ Quiet
    BY <1>1 DEF NextRound, Fine
  <2>2. Counters' => Rounds'
    BY <2>1 DEF BeliefsInv, Rounds, Places
  <2>3. QED
    BY <2>1, <2>2, RestStays
<1>2. CASE ~(round + 1 > limit)
  <2>1. /\ pc = "idle" /\ pc' = "prosecutor" /\ ended = "" /\ ended' = "" /\ faults' = faults
        /\ round' = round + 1 /\ curr' = <<>> /\ spoken' = {}
        /\ belief' = belief /\ trail' = trail /\ limit' = limit /\ diffs' = {}
    BY <1>2 DEF NextRound, Fine, rows, Quiet
  <2>2. Counters' /\ round' <= limit'
    <3>1. Counters
      BY DEF BeliefsInv, Rounds
    <3>2. limit' = limit /\ faults' = faults /\ round' = round + 1
      BY <2>1
    <3>3. QED
      BY <1>2, <3>1, <3>2 DEF Counters
  <2>3. Rounds' /\ Rows' /\ Snapshots'
    BY <2>1, <2>2, EmptySeq DEF BeliefsInv, Rounds, Places, Rows, Snapshots
  <2>4. DeliberationSound'
    BY <2>1, <2>2 DEF BeliefsInv, DeliberationSound, NeverInverted, TrailTold, ConsensusShared,
                      Debated
  <2>5. QED
    BY <2>3, <2>4 DEF BeliefsInv
<1>3. QED
  BY <1>1, <1>2

\* A round that is run again goes over the record of the first.
LEMMA SameRoundStep ==
  ASSUME BeliefsInv, SameRound
  PROVE  BeliefsInv'
<1>1. /\ pc = "idle" /\ ended = "" /\ pc' = "prosecutor" /\ Quiet /\ Fine
      /\ UNCHANGED <<rows, curr, limit, round, spoken, ended>>
  BY DEF SameRound
<1>2. Counters' => Rounds'
  BY <1>1 DEF BeliefsInv, Rounds, Places
<1>3. QED
  BY <1>1, <1>2, RestStays

\* A lawyer that has spoken is passed over.
LEMMA SpokenAlreadyStep ==
  ASSUME BeliefsInv, NEW l \in Lawyers, SpokenAlready(l)
  PROVE  BeliefsInv'
<1>1. /\ pc = l /\ l \in spoken /\ pc' = After[l] /\ Quiet /\ Fine
      /\ UNCHANGED <<rows, curr, limit, round, spoken, ended>>
  BY DEF SpokenAlready, debate
<1>2. \/ l = "prosecutor" /\ pc' = "defender"
      \/ l = "defender" /\ pc' = "snapshot"
  BY <1>1 DEF Lawyers, After
<1>3. Counters' => Rounds'
  BY <1>1, <1>2 DEF BeliefsInv, Rounds, Places, Lawyers
<1>4. pc' \notin {"assess", "decide"}
  BY <1>2
<1>5. QED
  BY <1>1, <1>3, <1>4, RestStays

\* A speech that fails ends the request.
LEMMA NoSpeechStep ==
  ASSUME BeliefsInv, NEW l \in Lawyers, NoSpeech(l)
  PROVE  BeliefsInv'
<1>1. /\ pc = l /\ pc' = "idle" /\ Quiet /\ Fault
      /\ UNCHANGED <<rows, curr, limit, round, spoken, ended>>
  BY DEF NoSpeech, RoundFails, debate
<1>2. Counters' => Rounds'
  BY <1>1 DEF BeliefsInv, Rounds, Places, Lawyers
<1>3. QED
  BY <1>1, <1>2, RestStays

\* A speech moves its speaker's row and its trail together, unless a write fails.
LEMMA SpeakStep ==
  ASSUME BeliefsInv, NEW l \in Lawyers, Speak(l)
  PROVE  BeliefsInv'
<1>1. /\ pc = l /\ l \notin spoken /\ spoken' = spoken \union {l} /\ pc' = After[l] /\ Quiet
      /\ UNCHANGED <<curr, limit, round, ended>>
  BY DEF Speak
<1>2. \/ l = "prosecutor" /\ pc' = "defender"
      \/ l = "defender" /\ pc' = "snapshot"
  BY <1>1 DEF Lawyers, After
<1>3. ended = "" /\ ended' = "" /\ diffs' = {}
  BY <1>1, <1>2 DEF BeliefsInv, Rounds, Quiet
<1>4. \/ belief' = belief /\ trail' = trail /\ Fine
      \/ \E new \in 5..95, stored \in BOOLEAN, logged \in BOOLEAN :
           /\ (stored /\ logged /\ Fine) \/ (~(stored /\ logged) /\ Fault)
           /\ belief' = IF stored THEN [belief EXCEPT ![l] = new] ELSE belief
           /\ trail' = IF stored /\ logged THEN [trail EXCEPT ![l] = new] ELSE trail
  <2>1. CASE UNCHANGED rows /\ Fine
    BY <2>1 DEF rows
  <2>2. CASE ~(UNCHANGED rows /\ Fine)
    <3>1. PICK stance \in DOMAIN Direction, stored \in BOOLEAN, logged \in BOOLEAN :
            LET new == Clamp(belief[l] + Direction[stance] * SpeechStep, 5, 95) IN
            /\ IF stored /\ logged THEN Fine ELSE stored # logged /\ Fault
            /\ belief' = IF stored THEN [belief EXCEPT ![l] = new] ELSE belief
            /\ trail' = IF stored /\ logged THEN [trail EXCEPT ![l] = new] ELSE trail
      BY <2>2 DEF Speak
    <3>2. PICK n \in 5..95 : n = Clamp(belief[l] + Direction[stance] * SpeechStep, 5, 95)
      <4>1. Direction[stance] \in {1, -1}
        BY DEF Direction
      <4>2. belief[l] \in 5..95 /\ SpeechStep \in Nat
        <5>1. SpeechStep \in Nat
          BY BeliefsAssumption
        <5>2. QED
          BY <5>1 DEF BeliefsInv, Rows
      <4>3. belief[l] + Direction[stance] * SpeechStep \in Int
        BY <4>1, <4>2
      <4>4. QED
        BY <4>3 DEF Clamp
    <3>3. QED
      BY <3>1, <3>2
  <2>3. QED
    BY <2>1, <2>2
<1>5. Counters' /\ (faults' = 0 => faults = 0 /\ ~Fault)
  <2>1. Fine \/ Fault
    BY <1>4
  <2>2. QED
    BY <1>1, <2>1, Faulted
<1>6. Rounds'
  BY <1>1, <1>2, <1>3, <1>5 DEF BeliefsInv, Rounds, Places, Lawyers
<1>7. Rows' /\ TrailTold'
  <2>1. /\ belief \in [Agents -> 0..100] /\ trail \in [Agents -> 5..95] /\ l \in Agents
        /\ \A m \in Lawyers : belief[m] \in 5..95 /\ m \in Agents
        /\ faults = 0 => \A m \in Lawyers : trail[m] = belief[m]
    BY TheHolders DEF BeliefsInv, Rows, DeliberationSound, TrailTold
  <2>2. CASE belief' = belief /\ trail' = trail /\ Fine
    BY <1>5, <2>1, <2>2 DEF Rows, TrailTold
  <2>3. CASE ~(belief' = belief /\ trail' = trail /\ Fine)
    <3>1. PICK new \in 5..95, stored \in BOOLEAN, logged \in BOOLEAN :
            /\ (stored /\ logged /\ Fine) \/ (~(stored /\ logged) /\ Fault)
            /\ belief' = IF stored THEN [belief EXCEPT ![l] = new] ELSE belief
            /\ trail' = IF stored /\ logged THEN [trail EXCEPT ![l] = new] ELSE trail
      BY <1>4, <2>3
    <3>2. Rows'
      <4>1. new \in 0..100
        OBVIOUS
      <4>2. QED
        BY <2>1, <3>1, <4>1 DEF Rows
    <3>3. TrailTold'
      BY <1>5, <2>1, <3>1 DEF TrailTold
    <3>4. QED
      BY <3>2, <3>3
  <2>4. QED
    BY <2>2, <2>3
<1>8. Snapshots'
  BY <1>1, <1>2 DEF BeliefsInv, Snapshots
<1>9. NeverInverted' /\ ConsensusShared' /\ Debated'
  <2>1. round <= limit
    BY DEF BeliefsInv, DeliberationSound, Debated
  <2>2. round' <= limit'
    BY <1>1, <2>1
  <2>3. QED
    BY <1>3, <2>2 DEF NeverInverted, ConsensusShared, Debated
<1>10. QED
  BY <1>6, <1>7, <1>8, <1>9 DEF BeliefsInv, DeliberationSound

\* The newest row of an agent, when it is known where it is.
LEMMA LatestIs ==
  ASSUME NEW s, NEW a, DOMAIN s \subseteq Int, NEW i \in SnapshotsOf(s, a),
         \A j \in SnapshotsOf(s, a) : j <= i
  PROVE  Latest(s, a) = s[i][2]
<1> DEFINE top == CHOOSE k \in SnapshotsOf(s, a) : \A j \in SnapshotsOf(s, a) : j <= k
<1>1. top \in SnapshotsOf(s, a) /\ \A j \in SnapshotsOf(s, a) : j <= top
  OBVIOUS
<1>2. Latest(s, a) = s[top][2]
  BY DEF Latest
<1> HIDE DEF top
<1>3. top <= i /\ i <= top
  BY <1>1
<1>4. top \in Int /\ i \in Int
  BY <1>1 DEF SnapshotsOf
<1>5. top = i
  BY <1>3, <1>4
<1>6. QED
  BY <1>2, <1>5

\* The rows a round inserts follow what is there; once all are in, the newest of a
\* lawyer is what it believes.
LEMMA SnapshotStep ==
  ASSUME BeliefsInv, Snapshot
  PROVE  BeliefsInv'
<1>1. /\ pc = "snapshot" /\ diffs' = {}
      /\ belief' = belief /\ trail' = trail
      /\ UNCHANGED <<limit, round, spoken, ended>>
  BY DEF Snapshot, Quiet, rows
<1>2. PICK n \in 0..3 :
        /\ IF n = 3 THEN pc' = "assess" /\ Fine ELSE RoundFails
        /\ curr' = curr \o [i \in 1..n |-> <<Holders[i], belief[Holders[i]]>>]
  BY TheHolders DEF Snapshot
<1>3. Counters' /\ (faults' = 0 => faults = 0)
  <2>1. Fine \/ Fault
    BY <1>2 DEF RoundFails
  <2>2. QED
    BY <1>1, <2>1, Faulted
<1>4. ended = "" /\ ended' = "" /\ spoken' = Lawyers
  BY <1>1 DEF BeliefsInv, Rounds
<1>5. \/ n = 3 /\ pc' = "assess"
      \/ pc' = "idle"
  BY <1>2 DEF RoundFails
<1>6. Rounds'
  BY <1>3, <1>4, <1>5 DEF Rounds, Places
<1>7. Rows'
  BY <1>1 DEF BeliefsInv, Rows
<1>8. Snapshots'
  <2> DEFINE new == [i \in 1..n |-> <<Holders[i], belief[Holders[i]]>>]
  <2>1. belief \in [Agents -> 0..100] /\ curr \in Seq(Agents \X (0..100))
    BY DEF BeliefsInv, Rows, Snapshots
  <2>2. new \in Seq(Agents \X (0..100)) /\ Len(new) = n
    <3>1. ASSUME NEW i \in 1..n PROVE <<Holders[i], belief[Holders[i]]>> \in Agents \X (0..100)
      <4>1. i \in 1..3
        OBVIOUS
      <4>2. Holders[i] \in Agents
        BY <4>1, TheHolders
      <4>3. belief[Holders[i]] \in 0..100
        BY <2>1, <4>2
      <4>4. QED
        BY <4>2, <4>3
    <3>2. QED
      BY <3>1
  <2>3. /\ curr' = curr \o new /\ curr' \in Seq(Agents \X (0..100))
        /\ DOMAIN curr' = 1..(Len(curr) + n)
    <3> HIDE DEF new
    <3>1. QED
      BY <1>2, <2>1, <2>2 DEF new
  <2>4. ASSUME n = 3, NEW l \in Lawyers
        PROVE  SnapshotsOf(curr', l) # {} /\ Latest(curr', l) = belief[l]
    <3>1. PICK k \in 1..3 : Holders[k] = l
      BY TheHolders
    <3>2. Len(curr) \in Nat
      BY <2>1
    <3>3. \A m \in 1..3 : curr'[Len(curr) + m] = <<Holders[m], belief[Holders[m]]>>
      BY <2>1, <2>2, <2>3, <2>4, <3>2
    <3>4. Len(curr) + k \in SnapshotsOf(curr', l)
      BY <2>3, <2>4, <3>1, <3>2, <3>3 DEF SnapshotsOf
    <3>5. ASSUME NEW j \in SnapshotsOf(curr', l), ~(j <= Len(curr) + k) PROVE FALSE
      <4>1. j \in 1..(Len(curr) + 3) /\ curr'[j][1] = l
        BY <2>3, <2>4 DEF SnapshotsOf
      <4>2. PICK m \in 1..3 : j = Len(curr) + m /\ m # k
        <5>1. j - Len(curr) \in 1..3 /\ j = Len(curr) + (j - Len(curr)) /\ j - Len(curr) # k
          BY <3>2, <3>5, <4>1
        <5>2. QED
          BY <5>1
      <4>3. Holders[m] = l
        BY <3>3, <4>1, <4>2
      <4>4. QED
        BY <3>1, <4>2, <4>3 DEF Holders
    <3>6. DOMAIN curr' \subseteq Int
      BY <2>3
    <3>7. Latest(curr', l) = curr'[Len(curr) + k][2]
      BY <3>4, <3>5, <3>6, LatestIs
    <3>8. QED
      BY <3>1, <3>3, <3>4, <3>7
  <2>5. QED
    BY <1>1, <1>5, <2>3, <2>4 DEF Snapshots
<1>9. NeverInverted' /\ TrailTold' /\ ConsensusShared'
  BY <1>1, <1>3, <1>4 DEF BeliefsInv, DeliberationSound, NeverInverted, TrailTold, ConsensusShared
<1>10. Debated'
  <2>1. round' <= limit'
    BY <1>1 DEF BeliefsInv, DeliberationSound, Debated
  <2>2. QED
    BY <1>4, <2>1 DEF Debated
<1>11. QED
  BY <1>6, <1>7, <1>8, <1>9, <1>10 DEF BeliefsInv, DeliberationSound

\* What a judge rules is a belief.
LEMMA RulingsInRange ==
  ASSUME BeliefsInv, NEW p \in Int
  PROVE  /\ ClampPair(<<p, 100 - p>>) \in 0..100
         /\ \A pair \in Rulings : ClampPair(pair) \in 0..100
<1>1. <<p, 100 - p>> \in Int \X Int
  OBVIOUS
<1>2. Rulings \subseteq Int \X Int
  BY BeliefsAssumption
<1>3. QED
  BY <1>1, <1>2, ClampPairInRange

\* A step that writes only the judge's row disturbs nothing the lawyers rely on.
LEMMA JudgeMoves ==
  ASSUME BeliefsInv, Quiet, UNCHANGED <<trail, curr, limit, round, spoken, ended>>, Fine \/ Fault,
         NEW p \in 0..100, belief' = [belief EXCEPT !.judge = p],
         pc' \in {"assess", "decide"} => pc \in {"assess", "decide"},
         Counters' => Rounds'
  PROVE  BeliefsInv'
<1>1. /\ belief \in [Agents -> 0..100] /\ trail \in [Agents -> 5..95]
      /\ \A l \in Lawyers : belief[l] \in 5..95
  BY DEF BeliefsInv, Rows
<1>2. belief' \in [Agents -> 0..100] /\ \A l \in Lawyers : belief'[l] = belief[l]
  BY <1>1, TheHolders
<1>3. trail' = trail /\ curr' = curr /\ limit' = limit /\ round' = round /\ diffs' = {}
      /\ spoken' = spoken /\ ended' = ended
  BY DEF Quiet
<1>4. Counters' /\ (faults' = 0 => faults = 0)
  BY Faulted
<1>5. Rows'
  BY <1>1, <1>2, <1>3 DEF Rows
<1>6. Snapshots'
  BY <1>2, <1>3 DEF BeliefsInv, Snapshots
<1>7. DeliberationSound'
  BY <1>2, <1>3, <1>4 DEF BeliefsInv, DeliberationSound, NeverInverted, TrailTold,
                          ConsensusShared, Debated
<1>8. QED
  BY <1>4, <1>5, <1>6, <1>7 DEF BeliefsInv

\* The judge's assessment.
LEMMA AssessStep ==
  ASSUME BeliefsInv, Assess
  PROVE  BeliefsInv'
<1>1. /\ pc = "assess" /\ pc' = "decide" /\ Quiet
      /\ UNCHANGED <<trail, curr, limit, round, spoken, ended>>
  BY DEF Assess, debate
<1>2. Counters' => Rounds'
  BY <1>1 DEF BeliefsInv, Rounds, Places
<1>3. CASE UNCHANGED belief /\ Fault
  BY <1>1, <1>2, <1>3, RestStays DEF rows
<1>4. CASE ~(UNCHANGED belief /\ Fault)
  <2>1. PICK pair \in Rulings \union {<<belief.judge, 100 - belief.judge>>} :
          belief' = [belief EXCEPT !.judge = ClampPair(pair)] /\ Fine
    BY <1>4 DEF Assess
  <2>2. belief.judge \in Int
    BY TheHolders DEF BeliefsInv, Rows
  <2>3. PICK p \in 0..100 : p = ClampPair(pair)
    BY <2>1, <2>2, RulingsInRange
  <2>4. belief' = [belief EXCEPT !.judge = p]
    BY <2>1, <2>3
  <2>5. QED
    BY <1>1, <1>2, <2>1, <2>4, JudgeMoves
<1>5. QED
  BY <1>3, <1>4

\* The signals are computed after two rounds and both speeches; consensus, from the
\* newest snapshots, which are what the lawyers believe.
LEMMA DecideStep ==
  ASSUME BeliefsInv, Decide
  PROVE  BeliefsInv'
<1>1. /\ pc = "decide" /\ Quiet /\ UNCHANGED <<rows, curr, limit, round, spoken>>
  BY DEF Decide
<1>2. \/ Fine \/ Fault
  BY DEF Decide, RoundFails
<1>3. \/ pc' = "idle" /\ ended' = ended
      \/ pc' = "ruling" /\ ended' = "rounds_over"
      \/ pc' = "ruling" /\ Reason # "" /\ ended' = Reason
  BY DEF Decide, RoundFails
<1>4. ended = "" /\ spoken = Lawyers
  BY <1>1 DEF BeliefsInv, Rounds
<1>5. CASE ended' \in {"", "rounds_over"}
  <2>1. Counters' => Rounds'
    BY <1>1, <1>3, <1>4, <1>5 DEF BeliefsInv, Rounds, Places
  <2>2. pc' \notin {"assess", "decide"}
    BY <1>3
  <2>3. QED
    BY <1>1, <1>2, <1>5, <2>1, <2>2, RestStays
<1>6. CASE ended' \notin {"", "rounds_over"}
  <2>1. pc' = "ruling" /\ Reason # "" /\ ended' = Reason
    BY <1>3, <1>4, <1>6
  <2>2. /\ belief' = belief /\ trail' = trail /\ curr' = curr /\ diffs' = {}
        /\ limit' = limit /\ round' = round /\ spoken' = spoken
    BY <1>1 DEF rows, Quiet
  <2>3. Counters' /\ (faults' = 0 => faults = 0)
    BY <1>2, <2>2, Faulted
  <2>4. Rounds' /\ Rows'
    BY <1>4, <2>1, <2>2, <2>3 DEF BeliefsInv, Rounds, Places, Rows
  <2>5. Snapshots'
    BY <2>1, <2>2 DEF BeliefsInv, Snapshots
  <2>6. round >= 2
    <3>1. ~(round < 2)
      BY <2>1 DEF Reason
    <3>2. Counters
      BY DEF BeliefsInv, Rounds
    <3>3. round \in Int
      BY <3>2 DEF Counters
    <3>4. QED
      BY <3>1, <3>3
  <2>7. Debated'
    <3>1. round' <= limit'
      BY <2>2 DEF BeliefsInv, DeliberationSound, Debated
    <3>2. QED
      BY <1>4, <2>2, <2>6, <3>1 DEF Debated
  <2>8. ConsensusShared'
    <3> SUFFICES ASSUME ended' = "consensus"
                 PROVE  (\A l \in Lawyers : belief[l] >= 85) \/ (\A l \in Lawyers : belief[l] <= 15)
      BY <2>2 DEF ConsensusShared
    <3>1. SignalsConsensus
      BY <2>1 DEF Reason
    <3>2. \A l \in Lawyers : Latest(curr, l) = belief[l]
      BY <1>1 DEF BeliefsInv, Snapshots
    <3>3. QED
      BY <3>1, <3>2 DEF SignalsConsensus
  <2>9. NeverInverted' /\ TrailTold'
    BY <2>2, <2>3 DEF BeliefsInv, DeliberationSound, NeverInverted, TrailTold
  <2>10. QED
    BY <2>4, <2>5, <2>7, <2>8, <2>9 DEF BeliefsInv, DeliberationSound
<1>7. QED
  BY <1>5, <1>6

\* The user asks for the verdict between two rounds.
LEMMA DirectVerdictStep ==
  ASSUME BeliefsInv, DirectVerdict
  PROVE  BeliefsInv'
<1>1. /\ pc = "idle" /\ pc' = "ruling" /\ ended' = "direct_verdict" /\ Quiet /\ Fine
      /\ UNCHANGED <<rows, curr, limit, round, spoken>>
  BY DEF DirectVerdict
<1>2. Counters' => Rounds'
  BY <1>1 DEF BeliefsInv, Rounds, Places
<1>3. QED
  BY <1>1, <1>2, RestStays

\* What is given back to the debate is as it was.
LEMMA FinishRefusedStep ==
  ASSUME BeliefsInv, FinishRefused
  PROVE  BeliefsInv'
<1>1. /\ pc = "ruling" /\ pc' = "idle" /\ ended' = "" /\ Quiet /\ (Fine \/ Fault)
      /\ UNCHANGED <<rows, curr, limit, round, spoken>>
  BY DEF FinishRefused
<1>2. Counters' => Rounds'
  BY <1>1 DEF BeliefsInv, Rounds, Places
<1>3. QED
  BY <1>1, <1>2, RestStays

\* The judge's final decision, or a failure on the way to the verdict.
LEMMA RuleStep ==
  ASSUME BeliefsInv, Rule
  PROVE  BeliefsInv'
<1>1. /\ pc = "ruling" /\ pc' \in {"over", "stuck"} /\ Quiet
      /\ UNCHANGED <<trail, curr, limit, round, spoken, ended>>
      /\ Fine \/ Fault
  BY DEF Rule
<1>2. Counters' => Rounds'
  BY <1>1 DEF BeliefsInv, Rounds, Places
<1>3. pc' \notin {"assess", "decide"}
  BY <1>1
<1>4. CASE UNCHANGED belief
  BY <1>1, <1>2, <1>3, <1>4, RestStays DEF rows
<1>5. CASE ~(UNCHANGED belief)
  <2>1. PICK a \in FinalDecisions \cup {belief.judge} : Judge(a)
    BY <1>5 DEF Rule
  <2>2. a \in Int
    <3>1. ASSUME NEW d \in FinalDecisions PROVE d \in Int
      <4>1. PICK pair \in Rulings : d = ClampPair(pair)
        BY DEF FinalDecisions
      <4>2. 0 \in Int
        OBVIOUS
      <4>3. ClampPair(pair) \in 0..100
        BY <4>2, RulingsInRange
      <4>4. QED
        BY <4>1, <4>3
    <3>2. belief.judge \in Int
      BY TheHolders DEF BeliefsInv, Rows
    <3>3. QED
      BY <3>1, <3>2
  <2>3. PICK p \in 0..100 : p = ClampPair(<<a, 100 - a>>)
    BY <2>2, RulingsInRange
  <2>4. belief' = [belief EXCEPT !.judge = p]
    BY <2>1, <2>3 DEF Judge
  <2>5. QED
    BY <1>1, <1>2, <1>3, <2>4, JudgeMoves
<1>6. QED
  BY <1>4, <1>5

\* A reopened trial takes nothing back but the announcement.
LEMMA ReopenStep ==
  ASSUME BeliefsInv, Reopen
  PROVE  BeliefsInv'
<1>1. /\ pc = "over" /\ pc' = "idle" /\ ended' = "" /\ Quiet /\ Fine
      /\ UNCHANGED <<rows, curr, limit, round, spoken>>
  BY DEF Reopen
<1>2. Counters' => Rounds'
  BY <1>1 DEF BeliefsInv, Rounds, Places
<1>3. QED
  BY <1>1, <1>2, RestStays

--------------------------------------------------------------------------------
\* Every step preserves the invariant.
LEMMA NextInv == BeliefsInv /\ [Next]_vars => BeliefsInv'
<1> SUFFICES ASSUME BeliefsInv, [Next]_vars PROVE BeliefsInv'
  OBVIOUS
<1>1. ASSUME NEW e \in Evaluations, SubmitEvidence(e) PROVE BeliefsInv'
  BY <1>1, EvidenceStep
<1>2. ASSUME NEW l \in Lawyers, SpokenAlready(l) \/ NoSpeech(l) \/ Speak(l) PROVE BeliefsInv'
  BY <1>2, SpokenAlreadyStep, NoSpeechStep, SpeakStep
<1>3. CASE UNCHANGED vars
  BY <1>3 DEF vars, BeliefsInv, Rounds, Counters, Rows, Snapshots, DeliberationSound,
              NeverInverted, TrailTold, ConsensusShared, Debated
<1>4. QED
  BY <1>1, <1>2, <1>3, NextRoundStep, SameRoundStep, SnapshotStep, AssessStep, DecideStep,
     DirectVerdictStep, FinishRefusedStep, RuleStep, ReopenStep DEF Next

\* The invariant.
THEOREM BeliefsInvariant == Spec => []BeliefsInv
  BY InitInv, NextInv, PTL DEF Spec

\* The record of beliefs is sound (DeliberationSound): evidence never moves a belief
\* against the direction the engine gave it (engine_v06.go:95-110), a lawyer's audit
\* trail tells its belief while no write failed, a debate that is being finished for
\* consensus, or over for it, has both lawyers at one extreme, and a signal ends a
\* debate only after two rounds and both speeches.
THEOREM DeliberationStaysSound == Spec => []DeliberationSound
<1>1. BeliefsInv => DeliberationSound
  BY DEF BeliefsInv
<1>2. QED
  BY BeliefsInvariant, <1>1, PTL
================================================================================
