--------------------------- MODULE CourtTrial_proofs ---------------------------
(***************************************************************************)
(* Proofs about CourtTrial, for any set of calls, any mode and any bounds. *)
(*                                                                         *)
(* TypeInv is inductive: the types, and what the place a call has reached  *)
(* says of the copy of the row and the slots it holds.  It needs the       *)
(* places because, for instance, a call holds two slots at most only since *)
(* no withCancel scope is entered but from the places that hold fewer.     *)
(* Upon it are built, each with the invariant it needs: the rounds         *)
(* (RoundInv), what calls hold (HoldInv), the verdict (VerdictInv) and,    *)
(* for requests that do not overlap, the refinement of TrialLifecycle      *)
(* (SerialInv).                                                            *)
(***************************************************************************)
EXTENDS CourtTrial, TLAPS, FiniteSetTheorems

\* Places a call reaches before its first withCancel, or without one.
NoScope == {"idle", "to_opening", "opening", "cancel", "await_verdict",
            "await_continue", "await_start", "await_round", "await_evidence",
            "await_dispatch", "await_reopen", "force_skip", "interrupt", "resume",
            "reopen", "activate", "evidence", "search"}

\* The places of a round of cross-examination.
InRound(r) == \/ r.pc \in {"judge", "decide"}
              \/ r.pc = "speak" /\ r.next = "judge"

PlaceOK(r) ==
  /\ r.pc \in NoScope => r.slots = 0
  /\ r.pc \in {"judge", "decide", "finish", "refused"} => r.slots <= 1
  /\ r.pc = "speak" /\ r.next # "deliberate" => r.slots <= 1
  /\ r.pc = "speak" => r.next # "activate"
  /\ r.pc = "await_round" \/ InRound(r) => r.phase = "cross_exam"
  /\ r.pc = "resume" \/ (r.pc = "speak" /\ r.next # "judge")
       => r.phase \in {"opening", "closing"}

PlacesOK == \A c \in Calls : PlaceOK(call[c])

TypeInv == TypeOK /\ PlacesOK

--------------------------------------------------------------------------------
(* The mode fixes at least two rounds. *)
LEMMA RoundsFact == MaxRounds \in Nat /\ 2 <= MaxRounds /\ 0 \in Rounds /\ 1 \in Rounds
BY ModeAssumption DEF MaxRounds, RoundsOf, Modes, Rounds

(* A goroutine that is not running is well typed. *)
LEMMA IdleOK == Idle \in CallType /\ PlaceOK(Idle)
<1>1. {} \in SUBSET Sides
  OBVIOUS
<1>2. Idle \in CallType
  BY <1>1, RoundsFact DEF Idle, CallType, PCs, Phases
<1>3. PlaceOK(Idle)
  BY DEF Idle, PlaceOK, InRound
<1> QED BY <1>2, <1>3

(* A step that moves one call to a good record keeps all of them good. *)
LEMMA Moved ==
  ASSUME TypeInv, NEW c \in Calls, NEW r \in CallType, PlaceOK(r),
         call' = [call EXCEPT ![c] = r]
  PROVE  call' \in [Calls -> CallType] /\ PlacesOK'
BY DEF TypeInv, TypeOK, PlacesOK

(* The deferred calls of a handler keep the memory well typed. *)
LEMMA Returned ==
  ASSUME TypeInv, NEW c \in Calls, Return(c)
  PROVE  /\ call' \in [Calls -> CallType] /\ PlacesOK'
         /\ lock' \in Calls \union {NoCall} /\ active' \in Calls \union {NoCall}
         /\ sem' \in Int
<1>1. call' \in [Calls -> CallType] /\ PlacesOK'
  <2>1. call' = [call EXCEPT ![c] = Idle]
    BY DEF Return
  <2> QED BY <2>1, IdleOK, Moved
<1>2. call[c].slots \in Int
  BY DEF TypeInv, TypeOK, CallType
<1> QED BY <1>1, <1>2 DEF TypeInv, TypeOK, Return

(* Entering a withCancel scope keeps the memory well typed. *)
LEMMA Entered ==
  ASSUME TypeInv, NEW c \in Calls, NEW next \in CallType, Enter(c, next),
         call[c].slots <= 1, next.pc \in {"speak", "closing"},
         next.pc = "speak" => /\ call[c].slots = 0
                              /\ \/ next.next = "judge" /\ next.phase = "cross_exam"
                                 \/ next.next = "return" /\ next.phase = "opening"
  PROVE  /\ call' \in [Calls -> CallType] /\ PlacesOK'
         /\ active' \in Calls /\ sem' \in Int
<1> DEFINE n == call[c].slots + 1
           r == [next EXCEPT !.slots = n, !.cancelled = FALSE]
<1>1. call[c].slots \in {0, 1} /\ n \in 0..2
  BY DEF TypeInv, TypeOK, CallType
<1>2. r \in CallType
  <2> HIDE DEF n
  <2> QED BY <1>1 DEF CallType
<1>3. PlaceOK(r)
  BY <1>1 DEF PlaceOK, InRound, NoScope, CallType
<1>4. call' = [call EXCEPT ![c] = r]
  BY DEF Enter
<1>5. call' \in [Calls -> CallType] /\ PlacesOK'
  <2> HIDE DEF r
  <2> QED BY <1>2, <1>3, <1>4, Moved
<1> QED BY <1>5 DEF TypeInv, TypeOK, Enter

(* A call whose context is cancelled stays where it is. *)
LEMMA CancelledOK ==
  ASSUME NEW r \in CallType, PlaceOK(r)
  PROVE  [r EXCEPT !.cancelled = TRUE] \in CallType
         /\ PlaceOK([r EXCEPT !.cancelled = TRUE])
BY DEF CallType, PlaceOK, InRound

(* A call that only goes to another place keeps the calls good, if the slots *)
(* and the copy it holds fit the place.                                      *)
LEMMA Gone ==
  ASSUME TypeInv, NEW c \in Calls,
         NEW p \in PCs \ {"speak", "await_round", "resume"}, Goto(c, p),
         p \in NoScope => call[c].slots = 0,
         p \in {"judge", "decide", "finish", "refused"} => call[c].slots <= 1,
         p \in {"judge", "decide"} => call[c].phase = "cross_exam"
  PROVE  call' \in [Calls -> CallType] /\ PlacesOK'
<1> DEFINE r == [call[c] EXCEPT !.pc = p]
<1>1. call[c] \in CallType
  BY DEF TypeInv, TypeOK
<1>2. r \in CallType /\ PlaceOK(r)
  BY <1>1 DEF CallType, PlaceOK, InRound
<1>3. call' = [call EXCEPT ![c] = r]
  BY <1>1 DEF Goto
<1> HIDE DEF r
<1> QED BY <1>2, <1>3, Moved

(* A side that has been heard is one less to hear. *)
LEMMA HeardOK ==
  ASSUME TypeInv, NEW c \in Calls, call[c].pc = "speak", Heard(c)
  PROVE  call' \in [Calls -> CallType] /\ PlacesOK'
<1> DEFINE t == call[c].todo \ {Speaker(c)}
           r == [call[c] EXCEPT !.todo = t]
<1>1. call[c] \in CallType /\ PlaceOK(call[c])
  BY DEF TypeInv, TypeOK, PlacesOK
<1>2. t \in SUBSET Sides
  BY <1>1 DEF CallType
<1>3. call' = [call EXCEPT ![c] = r]
  BY <1>1 DEF Heard
<1>4. r \in CallType /\ PlaceOK(r)
  <2> HIDE DEF t
  <2> QED BY <1>1, <1>2 DEF CallType, PlaceOK, InRound
<1> HIDE DEF r
<1> QED BY <1>3, <1>4, Moved

--------------------------------------------------------------------------------
(* One lemma for each group of actions: it keeps TypeInv. *)

LEMMA InitTypeInv == Init => TypeInv
<1> SUFFICES ASSUME Init PROVE TypeInv
  OBVIOUS
<1>1. call \in [Calls -> CallType] /\ PlacesOK
  BY IdleOK DEF Init, PlacesOK
<1>2. verdict \in [round : Rounds, evidence : Nat, written : BOOLEAN]
  BY RoundsFact DEF Init, NoVerdict
<1>3. spoken \subseteq Speeches
  BY DEF Init
<1>4. crashes \in 0..MaxCrashes /\ faults \in 0..MaxFaults /\ sem \in Int
  BY BoundsAssumption DEF Init
<1>5. /\ phase \in Phases /\ round \in Rounds /\ status \in {"active", "completed"}
      /\ touched \in BOOLEAN /\ evidence \in Nat /\ booting \in BOOLEAN
      /\ lock \in Calls \union {NoCall} /\ active \in Calls \union {NoCall}
  BY RoundsFact DEF Init, Phases
<1> QED BY <1>1, <1>2, <1>3, <1>4, <1>5 DEF TypeInv, TypeOK

LEMMA RequestTypeInv ==
  ASSUME TypeInv, NEW c \in Calls, NEW p \in {"to_opening", "opening", "cancel",
           "await_continue", "await_start", "await_dispatch", "await_reopen",
           "force_skip", "interrupt"} \union {ResumeStep(phase)},
         Begin(c, p)
  PROVE  call' \in [Calls -> CallType] /\ PlacesOK'
<1> DEFINE r == [Idle EXCEPT !.pc = p, !.phase = phase, !.round = round]
<1>1. phase \in Phases /\ round \in Rounds
  BY DEF TypeInv, TypeOK
<1>2. r \in CallType
  BY <1>1, IdleOK DEF CallType, PCs, ResumeStep
<1>3. PlaceOK(r)
  BY DEF PlaceOK, InRound, NoScope, Idle, ResumeStep
<1>4. call' = [call EXCEPT ![c] = r]
  BY DEF Begin
<1> HIDE DEF r
<1> QED BY <1>2, <1>3, <1>4, Moved

LEMMA StepTypeInv == ASSUME TypeInv, NEW c \in Calls, Step(c) PROVE TypeInv'
<1> DEFINE CallsOK == call \in [Calls -> CallType] /\ PlacesOK
<1>0. call[c] \in CallType /\ PlaceOK(call[c])
  BY DEF TypeInv, TypeOK, PlacesOK
<1> USE DEF At
<1>1. CASE TransitionToOpening(c)
  <2>1. CallsOK'
    BY <1>1, <1>0, Gone DEF TransitionToOpening, PlaceOK, NoScope, PCs
  <2> QED BY <1>1, <2>1, RoundsFact
          DEF TransitionToOpening, WriteRow, TypeInv, TypeOK, Phases, disk, env
<1>2. CASE RunOpeningSpeeches(c)
  <2>1. CASE SlotRefused /\ Return(c)
    BY <1>2, <2>1, Returned DEF RunOpeningSpeeches, TypeInv, TypeOK, row, disk, env
  <2>2. CASE /\ Enter(c, [Idle EXCEPT !.pc = "speak", !.phase = "opening", !.todo = Sides])
             /\ UNCHANGED lock
    <3> DEFINE n == [Idle EXCEPT !.pc = "speak", !.phase = "opening", !.todo = Sides]
    <3>1. n \in CallType
      BY IdleOK DEF CallType, PCs, Phases
    <3>2. n.pc = "speak" /\ n.next = "return" /\ n.phase = "opening"
      BY DEF Idle
    <3>3. call[c].slots = 0
      BY <1>0, <1>2 DEF RunOpeningSpeeches, PlaceOK, NoScope
    <3>4. CallsOK' /\ active' \in Calls /\ sem' \in Int
      <4> HIDE DEF n
      <4>1. Enter(c, n)
        BY <2>2 DEF n
      <4> QED BY <3>1, <3>2, <3>3, <4>1, Entered
    <3> QED BY <1>2, <2>2, <3>4 DEF RunOpeningSpeeches, TypeInv, TypeOK, row, disk, env
  <2> QED BY <1>2, <2>1, <2>2 DEF RunOpeningSpeeches
<1>3. CASE ForceSkipOpening(c)
  BY <1>3, Returned, RoundsFact
     DEF ForceSkipOpening, WriteRow, TypeInv, TypeOK, Phases, disk, env
<1>4. CASE Speak(c)
  <2>1. CallsOK'
    BY <1>4, HeardOK DEF Speak
  <2>2. Speech(c) \in Speeches
    <3>1. Speaker(c) \in Sides
      BY DEF Speaker, Sides
    <3>2. call[c].phase \in {"opening", "cross_exam", "closing"}
      BY <1>0, <1>4 DEF Speak, PlaceOK, InRound
    <3> QED BY <1>0, <3>1, <3>2, RoundsFact DEF Speech, Speeches, CallType
  <2> QED BY <1>4, <2>1, <2>2 DEF Speak, TypeInv, TypeOK, row, env
<1>5. CASE SpeakFails(c)
  <2>1. CASE call[c].next = "deliberate"
    BY <1>5, <2>1, HeardOK DEF SpeakFails, TypeInv, TypeOK, row, disk, env
  <2>2. CASE call[c].next # "deliberate"
    BY <1>5, <2>2, Returned DEF SpeakFails, TypeInv, TypeOK, row, disk, env
  <2> QED BY <2>1, <2>2
<1>6. CASE SpeechesDone(c)
  <2>1. CASE call[c].next = "return"
    BY <1>6, <2>1, Returned DEF SpeechesDone, TypeInv, TypeOK, row, disk, env
  <2>2. CASE call[c].next # "return"
    <3>1. call[c].next \in {"judge", "deliberate"}
      BY <1>0, <1>6, <2>2 DEF SpeechesDone, PlaceOK, CallType
    <3>2. CallsOK'
      BY <1>0, <1>6, <2>2, <3>1, Gone DEF SpeechesDone, PlaceOK, InRound, NoScope, PCs
    <3> QED BY <1>6, <2>2, <3>2 DEF SpeechesDone, TypeInv, TypeOK, row, disk, env
  <2> QED BY <2>1, <2>2
<1>7. CASE ContinueCrossExam(c)
  <2> DEFINE n == call[c].round + 1
  <2>0. call[c].slots = 0 /\ call[c].pc = "await_continue"
    BY <1>0, <1>7 DEF ContinueCrossExam, PlaceOK, NoScope
  <2>1. CASE Goto(c, "finish") /\ UNCHANGED <<row, lock, active, sem>>
    <3>1. CallsOK'
      BY <2>0, <2>1, Gone DEF NoScope, PCs
    <3> QED BY <1>7, <2>1, <3>1 DEF ContinueCrossExam, TypeInv, TypeOK, row, disk, env
  <2>2. CASE /\ n <= MaxRounds
             /\ WriteRow("cross_exam", n)
             /\ call' = [call EXCEPT ![c] = [@ EXCEPT !.pc = "await_round",
                                     !.phase = "cross_exam", !.round = n]]
             /\ UNCHANGED <<lock, active, sem>>
    <3> DEFINE r == [call[c] EXCEPT !.pc = "await_round",
                                    !.phase = "cross_exam", !.round = n]
    <3>1. n \in Rounds
      BY <1>0, <2>2, RoundsFact DEF Rounds, CallType
    <3>2. r \in CallType /\ PlaceOK(r)
      <4> HIDE DEF n
      <4> QED BY <1>0, <2>0, <3>1 DEF CallType, PlaceOK, InRound, NoScope, PCs, Phases
    <3>3. call' = [call EXCEPT ![c] = r]
      BY <2>2
    <3>4. CallsOK'
      <4> HIDE DEF r
      <4> QED BY <3>2, <3>3, Moved
    <3> HIDE DEF n
    <3> QED BY <1>7, <2>2, <3>1, <3>4
            DEF ContinueCrossExam, WriteRow, TypeInv, TypeOK, Phases, disk, env
  <2>3. CASE Return(c) /\ UNCHANGED row
    BY <1>7, <2>3, Returned DEF ContinueCrossExam, TypeInv, TypeOK, row, disk, env
  <2> QED BY <1>7, <2>1, <2>2, <2>3 DEF ContinueCrossExam
<1>8. CASE StartCrossExam(c)
  <2> DEFINE r == [call[c] EXCEPT !.pc = "await_round", !.phase = "cross_exam", !.round = 1]
  <2>1. call[c].slots = 0
    BY <1>0, <1>8 DEF StartCrossExam, PlaceOK, NoScope
  <2>2. r \in CallType /\ PlaceOK(r)
    BY <1>0, <2>1, RoundsFact DEF CallType, PlaceOK, InRound, NoScope, PCs, Phases
  <2>3. call' = [call EXCEPT ![c] = r]
    BY <1>8 DEF StartCrossExam
  <2>4. CallsOK'
    <3> HIDE DEF r
    <3> QED BY <2>2, <2>3, Moved
  <2> QED BY <1>8, <2>4, RoundsFact
          DEF StartCrossExam, WriteRow, TypeInv, TypeOK, Phases, disk, env
<1>9. CASE RunCrossExamRound(c)
  <2>0. call[c].slots = 0 /\ call[c].phase = "cross_exam"
    BY <1>0, <1>9 DEF RunCrossExamRound, PlaceOK, NoScope
  <2> DEFINE t == {s \in Sides : <<"cross_exam", call[c].round, s>> \notin spoken}
             n == [call[c] EXCEPT !.pc = "speak", !.next = "judge", !.todo = t]
  <2>1. CASE SlotRefused /\ Return(c)
    BY <1>9, <2>1, Returned DEF RunCrossExamRound, TypeInv, TypeOK, row, disk, env
  <2>2. CASE Enter(c, n) /\ lock' = c
    <3>1. n \in CallType /\ n.pc = "speak" /\ n.next = "judge" /\ n.phase = "cross_exam"
      <4>1. t \in SUBSET Sides
        OBVIOUS
      <4> HIDE DEF t
      <4> QED BY <1>0, <2>0, <4>1 DEF CallType, PCs
    <3>2. CallsOK' /\ active' \in Calls /\ sem' \in Int
      <4> HIDE DEF n
      <4> QED BY <2>0, <2>2, <3>1, Entered
    <3> QED BY <1>9, <2>2, <3>2 DEF RunCrossExamRound, TypeInv, TypeOK, row, disk, env
  <2> QED BY <1>9, <2>1, <2>2 DEF RunCrossExamRound
<1>10. CASE JudgeAssess(c)
  <2>1. CallsOK'
    <3>1. call[c].pc = "judge" /\ Goto(c, "decide")
      BY <1>10 DEF JudgeAssess
    <3> QED BY <1>0, <3>1, Gone DEF PlaceOK, InRound, NoScope, PCs
  <2> QED BY <1>10, <2>1 DEF JudgeAssess, TypeInv, TypeOK, row, disk, env
<1>11. CASE DecideRound(c)
  <2>1. CASE Goto(c, "finish")
    <3>1. CallsOK'
      BY <1>0, <1>11, <2>1, Gone DEF DecideRound, PlaceOK, NoScope, PCs
    <3>2. touched' \in BOOLEAN /\ UNCHANGED <<phase, round, status>>
      BY <1>11 DEF DecideRound, TypeInv, TypeOK, row
    <3>3. UNCHANGED <<lock, active, sem>> \/ Return(c)
      BY <1>11 DEF DecideRound
    <3> QED BY <1>11, <3>1, <3>2, <3>3, Returned
               DEF DecideRound, TypeInv, TypeOK, disk, env
  <2>2. CASE Return(c) /\ UNCHANGED row
    BY <1>11, <2>2, Returned DEF DecideRound, TypeInv, TypeOK, row, disk, env
  <2> QED BY <1>11, <2>1, <2>2 DEF DecideRound
<1>12. CASE CancelCall(c)
  <2> DEFINE a == [call[c] EXCEPT !.pc = "await_verdict"]
             b(d) == IF d = active THEN [call[d] EXCEPT !.cancelled = TRUE] ELSE call[d]
  <2>1. \A d \in Calls : call[d] \in CallType /\ PlaceOK(call[d])
    BY DEF TypeInv, TypeOK, PlacesOK
  <2>2. a \in CallType /\ PlaceOK(a)
    BY <1>0, <1>12 DEF CancelCall, CallType, PlaceOK, InRound, NoScope, PCs
  <2>3. \A d \in Calls : b(d) \in CallType /\ PlaceOK(b(d))
    BY <2>1, CancelledOK
  <2>4. call' = [d \in Calls |-> IF d = c THEN a ELSE b(d)]
    BY <1>12 DEF CancelCall
  <2>5. CallsOK'
    <3> HIDE DEF a, b
    <3> QED BY <2>2, <2>3, <2>4 DEF PlacesOK
  <2> QED BY <1>12, <2>5 DEF CancelCall, TypeInv, TypeOK, row, disk, env
<1>13. CASE LockForVerdict(c)
  <2>1. CallsOK'
    BY <1>0, <1>13, Gone DEF LockForVerdict, PlaceOK, NoScope, PCs
  <2> QED BY <1>13, <2>1 DEF LockForVerdict, TypeInv, TypeOK, row, disk, env
<1>14. CASE FinishTrial(c)
  <2>1. CASE Goto(c, "refused") /\ UNCHANGED <<lock, active, sem>>
    <3>1. CallsOK'
      BY <1>0, <1>14, <2>1, Gone DEF FinishTrial, PlaceOK, NoScope, PCs
    <3> QED BY <1>14, <2>1, <3>1 DEF FinishTrial, TypeInv, TypeOK, row, disk, env
  <2>2. CASE Enter(c, [call[c] EXCEPT !.pc = "closing"]) /\ UNCHANGED lock
    <3> DEFINE n == [call[c] EXCEPT !.pc = "closing"]
    <3>1. n \in CallType /\ n.pc = "closing"
      BY <1>0 DEF CallType, PCs
    <3>2. call[c].slots <= 1
      BY <1>0, <1>14 DEF FinishTrial, PlaceOK
    <3>3. CallsOK' /\ active' \in Calls /\ sem' \in Int
      <4> HIDE DEF n
      <4>1. Enter(c, n)
        BY <2>2 DEF n
      <4> QED BY <3>1, <3>2, <4>1, Entered
    <3> QED BY <1>14, <2>2, <3>3 DEF FinishTrial, TypeInv, TypeOK, row, disk, env
  <2>3. CASE /\ call' = [call EXCEPT ![c] = Idle]
             /\ sem' = sem - call[c].slots
             /\ lock' = IF lock = c THEN NoCall ELSE lock
             /\ active' = NoCall
    <3>1. CallsOK'
      BY <2>3, IdleOK, Moved
    <3>2. sem' \in Int
      BY <1>0, <2>3 DEF TypeInv, TypeOK, CallType
    <3> QED BY <1>14, <2>3, <3>1, <3>2 DEF FinishTrial, TypeInv, TypeOK, row, disk, env
  <2> QED BY <1>14, <2>1, <2>2, <2>3 DEF FinishTrial
<1>15. CASE CloseTrial(c)
  <2> DEFINE r == [call[c] EXCEPT !.pc = "speak", !.phase = "closing",
                                  !.next = "deliberate", !.todo = Sides]
  <2>1. r \in CallType /\ PlaceOK(r)
    BY <1>0 DEF CallType, PlaceOK, InRound, NoScope, PCs, Phases
  <2>2. call' = [call EXCEPT ![c] = r]
    BY <1>15 DEF CloseTrial
  <2>3. CallsOK'
    <3> HIDE DEF r
    <3> QED BY <2>1, <2>2, Moved
  <2>4. call[c].round \in Rounds
    BY <1>0 DEF CallType
  <2> QED BY <1>15, <2>3, <2>4
          DEF CloseTrial, WriteRow, TypeInv, TypeOK, Phases, disk, env
<1>16. CASE Deliberate(c)
  <2> DEFINE r == [call[c] EXCEPT !.pc = "upsert", !.phase = "deliberation", !.seen = evidence]
  <2>1. r \in CallType /\ PlaceOK(r)
    <3>1. evidence \in Nat
      BY DEF TypeInv, TypeOK
    <3> QED BY <1>0, <3>1 DEF CallType, PlaceOK, InRound, NoScope, PCs, Phases
  <2>2. call' = [call EXCEPT ![c] = r]
    BY <1>16 DEF Deliberate
  <2>3. CallsOK'
    <3> HIDE DEF r
    <3> QED BY <2>1, <2>2, Moved
  <2>4. call[c].round \in Rounds
    BY <1>0 DEF CallType
  <2> QED BY <1>16, <2>3, <2>4
          DEF Deliberate, WriteRow, TypeInv, TypeOK, Phases, disk, env
<1>17. CASE UpsertVerdict(c)
  <2>1. CallsOK'
    BY <1>0, <1>17, Gone DEF UpsertVerdict, PlaceOK, NoScope, PCs
  <2>2. verdict' \in [round : Rounds, evidence : Nat, written : BOOLEAN]
    BY <1>0, <1>17 DEF UpsertVerdict, CallType
  <2> QED BY <1>17, <2>1, <2>2 DEF UpsertVerdict, TypeInv, TypeOK, env
<1>18. CASE PublishVerdict(c)
  <2>1. CallsOK'
    BY <1>0, <1>18, Gone DEF PublishVerdict, PlaceOK, NoScope, PCs
  <2>2. call[c].round \in Rounds
    BY <1>0 DEF CallType
  <2> QED BY <1>18, <2>1, <2>2
          DEF PublishVerdict, WriteRow, TypeInv, TypeOK, Phases, disk, env
<1>19. CASE CompleteTrial(c)
  BY <1>19, Returned DEF CompleteTrial, TypeInv, TypeOK, disk, env
<1>20. CASE LockForReopen(c)
  <2>1. CASE phase \in {"verdict", "appeal"}
    <3> DEFINE w == IF status # "active" THEN "activate" ELSE "return"
               r == [call[c] EXCEPT !.pc = "reopen", !.phase = phase,
                                    !.round = round, !.next = w]
    <3>1. phase \in Phases /\ round \in Rounds /\ w \in {"activate", "return"}
      BY DEF TypeInv, TypeOK
    <3>2. call[c].slots = 0
      BY <1>0, <1>20 DEF LockForReopen, PlaceOK, NoScope
    <3>3. r \in CallType /\ PlaceOK(r)
      <4> HIDE DEF w
      <4> QED BY <1>0, <3>1, <3>2 DEF CallType, PlaceOK, InRound, NoScope, PCs
    <3>4. call' = [call EXCEPT ![c] = r]
      BY <1>20, <2>1 DEF LockForReopen
    <3>5. CallsOK'
      <4> HIDE DEF r
      <4> QED BY <3>3, <3>4, Moved
    <3> QED BY <1>20, <2>1, <3>5 DEF LockForReopen, TypeInv, TypeOK, row, disk, env
  <2>2. CASE phase \notin {"verdict", "appeal"}
    BY <1>20, <2>2, Returned DEF LockForReopen, TypeInv, TypeOK, row, disk, env
  <2> QED BY <2>1, <2>2
<1>21. CASE ReopenTrial(c)
  <2>1. call[c].round \in Rounds
    BY <1>0 DEF CallType
  <2>2. CASE call[c].next = "return"
    BY <1>21, <2>1, <2>2, Returned
       DEF ReopenTrial, WriteRow, TypeInv, TypeOK, Phases, disk, env
  <2>3. CASE call[c].next # "return"
    <3>1. CallsOK'
      BY <1>0, <1>21, <2>3, Gone DEF ReopenTrial, PlaceOK, NoScope, PCs
    <3> QED BY <1>21, <2>1, <2>3, <3>1
            DEF ReopenTrial, WriteRow, TypeInv, TypeOK, Phases, disk, env
  <2> QED BY <2>2, <2>3
<1>22. CASE ActivateTrial(c)
  BY <1>22, Returned DEF ActivateTrial, TypeInv, TypeOK, disk, env
<1>23. CASE LockForEvidence(c)
  <2>1. CASE ValidateAction(phase, "submit_evidence")
    <3>1. CallsOK'
      BY <1>0, <1>23, <2>1, Gone DEF LockForEvidence, PlaceOK, NoScope, PCs
    <3> QED BY <1>23, <2>1, <3>1 DEF LockForEvidence, TypeInv, TypeOK, row, disk, env
  <2>2. CASE ~ValidateAction(phase, "submit_evidence")
    BY <1>23, <2>2, Returned DEF LockForEvidence, TypeInv, TypeOK, row, disk, env
  <2> QED BY <2>1, <2>2
<1>24. CASE SubmitEvidence(c)
  BY <1>24, Returned DEF SubmitEvidence, TypeInv, TypeOK, row, env
<1>25. CASE LockForDispatch(c)
  <2>1. CallsOK'
    BY <1>0, <1>25, Gone DEF LockForDispatch, PlaceOK, NoScope, PCs
  <2> QED BY <1>25, <2>1 DEF LockForDispatch, TypeInv, TypeOK, row, disk, env
<1>26. CASE DispatchInvestigator(c)
  BY <1>26, Returned DEF DispatchInvestigator, TypeInv, TypeOK, row, disk, env
<1>27. CASE Interrupt(c)
  <2> DEFINE p == ResumeStep(call[c].phase)
             a == IF p = "idle" THEN Idle ELSE [call[c] EXCEPT !.pc = p]
             b(d) == IF d = active THEN [call[d] EXCEPT !.cancelled = TRUE] ELSE call[d]
  <2>1. \A d \in Calls : call[d] \in CallType /\ PlaceOK(call[d])
    BY DEF TypeInv, TypeOK, PlacesOK
  <2>2. a \in CallType /\ PlaceOK(a)
    <3>1. CASE p = "idle"
      BY <3>1, IdleOK
    <3>2. CASE p # "idle"
      <4>1. \/ p = "resume" /\ call[c].phase \in {"opening", "closing"}
            \/ p = "await_round" /\ call[c].phase = "cross_exam"
        BY <3>2 DEF ResumeStep
      <4>2. call[c].slots = 0
        BY <1>0, <1>27 DEF Interrupt, PlaceOK, NoScope
      <4> HIDE DEF p
      <4> QED BY <1>0, <3>2, <4>1, <4>2 DEF CallType, PlaceOK, InRound, NoScope, PCs
    <3> QED BY <3>1, <3>2
  <2>3. \A d \in Calls : b(d) \in CallType /\ PlaceOK(b(d))
    BY <2>1, CancelledOK
  <2>4. call' = [d \in Calls |-> IF d = c THEN a ELSE b(d)]
    BY <1>27 DEF Interrupt
  <2>5. CallsOK'
    <3> HIDE DEF a, b
    <3> QED BY <2>2, <2>3, <2>4 DEF PlacesOK
  <2> QED BY <1>27, <2>5 DEF Interrupt, TypeInv, TypeOK, row, disk, env
<1>28. CASE Resume(c)
  <2> DEFINE silent == Silent(call[c].phase)
             t == IF "prosecutor" \in silent THEN {"prosecutor"} ELSE silent
             r == [call[c] EXCEPT !.pc = "speak", !.next = "return", !.todo = t]
  <2>1. t \in SUBSET Sides
    BY DEF Silent, Sides
  <2>2. call[c].slots = 0 /\ call[c].phase \in {"opening", "closing"}
    <3>1. call[c].pc = "resume"
      BY <1>28 DEF Resume
    <3> QED BY <1>0, <3>1 DEF PlaceOK, NoScope
  <2>3. r \in CallType /\ PlaceOK(r)
    <3> HIDE DEF t
    <3>1. r \in CallType
      BY <1>0, <2>1 DEF CallType, PCs
    <3>2. /\ r.pc = "speak" /\ r.next = "return" /\ r.slots = 0
          /\ r.phase \in {"opening", "closing"}
      BY <1>0, <2>2 DEF CallType
    <3> HIDE DEF r
    <3> QED BY <3>1, <3>2 DEF PlaceOK, InRound, NoScope
  <2>4. call' = [call EXCEPT ![c] = r]
    BY <1>28 DEF Resume
  <2>5. CallsOK'
    <3> HIDE DEF r
    <3> QED BY <2>3, <2>4, Moved
  <2> QED BY <1>28, <2>5 DEF Resume, TypeInv, TypeOK, row, disk, env
<1>29. CASE ReportRefusal(c)
  BY <1>29, Returned DEF ReportRefusal, TypeInv, TypeOK, row, disk, env
<1> QED BY <1>1, <1>2, <1>3, <1>4, <1>5, <1>6, <1>7, <1>8, <1>9, <1>10, <1>11, <1>12,
           <1>13, <1>14, <1>15, <1>16, <1>17, <1>18, <1>19, <1>20, <1>21, <1>22, <1>23,
           <1>24, <1>25, <1>26, <1>27, <1>28, <1>29 DEF Step

LEMMA NextTypeInv == TypeInv /\ [Next]_vars => TypeInv'
<1> SUFFICES ASSUME TypeInv, [Next]_vars PROVE TypeInv'
  OBVIOUS
<1>1. ASSUME NEW c \in Calls, NEW action \in DOMAIN FirstStep, Request(c, action)
      PROVE  TypeInv'
  <2>1. FirstStep[action] \in {"to_opening", "opening", "cancel", "await_continue",
          "await_start", "await_dispatch", "await_reopen", "force_skip", "interrupt"}
    BY <1>1 DEF FirstStep
  <2>2. Begin(c, FirstStep[action])
    BY <1>1 DEF Request
  <2>3. call' \in [Calls -> CallType] /\ PlacesOK'
    BY <2>1, <2>2, RequestTypeInv
  <2> QED BY <1>1, <2>3 DEF Request, TypeInv, TypeOK, row, disk, env
<1>2. ASSUME NEW c \in Calls, RequestEvidence(c) PROVE TypeInv'
  <2>1. call[c] \in CallType /\ PlaceOK(call[c]) /\ call[c].pc = "idle"
    BY <1>2 DEF RequestEvidence, TypeInv, TypeOK, PlacesOK, At
  <2>2. call' \in [Calls -> CallType] /\ PlacesOK'
    BY <1>2, <2>1, Gone DEF RequestEvidence, PlaceOK, NoScope, PCs
  <2> QED BY <1>2, <2>2 DEF RequestEvidence, TypeInv, TypeOK, row, disk, env
<1>3. ASSUME NEW c \in Calls, Recover(c) PROVE TypeInv'
  <2>1. CASE Begin(c, ResumeStep(phase))
    BY <1>3, <2>1, RequestTypeInv DEF Recover, TypeInv, TypeOK, row, disk
  <2>2. CASE UNCHANGED call
    BY <1>3, <2>2 DEF Recover, TypeInv, TypeOK, PlacesOK, row, disk
  <2> QED BY <1>3, <2>1, <2>2 DEF Recover
<1>4. ASSUME NEW c \in Calls, Abort(c) PROVE TypeInv'
  <2>1. faults' \in 0..MaxFaults
    BY <1>4, BoundsAssumption DEF Abort, TypeInv, TypeOK
  <2> QED BY <1>4, <2>1, Returned DEF Abort, TypeInv, TypeOK, row, disk
<1>5. CASE Crash
  <2>1. crashes' \in 0..MaxCrashes
    BY <1>5, BoundsAssumption DEF Crash, TypeInv, TypeOK
  <2>2. call' \in [Calls -> CallType] /\ PlacesOK'
    BY <1>5, IdleOK DEF Crash, PlacesOK
  <2> QED BY <1>5, <2>1, <2>2 DEF Crash, TypeInv, TypeOK, row, disk
<1>6. CASE UNCHANGED vars
  BY <1>6 DEF vars, row, disk, memory, env, TypeInv, TypeOK, PlacesOK
<1> QED BY <1>1, <1>2, <1>3, <1>4, <1>5, <1>6, StepTypeInv DEF Next

(* Every variable keeps its type, whatever the number of calls, the mode, the *)
(* capacity of the semaphore and the crashes and faults: in particular no     *)
(* step drives the round past the rounds of the mode.                         *)
THEOREM TypeCorrect == Spec => []TypeOK
<1>1. TypeInv => TypeOK
  BY DEF TypeInv
<1> QED BY <1>1, InitTypeInv, NextTypeInv, PTL DEF Spec

--------------------------------------------------------------------------------
(* One round at a time.  A call in a round holds the session lock, so what it *)
(* found in the transcript stays true until it has let the missing sides      *)
(* speak: no other call adds a speech of cross-examination meanwhile.         *)

Speaking(r) == r.pc = "speak" /\ r.next = "judge"

RoundHoldsLock == \A c \in Calls : InRound(call[c]) => lock = c

\* A round whose prosecutor is not to speak any more has heard it.
ProsecutorHeard ==
  \A c \in Calls : Speaking(call[c]) /\ "prosecutor" \notin call[c].todo =>
    <<"cross_exam", call[c].round, "prosecutor">> \in spoken

RoundInv == RoundHoldsLock /\ NoSpeechTwice /\ ProsecutorHeard /\ DefenderAnswers

\* What a step of another call leaves alone.
Same(d) == /\ call'[d].pc = call[d].pc /\ call'[d].next = call[d].next
           /\ call'[d].todo = call[d].todo /\ call'[d].round = call[d].round
           /\ lock = d => lock' = d

\* What a step says for the call that takes it, if it ends in a round.
Fits(c) ==
  /\ InRound(call'[c]) => lock' = c
  /\ Speaking(call'[c]) =>
       /\ \A s \in call'[c].todo : <<"cross_exam", call'[c].round, s>> \notin spoken
       /\ "prosecutor" \notin call'[c].todo =>
            <<"cross_exam", call'[c].round, "prosecutor">> \in spoken

(* A step that says nothing, and fits its own round, keeps RoundInv. *)
LEMMA QuietStep ==
  ASSUME RoundInv, NEW c \in Calls, \A d \in Calls \ {c} : Same(d), Fits(c),
         spoken' = spoken
  PROVE  RoundInv'
<1> SUFFICES ASSUME NEW d \in Calls
             PROVE  /\ InRound(call'[d]) => lock' = d
                    /\ Speaking(call'[d]) =>
                         /\ \A s \in call'[d].todo :
                              <<"cross_exam", call'[d].round, s>> \notin spoken
                         /\ "prosecutor" \notin call'[d].todo =>
                              <<"cross_exam", call'[d].round, "prosecutor">> \in spoken
  BY DEF RoundInv, RoundHoldsLock, NoSpeechTwice, ProsecutorHeard, DefenderAnswers,
         At, Speaking
<1>1. CASE d = c
  BY <1>1 DEF Fits
<1>2. CASE d # c
  <2>1. Same(d)
    BY <1>2
  <2> QED BY <2>1 DEF Same, RoundInv, RoundHoldsLock, NoSpeechTwice, ProsecutorHeard,
                      InRound, Speaking, At
<1> QED BY <1>1, <1>2

(* Steps that move the call alone to a place out of a round. *)
LEMMA OutOfRound ==
  ASSUME TypeInv, RoundInv, NEW c \in Calls, NEW r, call' = [call EXCEPT ![c] = r],
         ~InRound(r), lock' \in {lock, c} \/ (lock = c /\ lock' = NoCall),
         lock' = c => lock \in {c, NoCall}, spoken' = spoken
  PROVE  RoundInv'
<1>1. call'[c] = r
  BY DEF TypeInv, TypeOK
<1>2. Fits(c)
  BY <1>1 DEF Fits, InRound, Speaking
<1>3. \A d \in Calls \ {c} : Same(d)
  BY CallsAssumption DEF Same, TypeInv, TypeOK
<1> QED BY <1>2, <1>3, QuietStep

(* Returning from a handler, in particular out of a round. *)
LEMMA ReturnKeepsRoundInv ==
  ASSUME TypeInv, RoundInv, NEW c \in Calls, Return(c), spoken' = spoken
  PROVE  RoundInv'
<1>1. ~InRound(Idle)
  BY DEF InRound, Idle
<1> QED BY <1>1, OutOfRound DEF Return

(* Going to a place out of a round. *)
LEMMA GotoKeepsRoundInv ==
  ASSUME TypeInv, RoundInv, NEW c \in Calls, NEW p, Goto(c, p),
         p \notin {"speak", "judge", "decide"}, lock' = lock \/ (lock = NoCall /\ lock' = c),
         spoken' = spoken
  PROVE  RoundInv'
<1> DEFINE r == [call[c] EXCEPT !.pc = p]
<1>1. call[c] \in CallType
  BY DEF TypeInv, TypeOK
<1>2. ~InRound(r)
  BY <1>1 DEF InRound, CallType
<1>3. call' = [call EXCEPT ![c] = r]
  BY DEF Goto
<1> HIDE DEF r
<1> QED BY <1>2, <1>3, OutOfRound

LEMMA StepRoundInv ==
  ASSUME TypeInv, RoundInv, NEW c \in Calls, Step(c) PROVE RoundInv'
<1>0. call[c] \in CallType /\ PlaceOK(call[c])
  BY DEF TypeInv, TypeOK, PlacesOK
<1> USE DEF At
<1>1. CASE TransitionToOpening(c)
  BY <1>1, GotoKeepsRoundInv DEF TransitionToOpening, disk
<1>2. CASE RunOpeningSpeeches(c)
  <2>1. CASE Return(c)
    BY <1>2, <2>1, ReturnKeepsRoundInv DEF RunOpeningSpeeches, disk
  <2>2. CASE /\ Enter(c, [Idle EXCEPT !.pc = "speak", !.phase = "opening", !.todo = Sides])
             /\ UNCHANGED lock
    <3> DEFINE r == [[Idle EXCEPT !.pc = "speak", !.phase = "opening", !.todo = Sides]
                       EXCEPT !.slots = call[c].slots + 1, !.cancelled = FALSE]
    <3>1. ~InRound(r)
      BY DEF InRound, Idle
    <3>2. call' = [call EXCEPT ![c] = r]
      BY <2>2 DEF Enter
    <3> HIDE DEF r
    <3> QED BY <1>2, <2>2, <3>1, <3>2, OutOfRound DEF RunOpeningSpeeches, disk
  <2> QED BY <1>2, <2>1, <2>2 DEF RunOpeningSpeeches
<1>3. CASE ForceSkipOpening(c)
  BY <1>3, ReturnKeepsRoundInv DEF ForceSkipOpening, disk
<1>4. CASE Speak(c)
  <2> DEFINE t == call[c].todo \ {Speaker(c)}
             r == [call[c] EXCEPT !.todo = t]
  <2>1. /\ call' = [call EXCEPT ![c] = r] /\ spoken' = spoken \union {Speech(c)}
        /\ lock' = lock /\ call[c].pc = "speak" /\ call[c].todo # {}
    BY <1>4 DEF Speak, Heard
  <2>2. /\ r.pc = call[c].pc /\ r.next = call[c].next /\ r.round = call[c].round
        /\ r.todo = t
    BY <1>0 DEF CallType
  <2>3. Speaker(c) \in call[c].todo
    BY <1>0, <2>1 DEF Speaker, CallType, Sides
  <2>4. Speaker(c) = "prosecutor" \/ "prosecutor" \notin call[c].todo
    BY DEF Speaker
  <2>5. call'[c] = r /\ \A d \in Calls \ {c} : call'[d] = call[d]
    BY <2>1 DEF TypeInv, TypeOK
  <2>6. \A d \in Calls : Speaking(call'[d]) <=> Speaking(call[d])
    BY <2>2, <2>5 DEF Speaking
  <2>7. RoundHoldsLock'
    BY <2>1, <2>2, <2>5 DEF RoundInv, RoundHoldsLock, InRound
  <2>8. CASE Speaking(call[c])
    <3>1. Speech(c) = <<"cross_exam", call[c].round, Speaker(c)>>
      BY <1>0, <2>8 DEF Speech, Speaking, PlaceOK, InRound
    <3>2. \A d \in Calls : Speaking(call[d]) => d = c
      BY <2>8 DEF RoundInv, RoundHoldsLock, InRound, Speaking
    <3>3. call'[c].todo = call[c].todo \ {Speaker(c)} /\ call'[c].round = call[c].round
      BY <2>2, <2>5
    <3>4. NoSpeechTwice'
      <4> HIDE DEF r
      <4>1. \A s \in call'[c].todo : <<"cross_exam", call'[c].round, s>> \notin spoken'
        BY <2>1, <2>8, <3>1, <3>3 DEF RoundInv, NoSpeechTwice, Speaking
      <4> QED BY <2>6, <3>2, <4>1 DEF NoSpeechTwice, Speaking
    <3>5. ProsecutorHeard'
      <4> HIDE DEF r
      <4>1. "prosecutor" \notin call'[c].todo =>
              <<"cross_exam", call'[c].round, "prosecutor">> \in spoken'
        BY <2>1, <2>4, <2>8, <3>1, <3>3 DEF RoundInv, ProsecutorHeard
      <4> QED BY <2>6, <3>2, <4>1 DEF ProsecutorHeard
    <3>6. DefenderAnswers'
      BY <2>1, <2>4, <2>8, <3>1 DEF RoundInv, ProsecutorHeard, DefenderAnswers
    <3> QED BY <2>7, <3>4, <3>5, <3>6 DEF RoundInv
  <2>9. CASE ~Speaking(call[c])
    <3>1. \A n, s : Speech(c) # <<"cross_exam", n, s>>
      BY <1>0, <2>1, <2>9 DEF Speech, Speaking, PlaceOK
    <3>2. \A d \in Calls : Speaking(call'[d]) => call'[d] = call[d]
      BY <2>5, <2>6, <2>9
    <3>3. NoSpeechTwice'
      <4> HIDE DEF r
      <4> QED BY <2>1, <2>6, <3>1, <3>2 DEF RoundInv, NoSpeechTwice, Speaking
    <3>4. ProsecutorHeard'
      <4> HIDE DEF r
      <4> QED BY <2>1, <2>6, <3>1, <3>2 DEF RoundInv, ProsecutorHeard
    <3>5. DefenderAnswers'
      BY <2>1, <3>1 DEF RoundInv, DefenderAnswers
    <3> QED BY <2>7, <3>3, <3>4, <3>5 DEF RoundInv
  <2> QED BY <2>8, <2>9
<1>5. CASE SpeakFails(c)
  <2>1. CASE call[c].next # "deliberate"
    BY <1>5, <2>1, ReturnKeepsRoundInv DEF SpeakFails, disk
  <2>2. CASE call[c].next = "deliberate"
    <3> DEFINE t == call[c].todo \ {Speaker(c)}
               r == [call[c] EXCEPT !.todo = t]
    <3>1. ~InRound(r)
      BY <1>0, <1>5, <2>2 DEF InRound, CallType, SpeakFails
    <3>2. call' = [call EXCEPT ![c] = r]
      BY <1>5, <2>2 DEF SpeakFails, Heard
    <3> HIDE DEF r
    <3> QED BY <1>5, <2>2, <3>1, <3>2, OutOfRound DEF SpeakFails, disk
  <2> QED BY <2>1, <2>2
<1>6. CASE SpeechesDone(c)
  <2>1. CASE call[c].next = "return"
    BY <1>6, <2>1, ReturnKeepsRoundInv DEF SpeechesDone, disk
  <2>2. CASE call[c].next = "judge"
    <3>1. /\ call' = [call EXCEPT ![c] = [call[c] EXCEPT !.pc = "judge"]]
          /\ lock' = lock /\ spoken' = spoken /\ call[c].pc = "speak"
      BY <1>6, <2>2 DEF SpeechesDone, Goto, disk
    <3>2. call'[c].pc = "judge" /\ \A d \in Calls \ {c} : Same(d)
      BY <1>0, <3>1 DEF TypeInv, TypeOK, Same, CallType
    <3>3. lock = c
      BY <2>2, <3>1 DEF RoundInv, RoundHoldsLock, InRound
    <3>4. Fits(c)
      BY <3>1, <3>2, <3>3 DEF Fits, Speaking
    <3> QED BY <3>1, <3>2, <3>4, QuietStep
  <2>3. CASE call[c].next = "deliberate"
    BY <1>6, <2>3, GotoKeepsRoundInv DEF SpeechesDone, disk
  <2>4. call[c].next \in {"return", "judge", "deliberate"}
    BY <1>0, <1>6 DEF SpeechesDone, PlaceOK, CallType
  <2> QED BY <2>1, <2>2, <2>3, <2>4
<1>7. CASE ContinueCrossExam(c)
  <2>1. CASE Goto(c, "finish") /\ UNCHANGED lock
    BY <1>7, <2>1, GotoKeepsRoundInv DEF ContinueCrossExam, disk
  <2>2. CASE /\ call' = [call EXCEPT ![c] = [@ EXCEPT !.pc = "await_round",
                       !.phase = "cross_exam", !.round = call[c].round + 1]]
             /\ UNCHANGED lock
    <3> DEFINE r == [call[c] EXCEPT !.pc = "await_round", !.phase = "cross_exam",
                                    !.round = call[c].round + 1]
    <3>1. ~InRound(r)
      BY <1>0 DEF InRound, CallType
    <3>2. call' = [call EXCEPT ![c] = r]
      BY <2>2
    <3> HIDE DEF r
    <3> QED BY <1>7, <2>2, <3>1, <3>2, OutOfRound DEF ContinueCrossExam, disk
  <2>3. CASE Return(c)
    BY <1>7, <2>3, ReturnKeepsRoundInv DEF ContinueCrossExam, disk
  <2> QED BY <1>7, <2>1, <2>2, <2>3 DEF ContinueCrossExam
<1>8. CASE StartCrossExam(c)
  <2> DEFINE r == [call[c] EXCEPT !.pc = "await_round", !.phase = "cross_exam", !.round = 1]
  <2>1. ~InRound(r)
    BY <1>0 DEF InRound, CallType
  <2>2. call' = [call EXCEPT ![c] = r]
    BY <1>8 DEF StartCrossExam
  <2> HIDE DEF r
  <2> QED BY <1>8, <2>1, <2>2, OutOfRound DEF StartCrossExam, disk
<1>9. CASE RunCrossExamRound(c)
  <2>1. CASE Return(c)
    BY <1>9, <2>1, ReturnKeepsRoundInv DEF RunCrossExamRound, disk
  <2> DEFINE t == {s \in Sides : <<"cross_exam", call[c].round, s>> \notin spoken}
             n == [call[c] EXCEPT !.pc = "speak", !.next = "judge", !.todo = t]
  <2>2. CASE Enter(c, n) /\ lock' = c
    <3> DEFINE r == [n EXCEPT !.slots = call[c].slots + 1, !.cancelled = FALSE]
    <3>1. call' = [call EXCEPT ![c] = r] /\ lock = NoCall /\ spoken' = spoken
      BY <1>9, <2>2 DEF RunCrossExamRound, Enter, disk
    <3>2. r.todo = t /\ r.round = call[c].round
      BY <1>0 DEF CallType
    <3>3. call'[c] = r /\ \A d \in Calls \ {c} : Same(d)
      <4> HIDE DEF r
      <4> QED BY <3>1, CallsAssumption DEF TypeInv, TypeOK, Same
    <3>4. Fits(c)
      <4> HIDE DEF r
      <4> QED BY <2>2, <3>2, <3>3 DEF Fits, Sides
    <3> QED BY <3>1, <3>3, <3>4, QuietStep
  <2> QED BY <1>9, <2>1, <2>2 DEF RunCrossExamRound
<1>10. CASE JudgeAssess(c)
  <2>1. /\ call' = [call EXCEPT ![c] = [call[c] EXCEPT !.pc = "decide"]]
        /\ lock' = lock /\ spoken' = spoken /\ call[c].pc = "judge"
    BY <1>10 DEF JudgeAssess, Goto, disk
  <2>2. call'[c].pc = "decide" /\ \A d \in Calls \ {c} : Same(d)
    BY <1>0, <2>1 DEF TypeInv, TypeOK, Same, CallType
  <2>3. lock = c
    BY <2>1 DEF RoundInv, RoundHoldsLock, InRound
  <2>4. Fits(c)
    BY <2>1, <2>2, <2>3 DEF Fits, Speaking
  <2> QED BY <2>1, <2>2, <2>4, QuietStep
<1>11. CASE DecideRound(c)
  BY <1>11, GotoKeepsRoundInv, ReturnKeepsRoundInv DEF DecideRound, disk
<1>12. CASE CancelCall(c)
  <2>1. call'[c].pc = "await_verdict" /\ \A d \in Calls \ {c} : Same(d)
    BY <1>12 DEF CancelCall, TypeInv, TypeOK, CallType, Same
  <2>2. Fits(c)
    BY <2>1 DEF Fits, InRound, Speaking
  <2> QED BY <1>12, <2>1, <2>2, QuietStep DEF CancelCall, disk
<1>13. CASE LockForVerdict(c)
  BY <1>13, GotoKeepsRoundInv DEF LockForVerdict, disk
<1>14. CASE FinishTrial(c)
  <2>1. CASE Goto(c, "refused") /\ UNCHANGED lock
    BY <1>14, <2>1, GotoKeepsRoundInv DEF FinishTrial, disk
  <2>2. CASE Enter(c, [call[c] EXCEPT !.pc = "closing"]) /\ UNCHANGED lock
    <3> DEFINE r == [[call[c] EXCEPT !.pc = "closing"]
                       EXCEPT !.slots = call[c].slots + 1, !.cancelled = FALSE]
    <3>1. ~InRound(r)
      BY <1>0 DEF InRound, CallType
    <3>2. call' = [call EXCEPT ![c] = r]
      BY <2>2 DEF Enter
    <3> HIDE DEF r
    <3> QED BY <1>14, <2>2, <3>1, <3>2, OutOfRound DEF FinishTrial, disk
  <2>3. CASE /\ call' = [call EXCEPT ![c] = Idle]
             /\ lock' = IF lock = c THEN NoCall ELSE lock
    <3>1. ~InRound(Idle)
      BY DEF InRound, Idle
    <3> QED BY <1>14, <2>3, <3>1, OutOfRound DEF FinishTrial, disk
  <2> QED BY <1>14, <2>1, <2>2, <2>3 DEF FinishTrial
<1>15. CASE CloseTrial(c)
  <2> DEFINE r == [call[c] EXCEPT !.pc = "speak", !.phase = "closing",
                                  !.next = "deliberate", !.todo = Sides]
  <2>1. ~InRound(r)
    BY <1>0 DEF InRound, CallType
  <2>2. call' = [call EXCEPT ![c] = r]
    BY <1>15 DEF CloseTrial
  <2> HIDE DEF r
  <2> QED BY <1>15, <2>1, <2>2, OutOfRound DEF CloseTrial, disk
<1>16. CASE Deliberate(c)
  <2> DEFINE r == [call[c] EXCEPT !.pc = "upsert", !.phase = "deliberation", !.seen = evidence]
  <2>1. ~InRound(r)
    BY <1>0 DEF InRound, CallType
  <2>2. call' = [call EXCEPT ![c] = r]
    BY <1>16 DEF Deliberate
  <2> HIDE DEF r
  <2> QED BY <1>16, <2>1, <2>2, OutOfRound DEF Deliberate, disk
<1>17. CASE UpsertVerdict(c)
  BY <1>17, GotoKeepsRoundInv DEF UpsertVerdict, disk
<1>18. CASE PublishVerdict(c)
  BY <1>18, GotoKeepsRoundInv DEF PublishVerdict, disk
<1>19. CASE CompleteTrial(c)
  BY <1>19, ReturnKeepsRoundInv DEF CompleteTrial, disk
<1>20. CASE LockForReopen(c)
  <2>1. CASE phase \in {"verdict", "appeal"}
    <3> DEFINE w == IF status # "active" THEN "activate" ELSE "return"
               r == [call[c] EXCEPT !.pc = "reopen", !.phase = phase,
                                    !.round = round, !.next = w]
    <3>1. ~InRound(r)
      <4> HIDE DEF w
      <4> QED BY <1>0 DEF InRound, CallType
    <3>2. call' = [call EXCEPT ![c] = r]
      BY <1>20, <2>1 DEF LockForReopen
    <3> HIDE DEF r
    <3> QED BY <1>20, <2>1, <3>1, <3>2, OutOfRound DEF LockForReopen, disk
  <2>2. CASE phase \notin {"verdict", "appeal"}
    BY <1>20, <2>2, ReturnKeepsRoundInv DEF LockForReopen, disk
  <2> QED BY <2>1, <2>2
<1>21. CASE ReopenTrial(c)
  BY <1>21, GotoKeepsRoundInv, ReturnKeepsRoundInv DEF ReopenTrial, disk
<1>22. CASE ActivateTrial(c)
  BY <1>22, ReturnKeepsRoundInv DEF ActivateTrial, disk
<1>23. CASE LockForEvidence(c)
  BY <1>23, GotoKeepsRoundInv, ReturnKeepsRoundInv DEF LockForEvidence, disk
<1>24. CASE SubmitEvidence(c)
  BY <1>24, ReturnKeepsRoundInv DEF SubmitEvidence, disk
<1>25. CASE LockForDispatch(c)
  BY <1>25, GotoKeepsRoundInv DEF LockForDispatch, disk
<1>26. CASE DispatchInvestigator(c)
  BY <1>26, ReturnKeepsRoundInv DEF DispatchInvestigator, disk
<1>27. CASE Interrupt(c)
  <2> DEFINE p == ResumeStep(call[c].phase)
             a == IF p = "idle" THEN Idle ELSE [call[c] EXCEPT !.pc = p]
  <2>1. p \in {"idle", "resume", "await_round"}
    BY DEF ResumeStep
  <2>2. ~InRound(a)
    <3> HIDE DEF p
    <3> QED BY <1>0, <2>1 DEF InRound, Idle, CallType
  <2>3. call'[c] = a /\ \A d \in Calls \ {c} : Same(d)
    <3> HIDE DEF p
    <3> QED BY <1>27 DEF Interrupt, TypeInv, TypeOK, CallType, Same, p
  <2>4. Fits(c)
    <3> HIDE DEF a
    <3> QED BY <2>2, <2>3 DEF Fits, InRound, Speaking
  <2> QED BY <1>27, <2>3, <2>4, QuietStep DEF Interrupt, disk
<1>28. CASE Resume(c)
  <2> DEFINE silent == Silent(call[c].phase)
             t == IF "prosecutor" \in silent THEN {"prosecutor"} ELSE silent
             r == [call[c] EXCEPT !.pc = "speak", !.next = "return", !.todo = t]
  <2>1. ~InRound(r)
    <3> HIDE DEF t
    <3> QED BY <1>0 DEF InRound, CallType
  <2>2. call' = [call EXCEPT ![c] = r]
    BY <1>28 DEF Resume
  <2> HIDE DEF r
  <2> QED BY <1>28, <2>1, <2>2, OutOfRound DEF Resume, disk
<1>29. CASE ReportRefusal(c)
  BY <1>29, ReturnKeepsRoundInv DEF ReportRefusal, disk
<1> QED BY <1>1, <1>2, <1>3, <1>4, <1>5, <1>6, <1>7, <1>8, <1>9, <1>10, <1>11, <1>12,
           <1>13, <1>14, <1>15, <1>16, <1>17, <1>18, <1>19, <1>20, <1>21, <1>22, <1>23,
           <1>24, <1>25, <1>26, <1>27, <1>28, <1>29 DEF Step

LEMMA NextRoundInv == TypeInv /\ RoundInv /\ [Next]_vars => RoundInv'
<1> SUFFICES ASSUME TypeInv, RoundInv, [Next]_vars PROVE RoundInv'
  OBVIOUS
<1>1. ASSUME NEW c \in Calls, NEW p, Begin(c, p), lock' = lock, spoken' = spoken,
             p \notin {"speak", "judge", "decide"}
      PROVE  RoundInv'
  <2> DEFINE r == [Idle EXCEPT !.pc = p, !.phase = phase, !.round = round]
  <2>1. ~InRound(r)
    BY <1>1 DEF InRound, Idle
  <2>2. call' = [call EXCEPT ![c] = r]
    BY <1>1 DEF Begin
  <2> HIDE DEF r
  <2> QED BY <1>1, <2>1, <2>2, OutOfRound
<1>2. ASSUME NEW c \in Calls, NEW action \in DOMAIN FirstStep, Request(c, action)
      PROVE  RoundInv'
  <2>1. FirstStep[action] \notin {"speak", "judge", "decide"}
    BY DEF FirstStep
  <2> QED BY <1>1, <1>2, <2>1 DEF Request, disk
<1>3. ASSUME NEW c \in Calls, RequestEvidence(c) PROVE RoundInv'
  BY <1>3, GotoKeepsRoundInv DEF RequestEvidence, disk
<1>4. ASSUME NEW c \in Calls, Recover(c) PROVE RoundInv'
  <2>1. CASE Begin(c, ResumeStep(phase))
    <3>1. ResumeStep(phase) \notin {"speak", "judge", "decide"}
      BY DEF ResumeStep
    <3> QED BY <1>1, <1>4, <2>1, <3>1 DEF Recover, disk
  <2>2. CASE UNCHANGED call
    <3>1. UNCHANGED <<call, lock, spoken>>
      BY <1>4, <2>2 DEF Recover, disk
    <3> QED BY <3>1 DEF RoundInv, RoundHoldsLock, NoSpeechTwice, ProsecutorHeard,
                        DefenderAnswers, At
  <2> QED BY <1>4, <2>1, <2>2 DEF Recover
<1>5. ASSUME NEW c \in Calls, Abort(c) PROVE RoundInv'
  BY <1>5, ReturnKeepsRoundInv DEF Abort, disk
<1>6. CASE Crash
  <2>1. \A c \in Calls : call'[c].pc = "idle"
    BY <1>6 DEF Crash, Idle
  <2>2. spoken' = spoken
    BY <1>6 DEF Crash, disk
  <2> QED BY <2>1, <2>2 DEF RoundInv, RoundHoldsLock, NoSpeechTwice, ProsecutorHeard,
                            DefenderAnswers, InRound, Speaking, At
<1>7. CASE UNCHANGED vars
  BY <1>7 DEF vars, row, disk, memory, env, RoundInv, RoundHoldsLock, NoSpeechTwice,
              ProsecutorHeard, DefenderAnswers, At
<1> QED BY <1>2, <1>3, <1>4, <1>5, <1>6, <1>7, StepRoundInv DEF Next

LEMMA InitRoundInv == Init => RoundInv
<1> SUFFICES ASSUME Init PROVE RoundInv
  OBVIOUS
<1>1. \A c \in Calls : call[c].pc = "idle"
  BY DEF Init, Idle
<1> QED BY <1>1 DEF Init, RoundInv, RoundHoldsLock, NoSpeechTwice, ProsecutorHeard,
                    DefenderAnswers, InRound, Speaking, At

(* However many calls overlap, and wherever crashes and faults strike, no     *)
(* side is made to speak twice in a round of cross-examination.               *)
THEOREM RoundsDoNotOverlap == Spec => []NoSpeechTwice
<1>1. RoundInv => NoSpeechTwice
  BY DEF RoundInv
<1> QED BY <1>1, InitTypeInv, NextTypeInv, InitRoundInv, NextRoundInv, PTL DEF Spec

(* ... and the defender speaks in a round only after the prosecutor.          *)
THEOREM DefenderSpeaksSecond == Spec => []DefenderAnswers
<1>1. RoundInv => DefenderAnswers
  BY DEF RoundInv
<1> QED BY <1>1, InitTypeInv, NextTypeInv, InitRoundInv, NextRoundInv, PTL DEF Spec

--------------------------------------------------------------------------------
(* What calls hold: the session lock, the slots of the semaphore and the      *)
(* registered cancel function.  The three go together because the deferred    *)
(* calls of a handler give them back together.                                *)

\* The places a call is at before it takes the lock, or without ever taking it.
Unlocked == {"idle", "to_opening", "opening", "cancel", "await_verdict",
             "await_continue", "await_start", "await_round", "await_evidence",
             "await_dispatch", "await_reopen", "force_skip", "interrupt", "resume"}

HolderHasLocked == \A c \in Calls : lock = c => call[c].pc \notin Unlocked

HoldInv == HolderHasLocked /\ RegisteredCallRuns /\ SlotsAccounted

InScope == {c \in Calls : call[c].slots >= 1}
InTwoScopes == {c \in Calls : call[c].slots = 2}

(* A step that changes the slots of one call changes the sum by as much.      *)
LEMMA SlotsCounted ==
  ASSUME TypeInv, SlotsAccounted, NEW c \in Calls, call'[c].slots \in 0..2,
         \A d \in Calls \ {c} : call'[d].slots = call[d].slots,
         sem' = sem + (call'[c].slots - call[c].slots)
  PROVE  SlotsAccounted'
<1> DEFINE A == InScope \ {c}
           B == InTwoScopes \ {c}
<1>1. call[c].slots \in 0..2 /\ sem \in Int
  BY DEF TypeInv, TypeOK, CallType
<1>2. IsFiniteSet(A) /\ IsFiniteSet(B) /\ c \notin A /\ c \notin B
  <2>1. A \in SUBSET Calls /\ B \in SUBSET Calls
    BY DEF InScope, InTwoScopes
  <2> QED BY <2>1, CallsAssumption, FS_Subset
<1>3. Cardinality(A) \in Nat /\ Cardinality(B) \in Nat
  BY <1>2, FS_CardinalityType
<1>4. /\ Cardinality(A \union {c}) = Cardinality(A) + 1
      /\ Cardinality(B \union {c}) = Cardinality(B) + 1
  BY <1>2, FS_AddElement
<1>5. /\ InScope = IF call[c].slots >= 1 THEN A \union {c} ELSE A
      /\ InTwoScopes = IF call[c].slots = 2 THEN B \union {c} ELSE B
  BY DEF InScope, InTwoScopes
<1>6. /\ InScope' = IF call'[c].slots >= 1 THEN A \union {c} ELSE A
      /\ InTwoScopes' = IF call'[c].slots = 2 THEN B \union {c} ELSE B
  BY DEF InScope, InTwoScopes
<1>7. sem = Cardinality(InScope) + Cardinality(InTwoScopes)
  BY DEF SlotsAccounted, InScope, InTwoScopes
<1>8. sem' = Cardinality(InScope') + Cardinality(InTwoScopes')
  <2> HIDE DEF A, B
  <2>1. Cardinality(InScope) = Cardinality(A) + IF call[c].slots >= 1 THEN 1 ELSE 0
    BY <1>3, <1>4, <1>5
  <2>2. Cardinality(InTwoScopes) = Cardinality(B) + IF call[c].slots = 2 THEN 1 ELSE 0
    BY <1>3, <1>4, <1>5
  <2>3. Cardinality(InScope') = Cardinality(A) + IF call'[c].slots >= 1 THEN 1 ELSE 0
    BY <1>3, <1>4, <1>6
  <2>4. Cardinality(InTwoScopes') = Cardinality(B) + IF call'[c].slots = 2 THEN 1 ELSE 0
    BY <1>3, <1>4, <1>6
  <2> QED BY <1>1, <1>3, <1>7, <2>1, <2>2, <2>3, <2>4
<1> QED BY <1>8 DEF SlotsAccounted, InScope, InTwoScopes

(* A call that goes on within its scopes keeps what it holds; it may take the *)
(* lock, or clear the registered cancel function.                             *)
LEMMA MovedHolds ==
  ASSUME TypeInv, HoldInv, NEW c \in Calls, NEW r, call' = [call EXCEPT ![c] = r],
         r.slots = call[c].slots, sem' = sem, active' \in {active, NoCall},
         lock' = lock \/ (lock = NoCall /\ lock' = c),
         r.pc \in Unlocked => lock' # c
  PROVE  HoldInv'
<1>1. call'[c] = r /\ \A d \in Calls \ {c} : call'[d] = call[d]
  BY DEF TypeInv, TypeOK
<1>2. call[c].slots \in 0..2 /\ sem \in Int
  BY DEF TypeInv, TypeOK, CallType
<1>3. SlotsAccounted'
  BY <1>1, <1>2, SlotsCounted DEF HoldInv
<1>4. RegisteredCallRuns'
  BY <1>1 DEF HoldInv, RegisteredCallRuns, TypeInv, TypeOK
<1>5. HolderHasLocked'
  BY <1>1, CallsAssumption DEF HoldInv, HolderHasLocked
<1> QED BY <1>3, <1>4, <1>5 DEF HoldInv

(* A handler that returns gives back all it holds.                            *)
LEMMA GivenBack ==
  ASSUME TypeInv, HoldInv, NEW c \in Calls, call' = [call EXCEPT ![c] = Idle],
         sem' = sem - call[c].slots, lock' = IF lock = c THEN NoCall ELSE lock,
         active' = NoCall \/ (active' = active /\ call[c].slots = 0)
  PROVE  HoldInv'
<1>1. call'[c] = Idle /\ \A d \in Calls \ {c} : call'[d] = call[d]
  BY DEF TypeInv, TypeOK
<1>2. Idle.slots = 0
  BY DEF Idle
<1>3. call[c].slots \in 0..2 /\ sem \in Int
  BY DEF TypeInv, TypeOK, CallType
<1>4. SlotsAccounted'
  BY <1>1, <1>2, <1>3, SlotsCounted DEF HoldInv
<1>5. RegisteredCallRuns'
  BY <1>1 DEF HoldInv, RegisteredCallRuns, TypeInv, TypeOK
<1>6. HolderHasLocked'
  BY <1>1, CallsAssumption DEF HoldInv, HolderHasLocked
<1> QED BY <1>4, <1>5, <1>6 DEF HoldInv

LEMMA ReturnedHolds ==
  ASSUME TypeInv, HoldInv, NEW c \in Calls, Return(c) PROVE HoldInv'
<1>1. call[c].slots \in 0..2
  BY DEF TypeInv, TypeOK, CallType
<1>2. active' = NoCall \/ (active' = active /\ call[c].slots = 0)
  BY <1>1 DEF Return
<1> QED BY <1>2, GivenBack DEF Return

(* Entering a withCancel scope takes one slot and registers this call.        *)
LEMMA EnteredHolds ==
  ASSUME TypeInv, HoldInv, NEW c \in Calls, NEW next \in CallType, Enter(c, next),
         call[c].slots <= 1, lock' = lock \/ (lock = NoCall /\ lock' = c),
         next.pc \notin Unlocked
  PROVE  HoldInv'
<1> DEFINE n == call[c].slots + 1
           r == [next EXCEPT !.slots = n, !.cancelled = FALSE]
<1>1. call[c].slots \in 0..1 /\ sem \in Int
  BY DEF TypeInv, TypeOK, CallType
<1>2. r.slots = n /\ r.pc = next.pc
  BY DEF CallType
<1>3. call' = [call EXCEPT ![c] = r]
  BY DEF Enter
<1>4. call'[c] = r /\ \A d \in Calls \ {c} : call'[d] = call[d]
  <2> HIDE DEF r
  <2> QED BY <1>3 DEF TypeInv, TypeOK
<1>5. SlotsAccounted'
  <2>1. call'[c].slots = n
    BY <1>2, <1>4
  <2> HIDE DEF r
  <2> QED BY <1>1, <1>4, <2>1, SlotsCounted DEF HoldInv, Enter
<1>6. RegisteredCallRuns'
  <2> HIDE DEF r
  <2> QED BY <1>1, <1>2, <1>4 DEF Enter, RegisteredCallRuns
<1>7. HolderHasLocked'
  <2> HIDE DEF r
  <2> QED BY <1>2, <1>4, CallsAssumption DEF HoldInv, HolderHasLocked
<1> QED BY <1>5, <1>6, <1>7 DEF HoldInv

(* Going to another place within the scopes the call is in.                   *)
LEMMA GoneHolds ==
  ASSUME TypeInv, HoldInv, NEW c \in Calls, NEW p, Goto(c, p), sem' = sem,
         active' \in {active, NoCall}, lock' = lock \/ (lock = NoCall /\ lock' = c),
         p \in Unlocked => lock' # c
  PROVE  HoldInv'
<1> DEFINE r == [call[c] EXCEPT !.pc = p]
<1>1. r.slots = call[c].slots /\ r.pc = p
  BY DEF TypeInv, TypeOK, CallType
<1>2. call' = [call EXCEPT ![c] = r]
  BY DEF Goto
<1> HIDE DEF r
<1> QED BY <1>1, <1>2, MovedHolds

LEMMA HeardHolds ==
  ASSUME TypeInv, HoldInv, NEW c \in Calls, Heard(c), UNCHANGED <<lock, active, sem>>
  PROVE  HoldInv'
<1> DEFINE t == call[c].todo \ {Speaker(c)}
           r == [call[c] EXCEPT !.todo = t]
<1>1. r.slots = call[c].slots /\ r.pc = call[c].pc
  BY DEF TypeInv, TypeOK, CallType
<1>2. call' = [call EXCEPT ![c] = r]
  BY DEF Heard
<1> HIDE DEF r
<1> QED BY <1>1, <1>2, MovedHolds DEF HoldInv, HolderHasLocked

(* Cancelling another call's context takes nothing from it.                   *)
LEMMA CancelHolds ==
  ASSUME TypeInv, HoldInv, NEW c \in Calls, NEW a,
         call' = [d \in Calls |-> IF d = c THEN a
                                  ELSE IF d = active THEN [call[d] EXCEPT !.cancelled = TRUE]
                                  ELSE call[d]],
         a.slots = call[c].slots, call[c].pc \in Unlocked,
         lock' = lock, sem' = sem, active' \in {active, NoCall}
  PROVE  HoldInv'
<1>1. \A d \in Calls : /\ call[d] \in CallType
                       /\ call'[d].slots = call[d].slots
                       /\ d # c => call'[d].pc = call[d].pc
  BY DEF TypeInv, TypeOK, CallType
<1>2. call'[c].slots \in 0..2 /\ sem \in Int
  BY <1>1 DEF TypeInv, TypeOK, CallType
<1>3. SlotsAccounted'
  BY <1>1, <1>2, SlotsCounted DEF HoldInv
<1>4. RegisteredCallRuns'
  BY <1>1 DEF HoldInv, RegisteredCallRuns, TypeInv, TypeOK
<1>5. HolderHasLocked'
  BY <1>1 DEF HoldInv, HolderHasLocked
<1> QED BY <1>3, <1>4, <1>5 DEF HoldInv

LEMMA StepHoldInv ==
  ASSUME TypeInv, HoldInv, NEW c \in Calls, Step(c) PROVE HoldInv'
<1>0. call[c] \in CallType /\ PlaceOK(call[c]) /\ (call[c].pc \in Unlocked => lock # c)
  BY DEF TypeInv, TypeOK, PlacesOK, HoldInv, HolderHasLocked
<1> USE DEF At
<1>1. CASE TransitionToOpening(c)
  BY <1>0, <1>1, GoneHolds DEF TransitionToOpening, Unlocked
<1>2. CASE RunOpeningSpeeches(c)
  <2>1. CASE Return(c)
    BY <2>1, ReturnedHolds
  <2> DEFINE n == [Idle EXCEPT !.pc = "speak", !.phase = "opening", !.todo = Sides]
  <2>2. CASE Enter(c, n) /\ UNCHANGED lock
    <3>1. n \in CallType /\ n.pc = "speak"
      BY IdleOK DEF CallType, PCs, Phases
    <3>2. call[c].slots = 0
      BY <1>0, <1>2 DEF RunOpeningSpeeches, PlaceOK, NoScope
    <3> HIDE DEF n
    <3> QED BY <2>2, <3>1, <3>2, EnteredHolds DEF Unlocked
  <2> QED BY <1>2, <2>1, <2>2 DEF RunOpeningSpeeches
<1>3. CASE ForceSkipOpening(c)
  BY <1>3, ReturnedHolds DEF ForceSkipOpening
<1>4. CASE Speak(c)
  BY <1>4, HeardHolds DEF Speak
<1>5. CASE SpeakFails(c)
  BY <1>5, HeardHolds, ReturnedHolds DEF SpeakFails
<1>6. CASE SpeechesDone(c)
  <2>1. call[c].next \notin Unlocked
    BY <1>0 DEF CallType, Unlocked
  <2> QED BY <1>6, <2>1, GoneHolds, ReturnedHolds DEF SpeechesDone
<1>7. CASE ContinueCrossExam(c)
  <2>1. CASE Goto(c, "finish") /\ UNCHANGED <<lock, active, sem>>
    BY <2>1, GoneHolds DEF Unlocked
  <2>2. CASE /\ call' = [call EXCEPT ![c] = [@ EXCEPT !.pc = "await_round",
                       !.phase = "cross_exam", !.round = call[c].round + 1]]
             /\ UNCHANGED <<lock, active, sem>>
    <3> DEFINE r == [call[c] EXCEPT !.pc = "await_round", !.phase = "cross_exam",
                                    !.round = call[c].round + 1]
    <3>1. r.slots = call[c].slots
      BY <1>0 DEF CallType
    <3>2. call' = [call EXCEPT ![c] = r]
      BY <2>2
    <3>3. lock # c
      BY <1>7, CallsAssumption DEF ContinueCrossExam
    <3> HIDE DEF r
    <3> QED BY <2>2, <3>1, <3>2, <3>3, MovedHolds
  <2>3. CASE Return(c)
    BY <2>3, ReturnedHolds
  <2> QED BY <1>7, <2>1, <2>2, <2>3 DEF ContinueCrossExam
<1>8. CASE StartCrossExam(c)
  <2> DEFINE r == [call[c] EXCEPT !.pc = "await_round", !.phase = "cross_exam", !.round = 1]
  <2>1. r.slots = call[c].slots
    BY <1>0 DEF CallType
  <2>2. call' = [call EXCEPT ![c] = r]
    BY <1>8 DEF StartCrossExam
  <2>3. lock # c
    BY <1>8, CallsAssumption DEF StartCrossExam
  <2> HIDE DEF r
  <2> QED BY <1>8, <2>1, <2>2, <2>3, MovedHolds DEF StartCrossExam
<1>9. CASE RunCrossExamRound(c)
  <2>1. CASE Return(c)
    BY <2>1, ReturnedHolds
  <2> DEFINE t == {s \in Sides : <<"cross_exam", call[c].round, s>> \notin spoken}
             n == [call[c] EXCEPT !.pc = "speak", !.next = "judge", !.todo = t]
  <2>2. CASE Enter(c, n) /\ lock' = c
    <3>1. n \in CallType /\ n.pc = "speak"
      <4>1. t \in SUBSET Sides
        OBVIOUS
      <4> HIDE DEF t
      <4> QED BY <1>0, <4>1 DEF CallType, PCs
    <3>2. call[c].slots = 0 /\ lock = NoCall
      BY <1>0, <1>9 DEF RunCrossExamRound, PlaceOK, NoScope
    <3> HIDE DEF n
    <3> QED BY <2>2, <3>1, <3>2, EnteredHolds DEF Unlocked
  <2> QED BY <1>9, <2>1, <2>2 DEF RunCrossExamRound
<1>10. CASE JudgeAssess(c)
  BY <1>10, GoneHolds DEF JudgeAssess, Unlocked
<1>11. CASE DecideRound(c)
  BY <1>11, GoneHolds, ReturnedHolds DEF DecideRound, Unlocked
<1>12. CASE CancelCall(c)
  <2> DEFINE a == [call[c] EXCEPT !.pc = "await_verdict"]
  <2>1. a.slots = call[c].slots
    BY <1>0 DEF CallType
  <2>2. call' = [d \in Calls |-> IF d = c THEN a
                   ELSE IF d = active THEN [call[d] EXCEPT !.cancelled = TRUE]
                   ELSE call[d]]
    BY <1>12 DEF CancelCall
  <2>3. call[c].pc \in Unlocked
    BY <1>12 DEF CancelCall, Unlocked
  <2> HIDE DEF a
  <2> QED BY <1>12, <2>1, <2>2, <2>3, CancelHolds DEF CancelCall
<1>13. CASE LockForVerdict(c)
  BY <1>13, GoneHolds DEF LockForVerdict, Unlocked
<1>14. CASE FinishTrial(c)
  <2>1. CASE Goto(c, "refused") /\ UNCHANGED <<lock, active, sem>>
    BY <2>1, GoneHolds DEF Unlocked
  <2> DEFINE n == [call[c] EXCEPT !.pc = "closing"]
  <2>2. CASE Enter(c, n) /\ UNCHANGED lock
    <3>1. n \in CallType /\ n.pc = "closing"
      BY <1>0 DEF CallType, PCs
    <3>2. call[c].slots <= 1
      BY <1>0, <1>14 DEF FinishTrial, PlaceOK
    <3> HIDE DEF n
    <3> QED BY <2>2, <3>1, <3>2, EnteredHolds DEF Unlocked
  <2>3. CASE /\ call' = [call EXCEPT ![c] = Idle]
             /\ sem' = sem - call[c].slots
             /\ lock' = IF lock = c THEN NoCall ELSE lock
             /\ active' = NoCall
    BY <2>3, GivenBack
  <2> QED BY <1>14, <2>1, <2>2, <2>3 DEF FinishTrial
<1>15. CASE CloseTrial(c)
  <2> DEFINE r == [call[c] EXCEPT !.pc = "speak", !.phase = "closing",
                                  !.next = "deliberate", !.todo = Sides]
  <2>1. r.slots = call[c].slots /\ r.pc = "speak"
    BY <1>0 DEF CallType
  <2>2. call' = [call EXCEPT ![c] = r]
    BY <1>15 DEF CloseTrial
  <2> HIDE DEF r
  <2> QED BY <1>15, <2>1, <2>2, MovedHolds DEF CloseTrial, Unlocked
<1>16. CASE Deliberate(c)
  <2> DEFINE r == [call[c] EXCEPT !.pc = "upsert", !.phase = "deliberation", !.seen = evidence]
  <2>1. r.slots = call[c].slots /\ r.pc = "upsert"
    BY <1>0 DEF CallType
  <2>2. call' = [call EXCEPT ![c] = r]
    BY <1>16 DEF Deliberate
  <2> HIDE DEF r
  <2> QED BY <1>16, <2>1, <2>2, MovedHolds DEF Deliberate, Unlocked
<1>17. CASE UpsertVerdict(c)
  BY <1>17, GoneHolds DEF UpsertVerdict, Unlocked
<1>18. CASE PublishVerdict(c)
  BY <1>18, GoneHolds DEF PublishVerdict, Unlocked
<1>19. CASE CompleteTrial(c)
  BY <1>19, ReturnedHolds DEF CompleteTrial
<1>20. CASE LockForReopen(c)
  <2>1. CASE phase \in {"verdict", "appeal"}
    <3> DEFINE w == IF status # "active" THEN "activate" ELSE "return"
               r == [call[c] EXCEPT !.pc = "reopen", !.phase = phase,
                                    !.round = round, !.next = w]
    <3>1. r.slots = call[c].slots /\ r.pc = "reopen"
      <4> HIDE DEF w
      <4> QED BY <1>0 DEF CallType
    <3>2. call' = [call EXCEPT ![c] = r]
      BY <1>20, <2>1 DEF LockForReopen
    <3> HIDE DEF r
    <3> QED BY <1>20, <2>1, <3>1, <3>2, MovedHolds DEF LockForReopen, Unlocked
  <2>2. CASE phase \notin {"verdict", "appeal"}
    BY <1>20, <2>2, ReturnedHolds DEF LockForReopen
  <2> QED BY <2>1, <2>2
<1>21. CASE ReopenTrial(c)
  BY <1>21, GoneHolds, ReturnedHolds DEF ReopenTrial, Unlocked
<1>22. CASE ActivateTrial(c)
  BY <1>22, ReturnedHolds DEF ActivateTrial
<1>23. CASE LockForEvidence(c)
  BY <1>23, GoneHolds, ReturnedHolds DEF LockForEvidence, Unlocked
<1>24. CASE SubmitEvidence(c)
  BY <1>24, ReturnedHolds DEF SubmitEvidence
<1>25. CASE LockForDispatch(c)
  BY <1>25, GoneHolds DEF LockForDispatch, Unlocked
<1>26. CASE DispatchInvestigator(c)
  BY <1>26, ReturnedHolds DEF DispatchInvestigator
<1>27. CASE Interrupt(c)
  <2> DEFINE p == ResumeStep(call[c].phase)
             a == IF p = "idle" THEN Idle ELSE [call[c] EXCEPT !.pc = p]
  <2>1. call[c].slots = 0 /\ call[c].pc \in Unlocked
    BY <1>0, <1>27 DEF Interrupt, PlaceOK, NoScope, Unlocked
  <2>2. a.slots = call[c].slots
    <3> HIDE DEF p
    <3> QED BY <1>0, <2>1 DEF CallType, Idle
  <2>3. call' = [d \in Calls |-> IF d = c THEN a
                   ELSE IF d = active THEN [call[d] EXCEPT !.cancelled = TRUE]
                   ELSE call[d]]
    BY <1>27 DEF Interrupt
  <2> HIDE DEF a
  <2> QED BY <1>27, <2>1, <2>2, <2>3, CancelHolds DEF Interrupt
<1>28. CASE Resume(c)
  <2> DEFINE silent == Silent(call[c].phase)
             t == IF "prosecutor" \in silent THEN {"prosecutor"} ELSE silent
             r == [call[c] EXCEPT !.pc = "speak", !.next = "return", !.todo = t]
  <2>1. r.slots = call[c].slots /\ r.pc = "speak"
    <3> HIDE DEF t
    <3> QED BY <1>0 DEF CallType
  <2>2. call' = [call EXCEPT ![c] = r]
    BY <1>28 DEF Resume
  <2> HIDE DEF r
  <2> QED BY <1>28, <2>1, <2>2, MovedHolds DEF Resume, Unlocked
<1>29. CASE ReportRefusal(c)
  BY <1>29, ReturnedHolds DEF ReportRefusal
<1> QED BY <1>1, <1>2, <1>3, <1>4, <1>5, <1>6, <1>7, <1>8, <1>9, <1>10, <1>11, <1>12,
           <1>13, <1>14, <1>15, <1>16, <1>17, <1>18, <1>19, <1>20, <1>21, <1>22, <1>23,
           <1>24, <1>25, <1>26, <1>27, <1>28, <1>29 DEF Step

LEMMA NextHoldInv == TypeInv /\ HoldInv /\ [Next]_vars => HoldInv'
<1> SUFFICES ASSUME TypeInv, HoldInv, [Next]_vars PROVE HoldInv'
  OBVIOUS
<1>1. ASSUME NEW c \in Calls, NEW p, Begin(c, p), At(c, "idle"), UNCHANGED <<lock, active, sem>>
      PROVE  HoldInv'
  <2> DEFINE r == [Idle EXCEPT !.pc = p, !.phase = phase, !.round = round]
  <2>1. r.slots = 0
    BY DEF Idle
  <2>2. call[c].slots = 0 /\ lock # c
    BY <1>1
       DEF TypeInv, PlacesOK, PlaceOK, NoScope, HoldInv, HolderHasLocked, Unlocked, At
  <2>3. call' = [call EXCEPT ![c] = r]
    BY <1>1 DEF Begin
  <2> HIDE DEF r
  <2> QED BY <1>1, <2>1, <2>2, <2>3, MovedHolds
<1>2. ASSUME NEW c \in Calls, NEW action \in DOMAIN FirstStep, Request(c, action)
      PROVE  HoldInv'
  BY <1>1, <1>2 DEF Request
<1>3. ASSUME NEW c \in Calls, RequestEvidence(c) PROVE HoldInv'
  <2>1. lock # c
    BY <1>3 DEF RequestEvidence, HoldInv, HolderHasLocked, Unlocked, At
  <2> QED BY <1>3, <2>1, GoneHolds DEF RequestEvidence
<1>4. ASSUME NEW c \in Calls, Recover(c) PROVE HoldInv'
  <2>1. CASE Begin(c, ResumeStep(phase))
    BY <1>1, <1>4, <2>1 DEF Recover
  <2>2. CASE UNCHANGED call
    <3>1. UNCHANGED <<call, lock, active, sem>>
      BY <1>4, <2>2 DEF Recover
    <3> QED BY <3>1 DEF HoldInv, HolderHasLocked, RegisteredCallRuns, SlotsAccounted
  <2> QED BY <1>4, <2>1, <2>2 DEF Recover
<1>5. ASSUME NEW c \in Calls, Abort(c) PROVE HoldInv'
  BY <1>5, ReturnedHolds DEF Abort
<1>6. CASE Crash
  <2>1. call' = [c \in Calls |-> Idle] /\ lock' = NoCall /\ active' = NoCall /\ sem' = 0
    BY <1>6 DEF Crash
  <2>2. InScope' = {} /\ InTwoScopes' = {}
    BY <2>1 DEF InScope, InTwoScopes, Idle
  <2>3. sem' = Cardinality(InScope') + Cardinality(InTwoScopes')
    BY <2>1, <2>2, FS_EmptySet
  <2>4. SlotsAccounted'
    BY <2>3 DEF SlotsAccounted, InScope, InTwoScopes
  <2> QED BY <2>1, <2>4, CallsAssumption DEF HoldInv, HolderHasLocked, RegisteredCallRuns
<1>7. CASE UNCHANGED vars
  <2>1. UNCHANGED <<call, lock, active, sem>>
    BY <1>7 DEF vars, memory
  <2> QED BY <2>1 DEF HoldInv, HolderHasLocked, RegisteredCallRuns, SlotsAccounted
<1> QED BY <1>2, <1>3, <1>4, <1>5, <1>6, <1>7, StepHoldInv DEF Next

LEMMA InitHoldInv == Init => HoldInv
<1> SUFFICES ASSUME Init PROVE HoldInv
  OBVIOUS
<1>1. \A c \in Calls : call[c].slots = 0
  BY DEF Init, Idle
<1>2. InScope = {} /\ InTwoScopes = {}
  BY <1>1 DEF InScope, InTwoScopes
<1>3. SlotsAccounted
  BY <1>2, FS_EmptySet DEF Init, SlotsAccounted, InScope, InTwoScopes
<1> QED BY <1>3, CallsAssumption DEF Init, HoldInv, HolderHasLocked, RegisteredCallRuns

(* The slots of the L0 semaphore are exactly those the running calls hold,    *)
(* whatever overlaps, is refused, fails or crashes.                           *)
THEOREM SlotsAreAccounted == Spec => []SlotsAccounted
<1>1. HoldInv => SlotsAccounted
  BY DEF HoldInv
<1> QED BY <1>1, InitTypeInv, NextTypeInv, InitHoldInv, NextHoldInv, PTL DEF Spec

(* A registered cancel function is always that of a call that runs within a   *)
(* withCancel scope: every way out of a scope clears it.                      *)
THEOREM RegisteredRuns == Spec => []RegisteredCallRuns
<1>1. HoldInv => RegisteredCallRuns
  BY DEF HoldInv
<1> QED BY <1>1, InitTypeInv, NextTypeInv, InitHoldInv, NextHoldInv, PTL DEF Spec

(* No call waits for the session lock while it holds it.                      *)
THEOREM NoReentry == Spec => []LockNotReentered
<1>1. HoldInv => LockNotReentered
  BY DEF HoldInv, HolderHasLocked, LockNotReentered, Unlocked
<1> QED BY <1>1, InitTypeInv, NextTypeInv, InitHoldInv, NextHoldInv, PTL DEF Spec

--------------------------------------------------------------------------------
(* The verdict.  A call reaches the publication of a verdict, and then the    *)
(* completion of the trial, only after it has written one, and no step takes  *)
(* a verdict away: so it is there whenever the row says that it is.           *)

Publishing(r) == r.pc \in {"publish", "complete"}

PublishersWrote == \A c \in Calls : Publishing(call[c]) => verdict.written

VerdictInv == VerdictBacked /\ PublishersWrote

(* How a call arrives at the places that matter to the verdict and the        *)
(* reopening: by one action each.                                             *)
LEMMA Arrivals ==
  ASSUME TypeInv, NEW c \in Calls, Step(c)
  PROVE  /\ \A d \in Calls \ {c} : call'[d].pc = call[d].pc
         /\ call'[c].pc = "publish" => UpsertVerdict(c)
         /\ call'[c].pc = "complete" => PublishVerdict(c)
         /\ call'[c].pc = "reopen" => LockForReopen(c)
<1>0. /\ call \in [Calls -> CallType]
      /\ call[c].next \in {"return", "judge", "deliberate", "activate"}
  BY DEF TypeInv, TypeOK, CallType
<1> USE DEF At
<1> DEFINE Elsewhere ==
             /\ \A d \in Calls \ {c} : call'[d].pc = call[d].pc
             /\ call'[c].pc \notin {"publish", "complete", "reopen"}
<1>a. ASSUME NEW r, call' = [call EXCEPT ![c] = r],
             r.pc \notin {"publish", "complete", "reopen"}
      PROVE  Elsewhere
  BY <1>0, <1>a
<1>b. ASSUME Return(c) PROVE Elsewhere
  BY <1>a, <1>b DEF Return, Idle
<1>c. ASSUME NEW n \in CallType, Enter(c, n), n.pc \notin {"publish", "complete", "reopen"}
      PROVE  Elsewhere
  <2> DEFINE k == call[c].slots + 1
             r == [n EXCEPT !.slots = k, !.cancelled = FALSE]
  <2>1. r.pc = n.pc
    BY <1>c DEF CallType
  <2>2. call' = [call EXCEPT ![c] = r]
    BY <1>c DEF Enter
  <2> HIDE DEF r
  <2> QED BY <1>a, <1>c, <2>1, <2>2
<1> USE <1>0 DEF Goto, Heard, Return, Idle, ResumeStep, CallType
<1>1. CASE TransitionToOpening(c)
  BY <1>1 DEF TransitionToOpening
<1>2. CASE RunOpeningSpeeches(c)
  <2> DEFINE n == [Idle EXCEPT !.pc = "speak", !.phase = "opening", !.todo = Sides]
  <2>1. n \in CallType /\ n.pc = "speak"
    BY IdleOK DEF PCs, Phases
  <2>2. Return(c) \/ Enter(c, n)
    BY <1>2 DEF RunOpeningSpeeches
  <2> HIDE DEF n
  <2> QED BY <1>b, <1>c, <2>1, <2>2
<1>3. CASE ForceSkipOpening(c)
  BY <1>3 DEF ForceSkipOpening
<1>4. CASE Speak(c)
  BY <1>4 DEF Speak
<1>5. CASE SpeakFails(c)
  BY <1>5 DEF SpeakFails
<1>6. CASE SpeechesDone(c)
  BY <1>6 DEF SpeechesDone
<1>7. CASE ContinueCrossExam(c)
  <2> DEFINE k == call[c].round + 1
             r == [call[c] EXCEPT !.pc = "await_round", !.phase = "cross_exam",
                                  !.round = k]
  <2>1. r.pc = "await_round"
    OBVIOUS
  <2>2. Return(c) \/ Goto(c, "finish") \/ call' = [call EXCEPT ![c] = r]
    BY <1>7 DEF ContinueCrossExam
  <2> HIDE DEF r
  <2> QED BY <1>a, <1>b, <2>1, <2>2
<1>8. CASE StartCrossExam(c)
  BY <1>8 DEF StartCrossExam
<1>9. CASE RunCrossExamRound(c)
  <2> DEFINE t == {s \in Sides : <<"cross_exam", call[c].round, s>> \notin spoken}
             n == [call[c] EXCEPT !.pc = "speak", !.next = "judge", !.todo = t]
  <2>1. t \in SUBSET Sides
    OBVIOUS
  <2>2. n \in CallType /\ n.pc = "speak"
    <3> HIDE DEF t
    <3> QED BY <2>1 DEF PCs
  <2>3. Return(c) \/ Enter(c, n)
    BY <1>9 DEF RunCrossExamRound
  <2> HIDE DEF n
  <2> QED BY <1>b, <1>c, <2>2, <2>3
<1>10. CASE JudgeAssess(c)
  BY <1>10 DEF JudgeAssess
<1>11. CASE DecideRound(c)
  BY <1>11 DEF DecideRound
<1>12. CASE CancelCall(c)
  BY <1>12 DEF CancelCall
<1>13. CASE LockForVerdict(c)
  BY <1>13 DEF LockForVerdict
<1>14. CASE FinishTrial(c)
  <2> DEFINE n == [call[c] EXCEPT !.pc = "closing"]
  <2>1. n \in CallType /\ n.pc = "closing"
    BY DEF PCs
  <2>2. call' = [call EXCEPT ![c] = Idle] \/ Goto(c, "refused") \/ Enter(c, n)
    BY <1>14 DEF FinishTrial
  <2> HIDE DEF n
  <2> QED BY <1>a, <1>c, <2>1, <2>2
<1>15. CASE CloseTrial(c)
  BY <1>15 DEF CloseTrial
<1>16. CASE Deliberate(c)
  BY <1>16 DEF Deliberate
<1>17. CASE LockForReopen(c)
  <2> DEFINE w == IF status # "active" THEN "activate" ELSE "return"
             r == [call[c] EXCEPT !.pc = "reopen", !.phase = phase,
                                  !.round = round, !.next = w]
  <2>1. r.pc = "reopen"
    OBVIOUS
  <2>2. Return(c) \/ call' = [call EXCEPT ![c] = r]
    BY <1>17 DEF LockForReopen
  <2> HIDE DEF r
  <2>3. CASE call' = [call EXCEPT ![c] = r]
    BY <1>17, <2>1, <2>3
  <2> QED BY <1>b, <2>2, <2>3
<1>18. CASE ReopenTrial(c)
  BY <1>18 DEF ReopenTrial
<1>19. CASE ActivateTrial(c)
  BY <1>19 DEF ActivateTrial
<1>20. CASE LockForEvidence(c)
  BY <1>20 DEF LockForEvidence
<1>21. CASE SubmitEvidence(c)
  BY <1>21 DEF SubmitEvidence
<1>22. CASE LockForDispatch(c)
  BY <1>22 DEF LockForDispatch
<1>23. CASE DispatchInvestigator(c)
  BY <1>23 DEF DispatchInvestigator
<1>24. CASE Interrupt(c)
  BY <1>24 DEF Interrupt
<1>25. CASE Resume(c)
  BY <1>25 DEF Resume
<1>26. CASE UpsertVerdict(c)
  BY <1>26 DEF UpsertVerdict
<1>27. CASE PublishVerdict(c)
  BY <1>27 DEF PublishVerdict
<1>28. CASE CompleteTrial(c)
  BY <1>28, <1>b DEF CompleteTrial
<1>29. CASE ReportRefusal(c)
  BY <1>29, <1>b DEF ReportRefusal
<1> QED BY <1>1, <1>2, <1>3, <1>4, <1>5, <1>6, <1>7, <1>8, <1>9, <1>10, <1>11, <1>12,
           <1>13, <1>14, <1>15, <1>16, <1>17, <1>18, <1>19, <1>20, <1>21, <1>22, <1>23,
           <1>24, <1>25, <1>26, <1>27, <1>28, <1>29 DEF Step

(* Steps that neither decide nor publish.                                     *)
LEMMA OtherVerdictStep ==
  ASSUME VerdictInv, verdict' = verdict,
         phase' \in {phase} \union (Phases \ {"verdict"}), status' \in {status, "active"},
         \A d \in Calls : Publishing(call'[d]) => Publishing(call[d])
  PROVE  VerdictInv'
BY DEF VerdictInv, VerdictBacked, PublishersWrote

LEMMA StepVerdictInv ==
  ASSUME TypeInv, VerdictInv, NEW c \in Calls, Step(c) PROVE VerdictInv'
<1>0. /\ call \in [Calls -> CallType] /\ phase \in Phases
      /\ call[c].next \in {"return", "judge", "deliberate", "activate"}
  BY DEF TypeInv, TypeOK, CallType
<1> USE DEF At
<1>1. CASE UpsertVerdict(c)
  BY <1>1 DEF UpsertVerdict, VerdictInv, VerdictBacked, PublishersWrote
<1>2. CASE PublishVerdict(c)
  <2>1. verdict.written /\ verdict' = verdict
    BY <1>2 DEF PublishVerdict, VerdictInv, PublishersWrote, Publishing, disk
  <2> QED BY <2>1 DEF VerdictInv, VerdictBacked, PublishersWrote
<1>3. CASE CompleteTrial(c)
  <2>1. verdict.written /\ verdict' = verdict
    BY <1>3 DEF CompleteTrial, VerdictInv, PublishersWrote, Publishing, disk
  <2> QED BY <2>1 DEF VerdictInv, VerdictBacked, PublishersWrote
<1>4. CASE /\ ~UpsertVerdict(c) /\ ~PublishVerdict(c) /\ ~CompleteTrial(c)
  <2>1. verdict' = verdict /\ status' \in {status, "active"}
        /\ phase' \in {phase} \union (Phases \ {"verdict"})
    BY <1>4 DEF Step, TransitionToOpening, RunOpeningSpeeches, ForceSkipOpening, Speak,
         SpeakFails, SpeechesDone, ContinueCrossExam, StartCrossExam, RunCrossExamRound,
         JudgeAssess, DecideRound, CancelCall, LockForVerdict, FinishTrial, ReportRefusal, CloseTrial,
         Deliberate, LockForReopen, ReopenTrial, ActivateTrial, LockForEvidence,
         SubmitEvidence, LockForDispatch, DispatchInvestigator, Interrupt, Resume,
         WriteRow, Phases, row, disk
  <2>2. \A d \in Calls : Publishing(call'[d]) => Publishing(call[d])
    BY <1>4, Arrivals DEF Publishing
  <2> QED BY <2>1, <2>2, OtherVerdictStep
<1> QED BY <1>1, <1>2, <1>3, <1>4

LEMMA NextVerdictInv == TypeInv /\ VerdictInv /\ [Next]_vars => VerdictInv'
<1> SUFFICES ASSUME TypeInv, VerdictInv, [Next]_vars PROVE VerdictInv'
  OBVIOUS
<1>0. call \in [Calls -> CallType]
  BY DEF TypeInv, TypeOK
<1>1. ASSUME NEW c \in Calls, NEW p, Begin(c, p), p \notin {"publish", "complete"},
             UNCHANGED <<phase, status, verdict>>
      PROVE  VerdictInv'
  <2>1. \A d \in Calls : Publishing(call'[d]) => Publishing(call[d])
    BY <1>0, <1>1 DEF Begin, Publishing, Idle
  <2> QED BY <1>1, <2>1, OtherVerdictStep
<1>2. ASSUME NEW c \in Calls, NEW action \in DOMAIN FirstStep, Request(c, action)
      PROVE  VerdictInv'
  <2>1. FirstStep[action] \notin {"publish", "complete"}
    BY DEF FirstStep
  <2> QED BY <1>1, <1>2, <2>1 DEF Request, row, disk
<1>3. ASSUME NEW c \in Calls, RequestEvidence(c) PROVE VerdictInv'
  <2>1. \A d \in Calls : Publishing(call'[d]) => Publishing(call[d])
    BY <1>0, <1>3 DEF RequestEvidence, Goto, Publishing, CallType
  <2> QED BY <1>3, <2>1, OtherVerdictStep DEF RequestEvidence, row, disk
<1>4. ASSUME NEW c \in Calls, Recover(c) PROVE VerdictInv'
  <2>1. CASE Begin(c, ResumeStep(phase))
    <3>1. ResumeStep(phase) \notin {"publish", "complete"}
      BY DEF ResumeStep
    <3> QED BY <1>1, <1>4, <2>1, <3>1 DEF Recover, row, disk
  <2>2. CASE UNCHANGED call
    BY <1>4, <2>2, OtherVerdictStep DEF Recover, row, disk
  <2> QED BY <1>4, <2>1, <2>2 DEF Recover
<1>5. ASSUME NEW c \in Calls, Abort(c) PROVE VerdictInv'
  <2>1. \A d \in Calls : Publishing(call'[d]) => Publishing(call[d])
    BY <1>0, <1>5 DEF Abort, Return, Publishing, Idle
  <2> QED BY <1>5, <2>1, OtherVerdictStep DEF Abort, row, disk
<1>6. CASE Crash
  <2>1. \A d \in Calls : ~Publishing(call'[d])
    BY <1>6 DEF Crash, Publishing, Idle
  <2> QED BY <1>6, <2>1, OtherVerdictStep DEF Crash, row, disk
<1>7. CASE UNCHANGED vars
  BY <1>7, OtherVerdictStep DEF vars, row, disk, memory
<1> QED BY <1>2, <1>3, <1>4, <1>5, <1>6, <1>7, StepVerdictInv DEF Next

LEMMA InitVerdictInv == Init => VerdictInv
BY DEF Init, Idle, VerdictInv, VerdictBacked, PublishersWrote, Publishing

(* A trial in the verdict phase, or completed, has its verdict: also after a  *)
(* crash between any two writes of finishTrial, and with any number of calls. *)
THEOREM VerdictIsBacked == Spec => []VerdictBacked
<1>1. VerdictInv => VerdictBacked
  BY DEF VerdictInv
<1> QED BY <1>1, InitTypeInv, NextTypeInv, InitVerdictInv, NextVerdictInv, PTL DEF Spec

--------------------------------------------------------------------------------
(* Requests that do not overlap: a single call at a time.  Then the copy of   *)
(* the row a call works with stays the row, so each write of the row is a     *)
(* move of TrialLifecycle; the rest of the invariant says, for each place     *)
(* before a write, which phase the row is in.                                 *)

\* The places whose next write of the row, or next place, depends on the copy.
UsesCopy(r) ==
  \/ r.pc \in {"to_opening", "force_skip", "await_start", "await_continue", "cancel",
               "await_verdict", "await_round", "interrupt", "finish", "closing", "judge",
               "decide", "deliberate", "upsert", "publish", "reopen"}
  \/ r.pc = "speak" /\ r.next # "return"

CopyIsRow(r) == UsesCopy(r) => r.phase = phase /\ r.round = round

PhaseAt(r) ==
  /\ r.pc \in {"force_skip", "await_start"} => phase = "opening"
  /\ r.pc \in {"cancel", "await_verdict", "finish"} => phase # "idle"
  /\ r.pc = "closing" => phase \in {"opening", "evidence", "cross_exam"}
  /\ r.pc = "deliberate" \/ (r.pc = "speak" /\ r.next = "deliberate") => phase = "closing"
  /\ r.pc \in {"upsert", "publish"} => phase = "deliberation"
  /\ r.pc \in {"complete", "reopen"} => phase = "verdict"
  /\ r.pc = "activate" => phase = "evidence"
  /\ r.pc = "evidence" => phase \in Debating

\* The verdict being written weighs what there is.
Weighs(r) ==
  /\ r.pc = "upsert" => r.seen = evidence
  /\ r.pc = "publish" => verdict = [round |-> round, evidence |-> evidence, written |-> TRUE]

RowOK == phase # "appeal" /\ (phase \in {"idle", "opening"} => round = 0)

SerialOK(r) == CopyIsRow(r) /\ PhaseAt(r) /\ Weighs(r)

SerialInv == RowOK /\ \A c \in Calls : SerialOK(call[c])

\* A completed trial that is being reopened is about to be made active.
ReactivatesCompleted ==
  /\ crashes + faults = 0 /\ status = "completed" =>
       phase = "verdict" \/ \E c \in Calls : lock = c /\ call[c].pc = "activate"
  /\ \A c \in Calls : call[c].pc = "reopen" =>
       lock = c /\ (status # "active" => call[c].next = "activate")

\* What TrialLifecycle sees of the state.
LifecycleRow == <<phase, round, status, verdict, evidence>>

\* A step that TrialLifecycle makes or does not see.
LifecycleStep == Lifecycle!Next \/ UNCHANGED LifecycleRow

LEMMA SerialReturned ==
  ASSUME TypeInv, NEW c \in Calls, Calls = {c}, call' = [call EXCEPT ![c] = Idle], RowOK'
  PROVE  SerialInv'
<1>1. call'[c].pc = "idle" /\ call'[c].next = "return"
  BY DEF TypeInv, TypeOK, Idle
<1> QED BY <1>1 DEF SerialInv, SerialOK, CopyIsRow, UsesCopy, PhaseAt, Weighs

LEMMA SerialStep ==
  ASSUME TypeInv, SerialInv, NEW c \in Calls, Calls = {c}, Step(c)
  PROVE  SerialInv' /\ LifecycleStep
<1> DEFINE r == call[c]
<1>0. r \in CallType /\ PlaceOK(r) /\ SerialOK(r) /\ RowOK
  BY DEF TypeInv, TypeOK, PlacesOK, SerialInv
<1>1. /\ phase \in Phases /\ round \in Rounds /\ status \in {"active", "completed"}
      /\ evidence \in Nat /\ call \in [Calls -> CallType]
  BY DEF TypeInv, TypeOK
\* To keep the invariant it is enough that the call fits the place it has reached.
<1>2. ASSUME RowOK', SerialOK(r)' PROVE SerialInv'
  BY <1>2 DEF SerialInv
<1>3. ASSUME Return(c), RowOK' PROVE SerialInv'
  BY <1>3, SerialReturned DEF Return
<1>4. ASSUME NEW p, Goto(c, p)
      PROVE  /\ r'.pc = p /\ r'.next = r.next /\ r'.phase = r.phase /\ r'.round = r.round
             /\ r'.seen = r.seen
  BY <1>0, <1>1, <1>4 DEF Goto, CallType
<1>5. ASSUME Heard(c)
      PROVE  /\ r'.pc = r.pc /\ r'.next = r.next /\ r'.phase = r.phase /\ r'.round = r.round
             /\ r'.seen = r.seen
  <2> DEFINE t == r.todo \ {Speaker(c)}
  <2>1. call' = [call EXCEPT ![c] = [r EXCEPT !.todo = t]]
    BY <1>5 DEF Heard
  <2> HIDE DEF t
  <2> QED BY <1>0, <1>1, <2>1 DEF CallType
<1>6. ASSUME NEW n \in CallType, Enter(c, n)
      PROVE  /\ r'.pc = n.pc /\ r'.next = n.next /\ r'.phase = n.phase /\ r'.round = n.round
             /\ r'.seen = n.seen
  <2> DEFINE k == r.slots + 1
  <2>1. call' = [call EXCEPT ![c] = [n EXCEPT !.slots = k, !.cancelled = FALSE]]
    BY <1>6 DEF Enter
  <2> HIDE DEF k
  <2> QED BY <1>1, <2>1 DEF CallType
<1> HIDE DEF r
<1> USE DEF At
<1>11. CASE TransitionToOpening(c)
  <2>1. r.phase = phase /\ phase = "idle" /\ round = 0
    BY <1>0, <1>1, <1>11
       DEF TransitionToOpening, MayMove, CanTransition, Successors, Phases, RowOK,
           SerialOK, CopyIsRow, UsesCopy, PhaseAt, Weighs, r
  <2>2. LifecycleStep /\ RowOK'
    BY <2>1, <1>11
       DEF TransitionToOpening, WriteRow, LifecycleStep, LifecycleRow, Lifecycle!Next,
           Lifecycle!Open, RowOK, disk
  <2>3. SerialOK(r)'
    BY <1>4, <1>11
       DEF TransitionToOpening, RowOK, SerialOK, CopyIsRow, UsesCopy, PhaseAt, Weighs
  <2> QED BY <1>2, <2>2, <2>3
<1>12. CASE RunOpeningSpeeches(c)
  <2>1. LifecycleStep /\ RowOK'
    BY <1>0, <1>12 DEF RunOpeningSpeeches, LifecycleStep, LifecycleRow, RowOK, row, disk
  <2> DEFINE n == [Idle EXCEPT !.pc = "speak", !.phase = "opening", !.todo = Sides]
  <2>2. n \in CallType /\ n.pc = "speak" /\ n.next = "return"
    BY IdleOK DEF CallType, PCs, Phases, Idle
  <2>3. Return(c) \/ Enter(c, n)
    BY <1>12 DEF RunOpeningSpeeches, r
  <2> HIDE DEF n
  <2>4. CASE Enter(c, n)
    <3>1. SerialOK(r)'
      BY <1>0, <1>6, <2>2, <2>4, <1>12
         DEF RunOpeningSpeeches, RowOK, SerialOK, CopyIsRow, UsesCopy, PhaseAt, Weighs, r,
             row, disk
    <3> QED BY <1>2, <2>1, <3>1
  <2> QED BY <1>3, <2>1, <2>3, <2>4
<1>13. CASE ForceSkipOpening(c)
  <2>1. phase = "opening" /\ round = 0
    BY <1>0, <1>13
       DEF ForceSkipOpening, RowOK, SerialOK, CopyIsRow, UsesCopy, PhaseAt, Weighs, r
  <2>2. LifecycleStep /\ RowOK'
    BY <2>1, <1>13, RoundsFact
       DEF ForceSkipOpening, WriteRow, LifecycleStep, LifecycleRow, Lifecycle!Next,
           Lifecycle!NextRound, RowOK, disk
  <2> QED BY <1>3, <2>2, <1>13 DEF ForceSkipOpening
<1>14. CASE Speak(c)
  <2>1. LifecycleStep /\ RowOK'
    BY <1>0, <1>14 DEF Speak, LifecycleStep, LifecycleRow, RowOK, row, disk
  <2>2. SerialOK(r)'
    BY <1>0, <1>5, <1>14
       DEF Speak, RowOK, SerialOK, CopyIsRow, UsesCopy, PhaseAt, Weighs, row
  <2> QED BY <1>2, <2>1, <2>2
<1>15. CASE SpeakFails(c)
  <2>1. LifecycleStep /\ RowOK'
    BY <1>0, <1>15 DEF SpeakFails, LifecycleStep, LifecycleRow, RowOK, row, disk
  <2>2. CASE Heard(c)
    <3>1. SerialOK(r)'
      BY <1>0, <1>5, <2>2, <1>15
         DEF SpeakFails, RowOK, SerialOK, CopyIsRow, UsesCopy, PhaseAt, Weighs, row, disk
    <3> QED BY <1>2, <2>1, <3>1
  <2> QED BY <1>3, <2>1, <2>2, <1>15 DEF SpeakFails
<1>16. CASE SpeechesDone(c)
  <2>1. LifecycleStep /\ RowOK'
    BY <1>0, <1>16 DEF SpeechesDone, LifecycleStep, LifecycleRow, RowOK, row, disk
  <2>2. CASE r.next # "return"
    <3>1. r.next \in {"judge", "deliberate"} /\ r.pc = "speak" /\ Goto(c, r.next)
      BY <1>0, <2>2, <1>16 DEF SpeechesDone, PlaceOK, CallType, r
    <3>2. SerialOK(r)'
      BY <1>0, <1>4, <3>1, <1>16
         DEF SpeechesDone, RowOK, SerialOK, CopyIsRow, UsesCopy, PhaseAt, Weighs, row,
             disk
    <3> QED BY <1>2, <2>1, <3>2
  <2> QED BY <1>3, <2>1, <2>2, <1>16 DEF SpeechesDone, r
<1>17. CASE ContinueCrossExam(c)
  <2> DEFINE n == r.round + 1
             m == [r EXCEPT !.pc = "await_round", !.phase = "cross_exam", !.round = n]
  <2>1. CASE /\ WriteRow("cross_exam", n) /\ call' = [call EXCEPT ![c] = m]
             /\ n <= MaxRounds /\ MayMove(c, "cross_exam")
    <3>1. r.round = round /\ r.phase = phase /\ phase \in {"opening", "evidence", "cross_exam"}
      BY <1>0, <1>1, <2>1, <1>17
         DEF ContinueCrossExam, MayMove, CanTransition, Successors, Phases, RowOK,
             SerialOK, CopyIsRow, UsesCopy, PhaseAt, Weighs, r
    <3>2. n = round + 1 /\ round < MaxRounds
      BY <1>0, <1>1, <2>1, <3>1, <1>17, RoundsFact
         DEF ContinueCrossExam, RowOK, SerialOK, PhaseAt, Rounds, r
    <3> HIDE DEF n
    <3>3. LifecycleStep /\ RowOK'
      BY <2>1, <3>1, <3>2, <1>17
         DEF ContinueCrossExam, WriteRow, LifecycleStep, LifecycleRow, Lifecycle!Next,
             Lifecycle!NextRound, RowOK, disk
    <3>4. r'.pc = "await_round" /\ r'.phase = "cross_exam" /\ r'.round = n
      BY <1>0, <1>1, <2>1 DEF CallType, r
    <3>5. SerialOK(r)'
      BY <2>1, <3>4 DEF WriteRow, RowOK, SerialOK, CopyIsRow, UsesCopy, PhaseAt, Weighs
    <3> QED BY <1>2, <3>3, <3>5
  <2>2. CASE UNCHANGED row /\ (Return(c) \/ (Goto(c, "finish") /\ n > MaxRounds))
    <3>1. LifecycleStep /\ RowOK'
      BY <1>0, <2>2, <1>17
         DEF ContinueCrossExam, LifecycleStep, LifecycleRow, RowOK, row, disk
    <3>2. CASE Goto(c, "finish") /\ n > MaxRounds
      <4>1. phase # "idle" /\ r.phase = phase /\ r.round = round
        BY <1>0, <1>1, <3>2, <1>17, RoundsFact
           DEF ContinueCrossExam, RowOK, SerialOK, CopyIsRow, UsesCopy, PhaseAt, Weighs, r
      <4>2. SerialOK(r)'
        BY <1>4, <2>2, <3>2, <4>1
           DEF RowOK, SerialOK, CopyIsRow, UsesCopy, PhaseAt, Weighs, row
      <4> QED BY <1>2, <3>1, <4>2
    <3>3. CASE Return(c)
      BY <1>3, <3>1, <3>3
    <3> QED BY <2>2, <3>2, <3>3, <1>17 DEF ContinueCrossExam, r
  <2> QED BY <2>1, <2>2, <1>17 DEF ContinueCrossExam, r
<1>18. CASE StartCrossExam(c)
  <2> DEFINE n == 1
             m == [r EXCEPT !.pc = "await_round", !.phase = "cross_exam", !.round = n]
  <2>1. CASE /\ WriteRow("cross_exam", n) /\ call' = [call EXCEPT ![c] = m]
             /\ n <= MaxRounds /\ MayMove(c, "cross_exam")
    <3>1. r.round = round /\ r.phase = phase /\ phase \in {"opening", "evidence", "cross_exam"}
      BY <1>0, <1>1, <2>1, <1>18
         DEF StartCrossExam, MayMove, CanTransition, Successors, Phases, RowOK, SerialOK,
             CopyIsRow, UsesCopy, PhaseAt, Weighs, r
    <3>2. n = round + 1 /\ round < MaxRounds
      BY <1>0, <1>1, <2>1, <3>1, <1>18, RoundsFact
         DEF StartCrossExam, RowOK, SerialOK, PhaseAt, Rounds, r
    <3> HIDE DEF n
    <3>3. LifecycleStep /\ RowOK'
      BY <2>1, <3>1, <3>2, <1>18
         DEF StartCrossExam, WriteRow, LifecycleStep, LifecycleRow, Lifecycle!Next,
             Lifecycle!NextRound, RowOK, disk
    <3>4. r'.pc = "await_round" /\ r'.phase = "cross_exam" /\ r'.round = n
      BY <1>0, <1>1, <2>1 DEF CallType, r
    <3>5. SerialOK(r)'
      BY <2>1, <3>4 DEF WriteRow, RowOK, SerialOK, CopyIsRow, UsesCopy, PhaseAt, Weighs
    <3> QED BY <1>2, <3>3, <3>5
  <2> QED BY <2>1, <1>18, RoundsFact DEF StartCrossExam, r
<1>19. CASE RunCrossExamRound(c)
  <2>1. LifecycleStep /\ RowOK'
    BY <1>0, <1>19 DEF RunCrossExamRound, LifecycleStep, LifecycleRow, RowOK, row, disk
  <2> DEFINE t == {x \in Sides : <<"cross_exam", r.round, x>> \notin spoken}
             n == [r EXCEPT !.pc = "speak", !.next = "judge", !.todo = t]
  <2>2. /\ n \in CallType /\ n.pc = "speak" /\ n.next = "judge" /\ n.phase = r.phase
        /\ n.round = r.round
    <3>1. t \in SUBSET Sides
      OBVIOUS
    <3> HIDE DEF t
    <3> QED BY <1>0, <3>1 DEF CallType, PCs
  <2>3. Return(c) \/ Enter(c, n)
    BY <1>19 DEF RunCrossExamRound, r
  <2> HIDE DEF n
  <2>4. CASE Enter(c, n)
    <3>1. SerialOK(r)'
      BY <1>0, <1>6, <2>2, <2>4, <1>19
         DEF RunCrossExamRound, RowOK, SerialOK, CopyIsRow, UsesCopy, PhaseAt, Weighs, r,
             row, disk
    <3> QED BY <1>2, <2>1, <3>1
  <2> QED BY <1>3, <2>1, <2>3, <2>4
<1>20. CASE JudgeAssess(c)
  <2>1. LifecycleStep /\ RowOK'
    BY <1>0, <1>20 DEF JudgeAssess, LifecycleStep, LifecycleRow, RowOK, row, disk
  <2>2. SerialOK(r)'
    BY <1>0, <1>1, <1>4, <1>20
       DEF JudgeAssess, RowOK, SerialOK, CopyIsRow, UsesCopy, PhaseAt, Weighs, PlaceOK,
           InRound, NoScope, row, disk, r
  <2> QED BY <1>2, <2>1, <2>2
<1>21. CASE DecideRound(c)
  <2>1. LifecycleStep /\ RowOK'
    BY <1>0, <1>21 DEF DecideRound, LifecycleStep, LifecycleRow, RowOK, row, disk
  <2>2. CASE Goto(c, "finish")
    <3>1. r.phase = "cross_exam" /\ r.phase = phase /\ r.round = round
      BY <1>0, <1>21
         DEF DecideRound, PlaceOK, InRound, RowOK, SerialOK, CopyIsRow, UsesCopy, PhaseAt,
             Weighs, r
    <3>2. SerialOK(r)'
      BY <1>4, <2>2, <3>1, <1>21
         DEF DecideRound, RowOK, SerialOK, CopyIsRow, UsesCopy, PhaseAt, Weighs, row
    <3> QED BY <1>2, <2>1, <3>2
  <2> QED BY <1>3, <2>1, <2>2, <1>21 DEF DecideRound
<1>22. CASE CancelCall(c)
  <2>1. LifecycleStep /\ RowOK'
    BY <1>0, <1>22 DEF CancelCall, LifecycleStep, LifecycleRow, RowOK, row, disk
  <2>2. r' = [r EXCEPT !.pc = "await_verdict"]
    BY <1>22 DEF CancelCall, r
  <2>3. r'.pc = "await_verdict" /\ r'.phase = r.phase /\ r'.round = r.round
    BY <1>0, <2>2 DEF CallType
  <2>4. SerialOK(r)'
    BY <1>0, <2>3, <1>22
       DEF CancelCall, RowOK, SerialOK, CopyIsRow, UsesCopy, PhaseAt, Weighs, row, r
  <2> QED BY <1>2, <2>1, <2>4
<1>23. CASE LockForVerdict(c)
  <2>1. LifecycleStep /\ RowOK'
    BY <1>0, <1>23 DEF LockForVerdict, LifecycleStep, LifecycleRow, RowOK, row, disk
  <2>2. SerialOK(r)'
    BY <1>0, <1>1, <1>4, <1>23
       DEF LockForVerdict, RowOK, SerialOK, CopyIsRow, UsesCopy, PhaseAt, Weighs, PlaceOK,
           InRound, NoScope, row, disk, r
  <2> QED BY <1>2, <2>1, <2>2
<1>24. CASE FinishTrial(c)
  <2>1. LifecycleStep /\ RowOK'
    BY <1>0, <1>24 DEF FinishTrial, LifecycleStep, LifecycleRow, RowOK, row, disk
  <2> DEFINE n == [r EXCEPT !.pc = "closing"]
  <2>2. n \in CallType /\ n.pc = "closing" /\ n.phase = r.phase /\ n.round = r.round
    BY <1>0 DEF CallType, PCs
  <2>3. \/ call' = [call EXCEPT ![c] = Idle]
        \/ Goto(c, "refused")
        \/ Enter(c, n) /\ MayMove(c, "closing")
    BY <1>24 DEF FinishTrial, Return, r
  <2> HIDE DEF n
  <2>4. CASE Enter(c, n) /\ MayMove(c, "closing")
    <3>1. /\ r.phase = phase /\ r.round = round
          /\ phase \in {"opening", "evidence", "cross_exam"}
      BY <1>0, <1>1, <2>4, <1>24
         DEF FinishTrial, MayMove, CanTransition, Successors, Phases, RowOK, SerialOK,
             CopyIsRow, UsesCopy, PhaseAt, Weighs, r
    <3>2. SerialOK(r)'
      BY <1>6, <2>2, <2>4, <3>1, <1>24
         DEF FinishTrial, RowOK, SerialOK, CopyIsRow, UsesCopy, PhaseAt, Weighs, row
    <3> QED BY <1>2, <2>1, <3>2
  <2>5. CASE Goto(c, "refused")
    <3>1. SerialOK(r)'
      BY <1>4, <2>5, <1>24
         DEF FinishTrial, SerialOK, CopyIsRow, UsesCopy, PhaseAt, Weighs, row, disk
    <3> QED BY <1>2, <2>1, <3>1
  <2> QED BY <2>1, <2>3, <2>4, <2>5, SerialReturned
<1>25. CASE CloseTrial(c)
  <2>1. phase \in {"opening", "evidence", "cross_exam"} /\ r.round = round
    BY <1>0, <1>25
       DEF CloseTrial, RowOK, SerialOK, CopyIsRow, UsesCopy, PhaseAt, Weighs, r
  <2>2. LifecycleStep /\ RowOK'
    BY <2>1, <1>25 DEF CloseTrial, WriteRow, LifecycleStep, LifecycleRow, Lifecycle!Next,
           Lifecycle!Close, RowOK, disk, r
  <2>3. call' = [call EXCEPT ![c] = [r EXCEPT !.pc = "speak", !.phase = "closing", !.next = "deliberate", !.todo = Sides]]
    BY <1>25 DEF CloseTrial, r
  <2>4. r'.pc = "speak" /\ r'.phase = "closing" /\ r'.round = r.round /\ r'.next = "deliberate"
    BY <1>0, <1>1, <2>3 DEF CallType, r
  <2>5. SerialOK(r)'
    BY <2>4, <1>25
       DEF CloseTrial, WriteRow, RowOK, SerialOK, CopyIsRow, UsesCopy, PhaseAt, Weighs,
           disk, r
  <2> QED BY <1>2, <2>2, <2>5
<1>26. CASE Deliberate(c)
  <2>1. phase \in {"closing"} /\ r.round = round
    BY <1>0, <1>26
       DEF Deliberate, RowOK, SerialOK, CopyIsRow, UsesCopy, PhaseAt, Weighs, r
  <2>2. LifecycleStep /\ RowOK'
    BY <2>1, <1>26 DEF Deliberate, WriteRow, LifecycleStep, LifecycleRow, Lifecycle!Next,
           Lifecycle!Retire, RowOK, disk, r
  <2>3. call' = [call EXCEPT ![c] = [r EXCEPT !.pc = "upsert", !.phase = "deliberation", !.seen = evidence]]
    BY <1>26 DEF Deliberate, r
  <2>4. r'.pc = "upsert" /\ r'.phase = "deliberation" /\ r'.round = r.round /\ r'.seen = evidence
    BY <1>0, <1>1, <2>3 DEF CallType, r
  <2>5. SerialOK(r)'
    BY <2>4, <1>26
       DEF Deliberate, WriteRow, RowOK, SerialOK, CopyIsRow, UsesCopy, PhaseAt, Weighs,
           disk, r
  <2> QED BY <1>2, <2>2, <2>5
<1>27. CASE UpsertVerdict(c)
  <2>1. phase = "deliberation" /\ r.round = round /\ r.seen = evidence /\ r.phase = phase
    BY <1>0, <1>27
       DEF UpsertVerdict, RowOK, SerialOK, CopyIsRow, UsesCopy, PhaseAt, Weighs, r
  <2>2. LifecycleStep /\ RowOK'
    BY <1>0, <2>1, <1>27
       DEF UpsertVerdict, LifecycleStep, LifecycleRow, Lifecycle!Next, Lifecycle!Decide,
           RowOK, r
  <2>3. SerialOK(r)'
    BY <1>4, <2>1, <1>27
       DEF UpsertVerdict, RowOK, SerialOK, CopyIsRow, UsesCopy, PhaseAt, Weighs, r
  <2> QED BY <1>2, <2>2, <2>3
<1>28. CASE PublishVerdict(c)
  <2>1. /\ phase = "deliberation" /\ r.round = round
        /\ verdict = [round |-> round, evidence |-> evidence, written |-> TRUE]
    BY <1>0, <1>28
       DEF PublishVerdict, RowOK, SerialOK, CopyIsRow, UsesCopy, PhaseAt, Weighs, r
  <2>2. LifecycleStep /\ RowOK'
    BY <2>1, <1>28
       DEF PublishVerdict, WriteRow, LifecycleStep, LifecycleRow, Lifecycle!Next,
           Lifecycle!Publish, RowOK, disk, r
  <2>3. SerialOK(r)'
    BY <1>4, <1>28
       DEF PublishVerdict, WriteRow, RowOK, SerialOK, CopyIsRow, UsesCopy, PhaseAt, Weighs
  <2> QED BY <1>2, <2>2, <2>3
<1>29. CASE CompleteTrial(c)
  <2>1. phase = "verdict"
    BY <1>0, <1>29 DEF CompleteTrial, SerialOK, PhaseAt, r
  <2>2. LifecycleStep /\ RowOK'
    BY <1>0, <2>1, <1>29
       DEF CompleteTrial, LifecycleStep, LifecycleRow, Lifecycle!Next, Lifecycle!Complete,
           RowOK, disk
  <2> QED BY <1>3, <2>2, <1>29 DEF CompleteTrial
<1>30. CASE LockForReopen(c)
  <2>1. LifecycleStep /\ RowOK'
    BY <1>0, <1>30 DEF LockForReopen, LifecycleStep, LifecycleRow, RowOK, row, disk
  <2>2. CASE phase \in {"verdict", "appeal"}
    <3> DEFINE w == IF status # "active" THEN "activate" ELSE "return"
               m == [r EXCEPT !.pc = "reopen", !.phase = phase, !.round = round, !.next = w]
    <3>1. call' = [call EXCEPT ![c] = m]
      BY <2>2, <1>30 DEF LockForReopen, r
    <3>2. r'.pc = "reopen" /\ r'.phase = phase /\ r'.round = round
      <4> HIDE DEF w
      <4> QED BY <1>0, <1>1, <3>1 DEF CallType, r
    <3>3. SerialOK(r)'
      BY <1>0, <2>2, <3>2, <1>30
         DEF LockForReopen, RowOK, SerialOK, CopyIsRow, UsesCopy, PhaseAt, Weighs, row
    <3> QED BY <1>2, <2>1, <3>3
  <2> QED BY <1>3, <2>1, <2>2, <1>30 DEF LockForReopen
<1>31. CASE ReopenTrial(c)
  <2>1. phase = "verdict" /\ r.round = round
    BY <1>0, <1>31
       DEF ReopenTrial, RowOK, SerialOK, CopyIsRow, UsesCopy, PhaseAt, Weighs, r
  <2>2. LifecycleStep /\ RowOK'
    BY <2>1, <1>31 DEF ReopenTrial, WriteRow, LifecycleStep, LifecycleRow, Lifecycle!Next,
           Lifecycle!Reopen, RowOK, disk, r
  <2>3. CASE Goto(c, "activate")
    <3>1. SerialOK(r)'
      BY <1>4, <2>3, <1>31
         DEF ReopenTrial, WriteRow, RowOK, SerialOK, CopyIsRow, UsesCopy, PhaseAt, Weighs
    <3> QED BY <1>2, <2>2, <3>1
  <2> QED BY <1>3, <2>2, <2>3, <1>31 DEF ReopenTrial
<1>32. CASE ActivateTrial(c)
  <2>1. phase = "evidence"
    BY <1>0, <1>32 DEF ActivateTrial, SerialOK, PhaseAt, r
  <2>2. LifecycleStep /\ RowOK'
    BY <1>0, <2>1, <1>32 DEF ActivateTrial, LifecycleStep, LifecycleRow, Lifecycle!Next,
           Lifecycle!Reactivate, RowOK, disk
  <2> QED BY <1>3, <2>2, <1>32 DEF ActivateTrial
<1>33. CASE LockForEvidence(c)
  <2>1. LifecycleStep /\ RowOK'
    BY <1>0, <1>33 DEF LockForEvidence, LifecycleStep, LifecycleRow, RowOK, row, disk
  <2>2. CASE ValidateAction(phase, "submit_evidence")
    <3>1. phase \in Debating
      BY <2>2 DEF ValidateAction, Admits
    <3>2. SerialOK(r)'
      BY <1>4, <2>2, <3>1, <1>33
         DEF LockForEvidence, RowOK, SerialOK, CopyIsRow, UsesCopy, PhaseAt, Weighs, row
    <3> QED BY <1>2, <2>1, <3>2
  <2> QED BY <1>3, <2>1, <2>2, <1>33 DEF LockForEvidence
<1>34. CASE SubmitEvidence(c)
  <2>1. phase \in Debating
    BY <1>0, <1>34 DEF SubmitEvidence, SerialOK, PhaseAt, r
  <2>2. LifecycleStep /\ RowOK'
    BY <1>0, <2>1, <1>34
       DEF SubmitEvidence, LifecycleStep, LifecycleRow, Lifecycle!Next, Lifecycle!Submit,
           RowOK, row, Debating, Phases,
       Lifecycle!Debating, Lifecycle!Phases
  <2> QED BY <1>3, <2>2, <1>34 DEF SubmitEvidence
<1>35. CASE LockForDispatch(c)
  <2>1. LifecycleStep /\ RowOK'
    BY <1>0, <1>35 DEF LockForDispatch, LifecycleStep, LifecycleRow, RowOK, row, disk
  <2>2. SerialOK(r)'
    BY <1>0, <1>1, <1>4, <1>35
       DEF LockForDispatch, RowOK, SerialOK, CopyIsRow, UsesCopy, PhaseAt, Weighs,
           PlaceOK, InRound, NoScope, row, disk, r
  <2> QED BY <1>2, <2>1, <2>2
<1>36. CASE DispatchInvestigator(c)
  <2>1. LifecycleStep /\ RowOK'
    BY <1>0, <1>36 DEF DispatchInvestigator, LifecycleStep, LifecycleRow, RowOK, row, disk
  <2> QED BY <1>3, <2>1, <1>36 DEF DispatchInvestigator
<1>37. CASE Interrupt(c)
  <2>1. LifecycleStep /\ RowOK'
    BY <1>0, <1>37 DEF Interrupt, LifecycleStep, LifecycleRow, RowOK, row, disk
  <2> DEFINE p == ResumeStep(r.phase)
  <2>2. r' = IF p = "idle" THEN Idle ELSE [r EXCEPT !.pc = p]
    BY <1>37 DEF Interrupt, r
  <2>3. p \in {"idle", "resume", "await_round"}
    BY DEF ResumeStep
  <2>4. \/ r'.pc = "idle"
        \/ r'.pc \in {"resume", "await_round"} /\ r'.phase = r.phase /\ r'.round = r.round
    <3> HIDE DEF p
    <3> QED BY <1>0, <2>2, <2>3 DEF CallType, Idle
  <2>5. SerialOK(r)'
    BY <1>0, <2>4, <1>37
       DEF Interrupt, RowOK, SerialOK, CopyIsRow, UsesCopy, PhaseAt, Weighs, row, r
  <2> QED BY <1>2, <2>1, <2>5
<1>38. CASE Resume(c)
  <2>1. LifecycleStep /\ RowOK'
    BY <1>0, <1>38 DEF Resume, LifecycleStep, LifecycleRow, RowOK, row, disk
  <2> DEFINE silent == Silent(r.phase)
             t == IF "prosecutor" \in silent THEN {"prosecutor"} ELSE silent
  <2>2. call' = [call EXCEPT ![c] = [r EXCEPT !.pc = "speak", !.next = "return", !.todo = t]]
    BY <1>38 DEF Resume, r
  <2>3. r'.pc = "speak" /\ r'.next = "return"
    <3> HIDE DEF t
    <3> QED BY <1>0, <1>1, <2>2 DEF CallType, r
  <2>4. SerialOK(r)'
    BY <2>3 DEF RowOK, SerialOK, CopyIsRow, UsesCopy, PhaseAt, Weighs
  <2> QED BY <1>2, <2>1, <2>4
<1>39. CASE ReportRefusal(c)
  <2>1. LifecycleStep /\ RowOK'
    BY <1>0, <1>39 DEF ReportRefusal, LifecycleStep, LifecycleRow, RowOK, row, disk
  <2> QED BY <1>3, <2>1, <1>39 DEF ReportRefusal
<1> QED BY <1>11, <1>12, <1>13, <1>14, <1>15, <1>16, <1>17, <1>18, <1>19, <1>20, <1>21,
           <1>22, <1>23, <1>24, <1>25, <1>26, <1>27, <1>28, <1>29, <1>30, <1>31, <1>32,
           <1>33, <1>34, <1>35, <1>36, <1>37, <1>38, <1>39 DEF Step

LEMMA SerialNext ==
  ASSUME TypeInv, SerialInv, NEW c \in Calls, Calls = {c}, [Next]_vars
  PROVE  SerialInv' /\ LifecycleStep
<1> DEFINE r == call[c]
<1>0. SerialOK(r) /\ RowOK /\ call \in [Calls -> CallType]
  BY DEF TypeInv, TypeOK, SerialInv
\* A call that begins or returns; nothing else happens.
<1>1. ASSUME SerialOK(r)', UNCHANGED LifecycleRow PROVE SerialInv' /\ LifecycleStep
  BY <1>0, <1>1 DEF SerialInv, RowOK, LifecycleStep, LifecycleRow
<1>2. ASSUME NEW p, Begin(c, p)
      PROVE  r'.pc = p /\ r'.next = "return" /\ r'.phase = phase /\ r'.round = round
  BY <1>0, <1>2 DEF Begin, Idle
<1>3. ASSUME Return(c) PROVE SerialOK(r)'
  <2>1. r'.pc = "idle" /\ r'.next = "return"
    BY <1>0, <1>3 DEF Return, Idle
  <2> HIDE DEF r
  <2> QED BY <2>1 DEF SerialOK, CopyIsRow, UsesCopy, PhaseAt, Weighs
<1>4. ASSUME NEW action \in DOMAIN FirstStep, Request(c, action)
      PROVE  SerialInv' /\ LifecycleStep
  <2>1. UNCHANGED <<row, disk>> /\ ValidateAction(phase, action)
        /\ Begin(c, FirstStep[action])
    BY <1>4 DEF Request
  <2>2. /\ FirstStep[action] \notin {"finish", "await_verdict", "closing", "deliberate", "speak",
             "upsert", "publish", "complete", "reopen", "activate", "evidence"}
        /\ FirstStep[action] \in {"force_skip", "await_start"} => phase = "opening"
        /\ FirstStep[action] = "cancel" => phase # "idle"
    BY <2>1 DEF FirstStep, ValidateAction, Admits
  <2>3. /\ r'.pc = FirstStep[action] /\ r'.next = "return"
        /\ r'.phase = phase /\ r'.round = round
    BY <1>2, <2>1
  <2>4. SerialOK(r)'
    <3> HIDE DEF r
    <3> QED BY <2>1, <2>2, <2>3 DEF SerialOK, CopyIsRow, UsesCopy, PhaseAt, Weighs, row
  <2> QED BY <1>1, <2>1, <2>4 DEF LifecycleRow, row, disk
<1>5. CASE RequestEvidence(c)
  <2>1. r'.pc = "await_evidence" /\ UNCHANGED <<row, disk>>
    BY <1>0, <1>5 DEF RequestEvidence, Goto, CallType
  <2>2. SerialOK(r)'
    <3> HIDE DEF r
    <3> QED BY <2>1 DEF SerialOK, CopyIsRow, UsesCopy, PhaseAt, Weighs
  <2> QED BY <1>1, <2>1, <2>2 DEF LifecycleRow, row, disk
<1>6. CASE Recover(c)
  <2>1. UNCHANGED <<row, disk>> /\ (Begin(c, ResumeStep(phase)) \/ UNCHANGED call)
    BY <1>6 DEF Recover
  <2>2. CASE Begin(c, ResumeStep(phase))
    <3>1. /\ r'.pc \in {"resume", "await_round", "idle"} /\ r'.next = "return"
          /\ r'.phase = phase /\ r'.round = round
      BY <1>2, <2>2 DEF ResumeStep
    <3>2. SerialOK(r)'
      <4> HIDE DEF r
      <4> QED BY <2>1, <3>1 DEF SerialOK, CopyIsRow, UsesCopy, PhaseAt, Weighs, row
    <3> QED BY <1>1, <2>1, <3>2 DEF LifecycleRow, row, disk
  <2>3. CASE UNCHANGED call
    BY <1>0, <1>1, <2>1, <2>3
       DEF LifecycleRow, row, disk, SerialOK, CopyIsRow, UsesCopy, PhaseAt, Weighs
  <2> QED BY <2>1, <2>2, <2>3
<1>7. CASE Abort(c)
  BY <1>1, <1>3, <1>7 DEF Abort, LifecycleRow, row, disk
<1>8. CASE Crash
  <2>1. r'.pc = "idle" /\ r'.next = "return" /\ UNCHANGED <<row, disk>>
    BY <1>8 DEF Crash, Idle
  <2>2. SerialOK(r)'
    <3> HIDE DEF r
    <3> QED BY <2>1 DEF SerialOK, CopyIsRow, UsesCopy, PhaseAt, Weighs
  <2> QED BY <1>1, <2>1, <2>2 DEF LifecycleRow, row, disk
<1>9. CASE UNCHANGED vars
  BY <1>0, <1>1, <1>9 DEF vars, memory, LifecycleRow, row, disk, SerialOK, CopyIsRow,
                          UsesCopy, PhaseAt, Weighs
<1>10. CASE Step(c)
  BY <1>10, SerialStep
<1> QED BY <1>4, <1>5, <1>6, <1>7, <1>8, <1>9, <1>10 DEF Next

LEMMA SerialInit == Init => SerialInv /\ Lifecycle!Init
<1> SUFFICES ASSUME Init PROVE SerialInv /\ Lifecycle!Init
  OBVIOUS
<1>1. \A c \in Calls : call[c].pc = "idle" /\ call[c].next = "return"
  BY DEF Init, Idle
<1> QED BY <1>1
           DEF Init, NoVerdict, Lifecycle!Init, SerialInv, RowOK, SerialOK, CopyIsRow,
                    UsesCopy, PhaseAt, Weighs

(* As long as requests do not overlap, the workflow implements TrialLifecycle *)
(* in any mode and through any crashes and faults: rounds advance by one and  *)
(* stay within the mode's, the verdict weighs the round and all the evidence, *)
(* it is published once written, and the trial completed once published.      *)
THEOREM SerialTrialImplementsLifecycle ==
  ASSUME NEW solo, Calls = {solo}
  PROVE  Spec => ImplementsLifecycle
<1>1. TypeInv /\ SerialInv /\ [Next]_vars => [Lifecycle!Next]_(Lifecycle!vars)
  BY SerialNext DEF LifecycleStep, LifecycleRow, Lifecycle!vars
<1>2. TypeInv /\ SerialInv /\ [Next]_vars => SerialInv'
  BY SerialNext
<1> QED BY <1>1, <1>2, InitTypeInv, NextTypeInv, SerialInit, PTL
        DEF Spec, ImplementsLifecycle, Lifecycle!Spec

--------------------------------------------------------------------------------
(* Completion, still with a single call at a time.                            *)

LEMMA OnlyReopened ==
  ASSUME TypeInv, SerialInv, NEW c \in Calls, Calls = {c}, Step(c), phase = "verdict"
  PROVE  phase' = "verdict" \/ ReopenTrial(c)
<1>1. phase' \in {"verdict", "evidence"}
  <2>1. LifecycleStep
    BY SerialStep
  <2> QED BY <2>1 DEF LifecycleStep, LifecycleRow, Lifecycle!Next, Lifecycle!Open,
        Lifecycle!NextRound, Lifecycle!Submit, Lifecycle!Close, Lifecycle!Retire,
        Lifecycle!Decide, Lifecycle!Publish, Lifecycle!Complete, Lifecycle!Reopen,
        Lifecycle!Reactivate, Lifecycle!Debating, Lifecycle!Phases
<1>2. phase' = "evidence" => ReopenTrial(c)
  BY DEF Step, TransitionToOpening, RunOpeningSpeeches, ForceSkipOpening, Speak,
     SpeakFails, SpeechesDone, ContinueCrossExam, StartCrossExam, RunCrossExamRound,
     JudgeAssess, DecideRound, CancelCall, LockForVerdict, FinishTrial, ReportRefusal, CloseTrial,
     Deliberate, UpsertVerdict, PublishVerdict, CompleteTrial, LockForReopen, ActivateTrial,
     LockForEvidence, SubmitEvidence, LockForDispatch, DispatchInvestigator, Interrupt,
     Resume, WriteRow, row
<1> QED BY <1>1, <1>2

LEMMA StepReactivates ==
  ASSUME TypeInv, SerialInv, ReactivatesCompleted, NEW c \in Calls, Calls = {c}, Step(c)
  PROVE  ReactivatesCompleted'
<1>0. /\ call[c] \in CallType /\ call \in [Calls -> CallType]
      /\ SerialOK(call[c]) /\ status \in {"active", "completed"}
  BY DEF TypeInv, TypeOK, SerialInv
<1> USE DEF At
<1>1. UNCHANGED <<crashes, faults>>
  BY DEF Step, TransitionToOpening, RunOpeningSpeeches, ForceSkipOpening, Speak,
     SpeakFails, SpeechesDone, ContinueCrossExam, StartCrossExam, RunCrossExamRound,
     JudgeAssess, DecideRound, CancelCall, LockForVerdict, FinishTrial, ReportRefusal, CloseTrial,
     Deliberate, UpsertVerdict, PublishVerdict, CompleteTrial, LockForReopen, ReopenTrial,
     ActivateTrial, LockForEvidence, SubmitEvidence, LockForDispatch, DispatchInvestigator,
     Interrupt, Resume, env
<1>2. CASE CompleteTrial(c)
  <2>1. phase' = "verdict"
    BY <1>0, <1>2 DEF CompleteTrial, SerialOK, PhaseAt
  <2>2. call'[c].pc # "reopen"
    BY <1>0, <1>2 DEF CompleteTrial, Return, Idle
  <2> QED BY <2>1, <2>2 DEF ReactivatesCompleted
<1>3. CASE ActivateTrial(c)
  <2>1. call'[c].pc # "reopen" /\ status' = "active"
    BY <1>0, <1>3 DEF ActivateTrial, Return, Idle
  <2> QED BY <2>1 DEF ReactivatesCompleted
<1>4. CASE ~CompleteTrial(c) /\ ~ActivateTrial(c)
  <2>1. status' = status /\ call[c].pc # "activate"
    BY <1>0, <1>4
       DEF Step, TransitionToOpening, RunOpeningSpeeches, ForceSkipOpening, Speak,
       SpeakFails, SpeechesDone, ContinueCrossExam, StartCrossExam, RunCrossExamRound,
       JudgeAssess, DecideRound, CancelCall, LockForVerdict, FinishTrial, ReportRefusal, CloseTrial,
       Deliberate, UpsertVerdict, PublishVerdict, LockForReopen, ReopenTrial,
       LockForEvidence, SubmitEvidence, LockForDispatch, DispatchInvestigator,
       Interrupt, Resume, WriteRow, row
  <2>2. call'[c].pc = "reopen" =>
          lock' = c /\ (status # "active" => call'[c].next = "activate")
    <3>1. SUFFICES ASSUME call'[c].pc = "reopen"
                   PROVE  lock' = c /\ (status # "active" => call'[c].next = "activate")
      OBVIOUS
    <3>2. LockForReopen(c) /\ ~Return(c)
      BY <1>0, <3>1, Arrivals DEF Return, Idle
    <3> DEFINE w == IF status # "active" THEN "activate" ELSE "return"
               m == [call[c] EXCEPT !.pc = "reopen", !.phase = phase, !.round = round,
                                    !.next = w]
    <3>3. lock' = c /\ call' = [call EXCEPT ![c] = m]
      BY <3>2 DEF LockForReopen
    <3>4. call'[c].next = w
      <4> HIDE DEF w
      <4> QED BY <1>0, <3>3 DEF CallType
    <3> QED BY <3>3, <3>4
  <2>3. CASE crashes + faults = 0 /\ status = "completed"
    <3>1. phase = "verdict"
      BY <2>1, <2>3 DEF ReactivatesCompleted
    <3>2. CASE phase' = "verdict"
      BY <2>1, <2>2, <3>2 DEF ReactivatesCompleted
    <3>3. CASE ReopenTrial(c)
      <4>1. lock = c /\ call[c].next = "activate"
        BY <2>3, <3>3 DEF ReopenTrial, ReactivatesCompleted
      <4>2. lock' = c /\ call'[c].pc = "activate"
        BY <1>0, <3>3, <4>1 DEF ReopenTrial, Goto, CallType
      <4> QED BY <2>1, <2>2, <4>2 DEF ReactivatesCompleted
    <3> QED BY <3>1, <3>2, <3>3, OnlyReopened
  <2>4. CASE ~(crashes + faults = 0 /\ status = "completed")
    BY <1>1, <2>1, <2>2, <2>4 DEF ReactivatesCompleted
  <2> QED BY <2>3, <2>4
<1> QED BY <1>2, <1>3, <1>4

LEMMA NextReactivates ==
  ASSUME TypeInv, SerialInv, ReactivatesCompleted, NEW c \in Calls, Calls = {c}, [Next]_vars
  PROVE  ReactivatesCompleted'
<1>0. call \in [Calls -> CallType] /\ crashes \in Nat /\ faults \in Nat
  BY BoundsAssumption DEF TypeInv, TypeOK
\* A step that makes a new call begin, or ends one, off the way of a reopening.
<1>1. ASSUME UNCHANGED <<phase, status>>, crashes' + faults' = 0 => crashes + faults = 0,
             call[c].pc # "activate" \/ crashes' + faults' # 0,
             call'[c].pc # "reopen"
      PROVE  ReactivatesCompleted'
  BY <1>1 DEF ReactivatesCompleted
<1>2. ASSUME NEW p, Begin(c, p) PROVE call'[c].pc = p
  BY <1>0, <1>2 DEF Begin, Idle
<1>3. ASSUME NEW action \in DOMAIN FirstStep, Request(c, action) PROVE ReactivatesCompleted'
  <2>1. FirstStep[action] # "reopen"
    BY DEF FirstStep
  <2> QED BY <1>1, <1>2, <1>3, <2>1 DEF Request, At, row, env
<1>4. CASE RequestEvidence(c)
  <2>1. call'[c].pc = "await_evidence"
    BY <1>0, <1>4 DEF RequestEvidence, Goto, CallType
  <2> QED BY <1>1, <1>4, <2>1 DEF RequestEvidence, At, row, env
<1>5. CASE Recover(c)
  <2>1. ResumeStep(phase) # "reopen"
    BY DEF ResumeStep
  <2>2. call'[c].pc # "reopen"
    BY <1>2, <1>5, <2>1 DEF Recover, At
  <2> QED BY <1>1, <1>5, <2>2 DEF Recover, At, row
<1>6. CASE Abort(c)
  <2>1. call'[c].pc # "reopen"
    BY <1>0, <1>6 DEF Abort, Return, Idle
  <2>2. crashes' + faults' # 0
    BY <1>0, <1>6 DEF Abort
  <2> QED BY <1>1, <1>6, <2>1, <2>2 DEF Abort, row
<1>7. CASE Crash
  <2>1. call'[c].pc # "reopen"
    BY <1>7 DEF Crash, Idle
  <2>2. crashes' + faults' # 0
    BY <1>0, <1>7 DEF Crash
  <2> QED BY <1>1, <1>7, <2>1, <2>2 DEF Crash, row
<1>8. CASE UNCHANGED vars
  BY <1>8 DEF vars, row, memory, env, ReactivatesCompleted
<1>9. CASE Step(c)
  BY <1>9, StepReactivates
<1> QED BY <1>3, <1>4, <1>5, <1>6, <1>7, <1>8, <1>9 DEF Next

(* As long as requests do not overlap, and nothing crashed or failed, a trial *)
(* nobody works on is completed only in the verdict phase: reopening undoes   *)
(* both writes of finishTrial.                                                *)
THEOREM SerialCompletion ==
  ASSUME NEW solo, Calls = {solo}
  PROVE  Spec => []CompletedMeansVerdict
<1>1. Init => ReactivatesCompleted
  BY DEF Init, Idle, ReactivatesCompleted
<1>2. TypeInv /\ SerialInv /\ [Next]_vars => SerialInv'
  BY SerialNext
<1>3. TypeInv /\ SerialInv /\ ReactivatesCompleted /\ [Next]_vars => ReactivatesCompleted'
  BY NextReactivates
<1>4. ReactivatesCompleted => CompletedMeansVerdict
  BY CallsAssumption DEF ReactivatesCompleted, CompletedMeansVerdict
<1> QED BY <1>1, <1>2, <1>3, <1>4, InitTypeInv, NextTypeInv, SerialInit, PTL DEF Spec
================================================================================
