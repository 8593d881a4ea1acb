------------------------------ MODULE CourtTrial -------------------------------
(***************************************************************************)
(* One trial of courtroom/service.go: the row of court_sessions, the       *)
(* verdict, the evidence and the transcript that survive a crash; the      *)
(* session lock, the registered cancel function and the L0 semaphore that  *)
(* do not; and the goroutines ("calls") that run the user's requests.      *)
(*                                                                         *)
(* A call reads the row once, when it validates the action, and keeps the  *)
(* copy it read (phase, round).  transitionPhase judges a move by that     *)
(* copy and writes the row unconditionally.  Each write of the row, the    *)
(* verdict or the evidence is a step of its own; purely local work, and    *)
(* reads that no concurrent step can disturb, are merged with their        *)
(* neighbour, as is an LLM answer with the write of the speech it becomes. *)
(***************************************************************************)
EXTENDS TrialPhases, Integers, FiniteSets

CONSTANTS
  Calls,           \* goroutines the server may run for this trial at once
  NoCall,          \* nobody: a free lock, no registered cancel function
  Mode,            \* the trial's mode, fixes MaxRounds
  Requests,        \* the actions users ask for
  MaxConcurrent,   \* capacity of the L0 semaphore
  OtherTrials,     \* slots that other trials may hold at any moment
  MaxEvidence,     \* bound: evidence items submitted
  MaxCrashes,      \* bound: process crashes
  MaxFaults        \* bound: failing database calls and recovered panics

ASSUME CallsAssumption == NoCall \notin Calls /\ IsFiniteSet(Calls)
ASSUME ModeAssumption == Mode \in Modes
ASSUME RequestsAssumption == Requests \subseteq DOMAIN Admits
ASSUME BoundsAssumption == /\ MaxConcurrent \in Nat \ {0}
                           /\ OtherTrials \in Nat
                           /\ MaxEvidence \in Nat
                           /\ MaxCrashes \in Nat
                           /\ MaxFaults \in Nat

VARIABLES
  phase, round, status,  \* the row of court_sessions
  touched,               \* row's updated_at is later than verdict's created_at
  verdict,               \* the row of verdicts
  evidence,              \* number of evidence rows
  spoken,                \* speeches in messages: <<phase, round, side>>
  lock,                  \* holder of the session lock
  active,                \* activeCalls[session]: whose cancel func is registered
  sem,                   \* L0 slots held by this trial
  call,                  \* state of each goroutine
  booting,               \* the recovery scan of a restarted process is pending
  crashes, faults        \* how many happened, for the bounds

row == <<phase, round, status, touched>>
memory == <<lock, active, sem, call>>
disk == <<verdict, evidence, spoken>>
env == <<booting, crashes, faults>>
vars == <<row, disk, memory, env>>

MaxRounds == RoundsOf(Mode)
Rounds == 0..MaxRounds
Sides == {"prosecutor", "defender"}
Speeches == {"opening", "cross_exam", "closing"} \X Rounds \X Sides

NoVerdict == [round |-> 0, evidence |-> 0, written |-> FALSE]

PCs == {"idle", "to_opening", "opening", "cancel", "await_verdict",
        "await_continue", "await_start", "await_round", "await_evidence",
        "await_dispatch", "await_reopen", "force_skip", "interrupt", "resume", "speak", "judge",
         "decide", "finish", "refused", "closing", "deliberate", "upsert",
        "publish", "complete", "reopen", "activate", "evidence", "search"}

\* A goroutine that is not running.  next: where it goes after its speeches
\* (or after reopening); phase, round: its copy of the row; todo: the sides
\* it still has to let speak; slots: L0 slots its open withCancel scopes
\* hold; seen: the evidence loaded for the verdict.
Idle == [pc |-> "idle", next |-> "return", phase |-> "idle", round |-> 0,
         todo |-> {}, slots |-> 0, cancelled |-> FALSE, seen |-> 0]

Init ==
  /\ phase = "idle" /\ round = 0 /\ status = "active" /\ touched = FALSE
  /\ verdict = NoVerdict /\ evidence = 0 /\ spoken = {}
  /\ lock = NoCall /\ active = NoCall /\ sem = 0
  /\ call = [c \in Calls |-> Idle]
  /\ booting = FALSE /\ crashes = 0 /\ faults = 0

--------------------------------------------------------------------------------
(* Building blocks of the handlers. *)

At(c, p) == call[c].pc = p

Goto(c, p) == call' = [call EXCEPT ![c].pc = p]

\* transitionPhase: legal by the call's copy of the row, then an
\* unconditional UPDATE of the row, which also refreshes updated_at.
WriteRow(p, r) == phase' = p /\ round' = r /\ touched' = TRUE /\ UNCHANGED status

MayMove(c, p) == CanTransition(call[c].phase, p)

\* Mutant: two open withCancel scopes give back one slot.
ReturnReleasesOne(c) ==
  /\ call' = [call EXCEPT ![c] = Idle]
  /\ sem' = IF call[c].slots > 0 THEN sem - 1 ELSE sem
  /\ lock' = IF lock = c THEN NoCall ELSE lock
  /\ active' = IF call[c].slots > 0 THEN NoCall ELSE active

\* Mutant: no clearCancel on the way out.
ReturnKeepsCancel(c) ==
  /\ call' = [call EXCEPT ![c] = Idle]
  /\ sem' = sem - call[c].slots
  /\ lock' = IF lock = c THEN NoCall ELSE lock
  /\ UNCHANGED active

\* The deferred calls of a handler, run together: clearCancel (if withCancel
\* had succeeded) deletes whatever cancel function is registered, the slots
\* are released, the session lock is unlocked if this call holds it.
Return(c) ==
  /\ call' = [call EXCEPT ![c] = Idle]
  /\ sem' = sem - call[c].slots
  /\ lock' = IF lock = c THEN NoCall ELSE lock
  /\ active' = IF call[c].slots > 0 THEN NoCall ELSE active

\* withCancel takes a slot without waiting; the other trials' share of the
\* semaphore is anything up to OtherTrials.
SlotFree == sem < MaxConcurrent
SlotRefused == sem + OtherTrials >= MaxConcurrent

\* withCancel succeeded: slot taken, cancel function registered.
Enter(c, next) ==
  /\ SlotFree
  /\ sem' = sem + 1
  /\ active' = c
  /\ call' = [call EXCEPT ![c] = [next EXCEPT !.slots = call[c].slots + 1,
                                             !.cancelled = FALSE]]

--------------------------------------------------------------------------------
(* Requests: POST /start, POST /evidence, user.action and interrupt.  The    *)
(* row is read and the action validated here; the work follows in its own    *)
(* goroutine.  A submission validates later, under the lock.                 *)

FirstStep ==
  [start |-> "to_opening", restart_opening |-> "opening",
   force_skip_opening |-> "force_skip", start_cross_exam |-> "await_start",
   continue_cross_exam |-> "await_continue", skip_agent |-> "await_continue",
   direct_verdict |-> "cancel", reopen_trial |-> "await_reopen",
   dispatch_investigator |-> "await_dispatch", interrupt |-> "interrupt"]

Begin(c, p) == call' = [call EXCEPT ![c] = [Idle EXCEPT !.pc = p, !.phase = phase,
                                                       !.round = round]]

Request(c, action) ==
  /\ At(c, "idle") /\ action \in Requests
  /\ ValidateAction(phase, action)
  /\ Begin(c, FirstStep[action])
  /\ UNCHANGED <<row, disk, lock, active, sem, env>>

RequestEvidence(c) ==
  /\ At(c, "idle") /\ "submit_evidence" \in Requests
  /\ evidence + Cardinality({d \in Calls : At(d, "await_evidence") \/ At(d, "evidence")})
       < MaxEvidence
  /\ Goto(c, "await_evidence")
  /\ UNCHANGED <<row, disk, lock, active, sem, env>>

--------------------------------------------------------------------------------
(* Opening. *)

\* handler.StartTrial holds no lock: read, validate, write.
TransitionToOpening(c) ==
  /\ At(c, "to_opening") /\ MayMove(c, "opening")
  /\ WriteRow("opening", 0)
  /\ Goto(c, "opening")
  /\ UNCHANGED <<disk, lock, active, sem, env>>

RunOpeningSpeeches(c) ==
  /\ At(c, "opening")
  /\ \/ Enter(c, [Idle EXCEPT !.pc = "speak", !.phase = "opening", !.todo = Sides])
        /\ UNCHANGED lock
     \/ SlotRefused /\ Return(c)
  /\ UNCHANGED <<row, disk, env>>

\* ForceSkipOpening takes no lock either.
ForceSkipOpening(c) ==
  /\ At(c, "force_skip") /\ MayMove(c, "cross_exam")
  /\ WriteRow("cross_exam", 1)
  /\ Return(c)
  /\ UNCHANGED <<disk, env>>

--------------------------------------------------------------------------------
(* Speeches: the loop shared by opening, round, closing and resumption. *)

\* Mutant: the defender speaks first.
SpeakerDefenderFirst(c) == IF "defender" \in call[c].todo THEN "defender" ELSE "prosecutor"

Speaker(c) == IF "prosecutor" \in call[c].todo THEN "prosecutor" ELSE "defender"

\* A speech as the transcript tells it apart; only cross-examination looks at
\* the round.
Speech(c) == <<call[c].phase,
               IF call[c].phase = "cross_exam" THEN call[c].round ELSE 0, Speaker(c)>>

Heard(c) == call' = [call EXCEPT ![c].todo = @ \ {Speaker(c)}]

\* The LLM answers, unless the context was cancelled before, and the speech is
\* saved.
Speak(c) ==
  /\ At(c, "speak") /\ call[c].todo # {} /\ ~call[c].cancelled
  /\ spoken' = spoken \union {Speech(c)}
  /\ Heard(c)
  /\ UNCHANGED <<row, verdict, evidence, lock, active, sem, env>>

\* The LLM fails, the context is cancelled, the content is empty or cannot be
\* saved: closing statements are skipped, everything else gives up.
SpeakFails(c) ==
  /\ At(c, "speak") /\ call[c].todo # {}
  /\ IF call[c].next = "deliberate"
       THEN Heard(c) /\ UNCHANGED <<lock, active, sem>>
       ELSE Return(c)
  /\ UNCHANGED <<row, disk, env>>

SpeechesDone(c) ==
  /\ At(c, "speak") /\ call[c].todo = {}
  /\ IF call[c].next = "return"
       THEN Return(c)
       ELSE Goto(c, call[c].next) /\ UNCHANGED <<lock, active, sem>>
  /\ UNCHANGED <<row, disk, env>>

--------------------------------------------------------------------------------
(* Cross-examination. *)

\* Mutant: MaxRounds is not looked at.
ContinueWithoutLimit(c) ==
  /\ At(c, "await_continue") /\ lock = NoCall /\ MayMove(c, "cross_exam")
  /\ WriteRow("cross_exam", call[c].round + 1)
  /\ call' = [call EXCEPT ![c] = [@ EXCEPT !.pc = "await_round",
                          !.phase = "cross_exam", !.round = @ + 1]]
  /\ UNCHANGED <<disk, lock, active, sem, env>>

\* Mutant: the lock is still held when runCrossExamRound takes it.
ContinueKeepsLock(c) ==
  /\ At(c, "await_continue") /\ lock = NoCall /\ MayMove(c, "cross_exam")
  /\ call[c].round < MaxRounds
  /\ WriteRow("cross_exam", call[c].round + 1)
  /\ lock' = c
  /\ call' = [call EXCEPT ![c] = [@ EXCEPT !.pc = "await_round",
                          !.phase = "cross_exam", !.round = @ + 1]]
  /\ UNCHANGED <<disk, active, sem, env>>

\* continue_cross_exam and skip_agent: the lock guards only the write of the
\* row; past the last round the trial is finished after unlocking.
ContinueCrossExam(c) ==
  /\ At(c, "await_continue") /\ lock = NoCall
  /\ LET nextRound == call[c].round + 1 IN
     \/ /\ nextRound > MaxRounds
        /\ Goto(c, "finish")
        /\ UNCHANGED <<row, lock, active, sem>>
     \/ /\ nextRound <= MaxRounds /\ MayMove(c, "cross_exam")
        /\ WriteRow("cross_exam", nextRound)
        /\ call' = [call EXCEPT ![c] = [@ EXCEPT !.pc = "await_round",
                                !.phase = "cross_exam", !.round = nextRound]]
        /\ UNCHANGED <<lock, active, sem>>
     \/ /\ nextRound <= MaxRounds /\ ~MayMove(c, "cross_exam")
        /\ Return(c)
        /\ UNCHANGED row
  /\ UNCHANGED <<disk, env>>

StartCrossExam(c) ==
  /\ At(c, "await_start") /\ lock = NoCall /\ MayMove(c, "cross_exam")
  /\ WriteRow("cross_exam", 1)
  /\ call' = [call EXCEPT ![c] = [@ EXCEPT !.pc = "await_round",
                          !.phase = "cross_exam", !.round = 1]]
  /\ UNCHANGED <<disk, lock, active, sem, env>>

\* Mutant: runCrossExamRound without the session lock.
RunRoundUnlocked(c) ==
  /\ At(c, "await_round")
  /\ \/ Enter(c, [call[c] EXCEPT !.pc = "speak", !.next = "judge",
              !.todo = {s \in Sides : <<"cross_exam", call[c].round, s>> \notin spoken}])
        /\ UNCHANGED lock
     \/ SlotRefused /\ Return(c)
  /\ UNCHANGED <<row, disk, env>>

\* runCrossExamRound takes the lock again, then a slot, and finds out who has
\* spoken in the round its copy of the row names.
RunCrossExamRound(c) ==
  /\ At(c, "await_round") /\ lock = NoCall
  /\ \/ Enter(c, [call[c] EXCEPT !.pc = "speak", !.next = "judge",
              !.todo = {s \in Sides : <<"cross_exam", call[c].round, s>> \notin spoken}])
        /\ lock' = c
     \/ SlotRefused /\ Return(c)
  /\ UNCHANGED <<row, disk, env>>

\* clearCancel before the judge's assessment and the clerk's summary.
JudgeAssess(c) ==
  /\ At(c, "judge")
  /\ active' = NoCall
  /\ Goto(c, "decide")
  /\ UNCHANGED <<row, disk, lock, sem, env>>

\* Converged (never before round 2), out of rounds, or wait for the user.
DecideRound(c) ==
  /\ At(c, "decide")
  /\ \/ /\ call[c].round >= 2
        /\ touched' = TRUE
        /\ Goto(c, "finish")
        /\ UNCHANGED <<phase, round, status, lock, active, sem>>
     \/ /\ call[c].round + 1 > MaxRounds
        /\ Goto(c, "finish")
        /\ UNCHANGED <<row, lock, active, sem>>
     \/ /\ call[c].round + 1 <= MaxRounds
        /\ Return(c)
        /\ UNCHANGED row
  /\ UNCHANGED <<disk, env>>

--------------------------------------------------------------------------------
(* Verdict. *)

\* direct_verdict cancels the registered context, then waits for the lock.
CancelCall(c) ==
  /\ At(c, "cancel")
  /\ call' = [d \in Calls |->
               IF d = c THEN [call[d] EXCEPT !.pc = "await_verdict"]
               ELSE IF d = active THEN [call[d] EXCEPT !.cancelled = TRUE]
               ELSE call[d]]
  /\ UNCHANGED <<row, disk, lock, active, sem, env>>

LockForVerdict(c) ==
  /\ At(c, "await_verdict") /\ lock = NoCall
  /\ lock' = c
  /\ Goto(c, "finish")
  /\ UNCHANGED <<row, disk, active, sem, env>>

\* Mutant: any verdict, also that of before the reopening, is enough.
SkipOnAnyVerdict == phase \in {"deliberation", "verdict"} \/ status = "completed"
                    \/ verdict.written

\* shouldSkipFinishTrial, on a freshly read row.
ShouldSkipFinishTrial ==
  \/ phase \in {"deliberation", "verdict"}
  \/ status = "completed"
  \/ verdict.written /\ ~touched

\* finishTrial up to its first write.  A trial that is skipped, or that may
\* not move to closing, returns through the deferred clearCancel.  Without a
\* free slot it gives up before it has read the row.
FinishTrial(c) ==
  /\ At(c, "finish")
  /\ \/ SlotRefused /\ Goto(c, "refused") /\ UNCHANGED <<lock, active, sem>>
     \/ /\ ~ShouldSkipFinishTrial /\ MayMove(c, "closing")
        /\ Enter(c, [call[c] EXCEPT !.pc = "closing"])
        /\ UNCHANGED lock
     \/ /\ SlotFree
        /\ ShouldSkipFinishTrial \/ ~MayMove(c, "closing")
        /\ call' = [call EXCEPT ![c] = Idle]
        /\ sem' = sem - call[c].slots
        /\ lock' = IF lock = c THEN NoCall ELSE lock
        /\ active' = NoCall
  /\ UNCHANGED <<row, disk, env>>

\* ErrConcurrencyLimitExceeded goes up through the handlers, whose deferred calls
\* run, to the goroutine that ran the action.
ReportRefusal(c) ==
  /\ At(c, "refused")
  /\ Return(c)
  /\ UNCHANGED <<row, disk, env>>

\* Mutant: the round is reset when the trial is closed.
CloseTrialDropsRound(c) ==
  /\ At(c, "closing")
  /\ WriteRow("closing", 0)
  /\ call' = [call EXCEPT ![c] = [@ EXCEPT !.pc = "speak", !.phase = "closing",
                      !.round = 0, !.next = "deliberate", !.todo = Sides]]
  /\ UNCHANGED <<disk, lock, active, sem, env>>

CloseTrial(c) ==
  /\ At(c, "closing")
  /\ WriteRow("closing", call[c].round)
  /\ call' = [call EXCEPT ![c] = [@ EXCEPT !.pc = "speak", !.phase = "closing",
                                           !.next = "deliberate", !.todo = Sides]]
  /\ UNCHANGED <<disk, lock, active, sem, env>>

\* Deliberation begins; the judge decides over the evidence loaded here, or its
\* belief does when the LLM fails (see Rule of Beliefs).
Deliberate(c) ==
  /\ At(c, "deliberate")
  /\ WriteRow("deliberation", call[c].round)
  /\ call' = [call EXCEPT ![c] = [@ EXCEPT !.pc = "upsert", !.phase = "deliberation",
                                           !.seen = evidence]]
  /\ UNCHANGED <<disk, lock, active, sem, env>>

\* Mutant: a verdict that could not be written is published all the same.
UpsertIgnoresError(c) ==
  /\ At(c, "upsert")
  /\ Goto(c, "publish")
  /\ UNCHANGED <<row, disk, lock, active, sem, env>>

\* The clerk always writes a verdict, by fallback if need be.
UpsertVerdict(c) ==
  /\ At(c, "upsert")
  /\ verdict' = [round |-> call[c].round, evidence |-> call[c].seen, written |-> TRUE]
  /\ touched' = FALSE
  /\ Goto(c, "publish")
  /\ UNCHANGED <<phase, round, status, evidence, spoken, lock, active, sem, env>>

PublishVerdict(c) ==
  /\ At(c, "publish")
  /\ WriteRow("verdict", call[c].round)
  /\ Goto(c, "complete")
  /\ UNCHANGED <<disk, lock, active, sem, env>>

CompleteTrial(c) ==
  /\ At(c, "complete")
  /\ status' = "completed" /\ touched' = TRUE
  /\ Return(c)
  /\ UNCHANGED <<phase, round, disk, env>>

--------------------------------------------------------------------------------
(* Reopening, evidence, interruption. *)

\* Mutant: the status is not put back to active.
LockForReopenOnly(c) ==
  /\ At(c, "await_reopen") /\ lock = NoCall
  /\ IF phase \in {"verdict", "appeal"}
       THEN /\ lock' = c
            /\ call' = [call EXCEPT ![c] = [@ EXCEPT !.pc = "reopen", !.phase = phase,
                                            !.round = round]]
            /\ UNCHANGED <<active, sem>>
       ELSE Return(c)
  /\ UNCHANGED <<row, disk, env>>

\* reopenTrial reads the row again under the lock.
LockForReopen(c) ==
  /\ At(c, "await_reopen") /\ lock = NoCall
  /\ IF phase \in {"verdict", "appeal"}
       THEN /\ lock' = c
            /\ call' = [call EXCEPT ![c] = [@ EXCEPT !.pc = "reopen", !.phase = phase,
                 !.round = round, !.next = IF status # "active" THEN "activate"
                                                               ELSE "return"]]
            /\ UNCHANGED <<active, sem>>
       ELSE Return(c)
  /\ UNCHANGED <<row, disk, env>>

ReopenTrial(c) ==
  /\ At(c, "reopen")
  /\ WriteRow("evidence", call[c].round)
  /\ IF call[c].next = "return"
       THEN Return(c)
       ELSE Goto(c, "activate") /\ UNCHANGED <<lock, active, sem>>
  /\ UNCHANGED <<disk, env>>

ActivateTrial(c) ==
  /\ At(c, "activate")
  /\ status' = "active" /\ touched' = TRUE
  /\ Return(c)
  /\ UNCHANGED <<phase, round, disk, env>>

LockForEvidence(c) ==
  /\ At(c, "await_evidence") /\ lock = NoCall
  /\ IF ValidateAction(phase, "submit_evidence")
       THEN lock' = c /\ Goto(c, "evidence") /\ UNCHANGED <<active, sem>>
       ELSE Return(c)
  /\ UNCHANGED <<row, disk, env>>

SubmitEvidence(c) ==
  /\ At(c, "evidence")
  /\ evidence' = evidence + 1
  /\ Return(c)
  /\ UNCHANGED <<row, verdict, spoken, env>>

\* dispatch_investigator was validated before the lock, and searches under it.
LockForDispatch(c) ==
  /\ At(c, "await_dispatch") /\ lock = NoCall
  /\ lock' = c
  /\ Goto(c, "search")
  /\ UNCHANGED <<row, disk, active, sem, env>>

DispatchInvestigator(c) ==
  /\ At(c, "search")
  /\ Return(c)
  /\ UNCHANGED <<row, disk, env>>

\* Where a resumed call goes, by the phase its copy of the row names.
ResumeStep(p) == IF p \in {"opening", "closing"} THEN "resume"
                 ELSE IF p = "cross_exam" THEN "await_round" ELSE "idle"

Interrupt(c) ==
  /\ At(c, "interrupt")
  /\ active' = NoCall
  /\ call' = [d \in Calls |->
       IF d = c THEN IF ResumeStep(call[c].phase) = "idle" THEN Idle
                     ELSE [call[c] EXCEPT !.pc = ResumeStep(call[c].phase)]
       ELSE IF d = active THEN [call[d] EXCEPT !.cancelled = TRUE]
       ELSE call[d]]
  /\ UNCHANGED <<row, disk, lock, sem, env>>

\* resumeOpening and resumeClosing let one side speak, without lock and
\* without withCancel.  An opening counts any speech of the trial.
Silent(p) ==
  {s \in Sides : \A m \in spoken : m[3] = s => p = "closing" /\ m[1] # "closing"}

Resume(c) ==
  /\ At(c, "resume")
  /\ LET silent == Silent(call[c].phase)
         side == IF "prosecutor" \in silent THEN {"prosecutor"} ELSE silent
     IN call' = [call EXCEPT ![c] = [@ EXCEPT !.pc = "speak", !.next = "return",
                                               !.todo = side]]
  /\ UNCHANGED <<row, disk, lock, active, sem, env>>

--------------------------------------------------------------------------------
(* Failures. *)

Crash ==
  /\ crashes < MaxCrashes
  /\ crashes' = crashes + 1
  /\ booting' = TRUE
  /\ lock' = NoCall /\ active' = NoCall /\ sem' = 0
  /\ call' = [c \in Calls |-> Idle]
  /\ UNCHANGED <<row, disk, faults>>

\* RecoverActiveSessions, started beside the HTTP server: one resumption per
\* active trial in a recoverable phase; deliberation is skipped.
Recover(c) ==
  /\ booting /\ At(c, "idle")
  /\ booting' = FALSE
  /\ IF status = "active" /\ ResumeStep(phase) # "idle"
       THEN Begin(c, ResumeStep(phase))
       ELSE UNCHANGED call
  /\ UNCHANGED <<row, disk, lock, active, sem, crashes, faults>>

\* A database call fails (or a round panics and is recovered): the handler
\* returns the error.  A speech that cannot be saved is in SpeakFails.
Abort(c) ==
  /\ faults < MaxFaults
  /\ call[c].pc \notin {"idle", "finish", "refused", "cancel", "speak"}
  /\ faults' = faults + 1
  /\ Return(c)
  /\ UNCHANGED <<row, disk, booting, crashes>>

--------------------------------------------------------------------------------
Step(c) ==
  \/ TransitionToOpening(c) \/ RunOpeningSpeeches(c) \/ ForceSkipOpening(c)
  \/ Speak(c) \/ SpeakFails(c) \/ SpeechesDone(c)
  \/ ContinueCrossExam(c) \/ StartCrossExam(c) \/ RunCrossExamRound(c)
  \/ JudgeAssess(c) \/ DecideRound(c)
  \/ CancelCall(c) \/ LockForVerdict(c) \/ FinishTrial(c) \/ ReportRefusal(c)
  \/ CloseTrial(c) \/ Deliberate(c) \/ UpsertVerdict(c) \/ PublishVerdict(c) \/ CompleteTrial(c)
  \/ LockForReopen(c) \/ ReopenTrial(c) \/ ActivateTrial(c)
  \/ LockForEvidence(c) \/ SubmitEvidence(c)
  \/ LockForDispatch(c) \/ DispatchInvestigator(c)
  \/ Interrupt(c) \/ Resume(c)

Next ==
  \/ \E c \in Calls, action \in DOMAIN FirstStep : Request(c, action)
  \/ \E c \in Calls : RequestEvidence(c)
  \/ \E c \in Calls : Step(c)
  \/ \E c \in Calls : Recover(c) \/ Abort(c)
  \/ Crash

Spec == Init /\ [][Next]_vars

\* A goroutine keeps running: LLM and database calls return or time out, and
\* lockSession polls.  Users, crashes and faults are not obliged to happen.
Fairness == \A c \in Calls : WF_vars(Step(c)) /\ WF_vars(Recover(c))

FairSpec == Spec /\ Fairness

--------------------------------------------------------------------------------
(* Properties of any number of concurrent calls, crashes and faults. *)

\* The state of a goroutine.
CallType ==
  [pc : PCs, next : {"return", "judge", "deliberate", "activate"},
   phase : Phases, round : Rounds, todo : SUBSET Sides, slots : 0..2,
   cancelled : BOOLEAN, seen : Nat]

\* Every variable has its type; in particular the round of the row and of every
\* copy of it stays within the mode's rounds (service.go, the nextRound guards).
TypeOK ==
  /\ phase \in Phases /\ round \in Rounds /\ status \in {"active", "completed"}
  /\ touched \in BOOLEAN
  /\ verdict \in [round : Rounds, evidence : Nat, written : BOOLEAN]
  /\ evidence \in Nat /\ spoken \subseteq Speeches
  /\ lock \in Calls \union {NoCall} /\ active \in Calls \union {NoCall}
  /\ sem \in Int
  /\ call \in [Calls -> CallType]
  /\ booting \in BOOLEAN
  /\ crashes \in 0..MaxCrashes /\ faults \in 0..MaxFaults

\* Whatever overlaps or crashes, no side is made to speak twice in a round of
\* cross-examination: runCrossExamRound's reading of the transcript stays true
\* until the speech is saved.
NoSpeechTwice ==
  \A c \in Calls : At(c, "speak") /\ call[c].next = "judge" =>
    \A s \in call[c].todo : <<"cross_exam", call[c].round, s>> \notin spoken

\* The defender answers: it speaks in a round only after the prosecutor did
\* (runCrossExamRound lets the prosecutor speak first, also when it resumes).
DefenderAnswers ==
  \A r \in Rounds : <<"cross_exam", r, "defender">> \in spoken =>
                      <<"cross_exam", r, "prosecutor">> \in spoken

\* A trial in the verdict phase, or completed, has its verdict in the database,
\* also after a crash between finishTrial's writes.
VerdictBacked ==
  phase = "verdict" \/ status = "completed" => verdict.written

\* The slots of the L0 semaphore are those of the calls that run: none is lost
\* when finishTrial runs inside a round (two withCancel scopes), is skipped,
\* refused or fails, and none is released twice.
SlotsAccounted ==
  sem = Cardinality({c \in Calls : call[c].slots >= 1})
        + Cardinality({c \in Calls : call[c].slots = 2})

\* A registered cancel function is that of a call still running (clearCancel on
\* every way out of a withCancel scope).
RegisteredCallRuns == active # NoCall => call[active].slots > 0

\* No call waits for the session lock while it holds it, as resumeCrossExam once
\* did: the mutex is not reentrant, and every handler that goes on to another one
\* that locks unlocks before, on each of its ways.
LockNotReentered ==
  \A c \in Calls : lock = c =>
    call[c].pc \notin {"await_verdict", "await_continue", "await_start", "await_round",
                      "await_evidence", "await_dispatch", "await_reopen"}

--------------------------------------------------------------------------------
(* Properties of requests that do not overlap (one call at a time). *)

\* The row, the verdict and the evidence move as TrialLifecycle says, also when
\* the process crashes or database calls fail half way: rounds go forward by
\* one, the round is kept from closing to reopening, a published verdict weighs
\* all the evidence, completion follows publication.
Lifecycle == INSTANCE TrialLifecycle
  WITH MaxRounds <- MaxRounds, phase <- phase, round <- round, status <- status,
       verdict <- verdict, evidence <- evidence
ImplementsLifecycle == Lifecycle!Spec

\* Without crashes and faults, a completed trial is in the verdict phase: what
\* reopenTrial and finishTrial write one after the other belongs together.
CompletedMeansVerdict ==
  status = "completed" /\ lock = NoCall /\ crashes + faults = 0 => phase = "verdict"

\* Without crashes and faults, an accepted direct_verdict ends in a completed
\* trial, also the second time, after reopen_trial (shouldSkipFinishTrial must
\* not take the new verdict for the old one), unless finishTrial finds all the
\* slots of the L0 semaphore taken and returns ErrConcurrencyLimitExceeded.
DirectVerdictDelivers ==
  \A c \in Calls :
    At(c, "cancel") ~> \/ phase = "verdict" /\ status = "completed" /\ At(c, "idle")
                       \/ At(c, "refused")
                       \/ crashes + faults > 0
================================================================================
