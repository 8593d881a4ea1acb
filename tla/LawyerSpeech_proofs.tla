-------------------------- MODULE LawyerSpeech_proofs --------------------------
(***************************************************************************)
(* What TLAPS proves of a lawyer's speech (LawyerSpeech), for any evidence *)
(* and any number of turns and retries.                                    *)
(*                                                                         *)
(* None of the properties is inductive: each speaks of the speech that is  *)
(* recorded, and what makes it true happens several guards earlier.  The   *)
(* invariant says for every place of the loop what the speech may have     *)
(* cost (Cost), whether a text the user saw is still there or set aside    *)
(* (Shown), what the judge left (Judged) and what the rebuttal guard left  *)
(* (Checked), and that without the repository of rebuttals there are none. *)
(***************************************************************************)
EXTENDS LawyerSpeech, TLAPS

\* A text that may be set aside.
Texts == {"none", "fresh", "repeat"}
\* The guards that leave flags.
Flags == {"stance", "novelty", "rebuttal"}

\* What TypeOK says of the speech being made.
Runs == [pc : Places, by : Lawyers, out : Speeches, spare : Texts,
         iter : 0..MaxIterations, tries : Nat, calls : Nat,
         late : BOOLEAN, streamed : BOOLEAN, cleared : BOOLEAN, later : BOOLEAN,
         blind : BOOLEAN, react : BOOLEAN, flags : SUBSET Flags]

\* How many calls a speech may have cost where it is, and how often the guard it
\* is at has asked for another.
Cost(r) ==
  /\ r.pc = "idle" => r.calls = 0
  /\ r.pc = "think" => r.calls <= 2 * r.iter
  /\ r.pc = "reparse" => r.calls <= 2 * r.iter + 1 /\ r.iter < MaxIterations
  /\ r.pc \in {"stream", "fallback"} => r.calls <= 2 * MaxIterations
  /\ r.pc = "validate" => r.calls <= 2 * MaxIterations + 1
  /\ r.pc = "hook" => r.calls <= 2 * MaxIterations + 2
  /\ r.pc = "stance" => r.calls <= 2 * MaxIterations + 2 + 2 * r.tries /\ r.tries <= StanceRetries
  /\ r.pc = "restance" => r.calls <= 2 * MaxIterations + 3 + 2 * r.tries /\ r.tries < StanceRetries
  /\ r.pc = "novelty" =>
       r.calls <= 2 * MaxIterations + 3 + 2 * StanceRetries + r.tries /\ r.tries <= NoveltyRetries
  /\ r.pc = "rebuttal" =>
       /\ r.calls <= 2 * MaxIterations + 3 + 2 * StanceRetries + NoveltyRetries + r.tries
       /\ r.tries <= RebuttalRetries
  /\ r.pc \in {"record", "save"} =>
       r.calls <= 2 * MaxIterations + 3 + 2 * StanceRetries + NoveltyRetries + RebuttalRetries

\* A text the user watched being typed is in the speech, or set aside for it, unless
\* a guard replaced it by a blank one.
Shown(r) ==
  /\ r.pc \in {"idle", "think", "reparse", "stream", "fallback"} => ~r.streamed
  /\ r.pc = "validate" /\ r.streamed => ~Blank(r.out) \/ r.spare # "none"
  /\ r.pc \in {"hook", "stance", "restance", "novelty", "rebuttal", "record", "save"} /\ r.streamed
       => ~Blank(r.out)

\* Past the stance guard, the speech is consistent with its speaker's belief, cleared
\* or flagged, unless a later guard replaced it.
Judged(r) ==
  r.pc \in {"novelty", "rebuttal", "record", "save"} /\ r.react /\ ~r.later =>
    StanceConsistent(r.by, r.out) \/ r.cleared \/ "stance" \in r.flags

\* Past the rebuttal guard, the speech cites nothing rebutted, or is flagged, or the
\* links could not be read.
Checked(r) ==
  r.pc \in {"record", "save"} /\ r.react => Cited(r.out) = {} \/ "rebuttal" \in r.flags \/ r.blind

\* What holds of the run at every place.
RunInv(r) == r \in Runs /\ Cost(r) /\ Shown(r) /\ Judged(r) /\ Checked(r)

\* What holds of the court.
Court ==
  /\ wired \in BOOLEAN
  /\ links \subseteq Evidence /\ spoken \subseteq Lawyers
  /\ belief \in [Lawyers -> 5..95]
  /\ thinking \subseteq Lawyers
  /\ tried \in 0..MaxSpeeches
  /\ ~wired => links = {}

\* The inductive invariant.
SpeechInv == Court /\ RunInv(run)

\* What SpeechAssumption says of the numbers.
LEMMA Constants ==
  /\ MaxIterations \in Nat /\ MaxIterations > 0
  /\ StanceRetries \in Nat /\ NoveltyRetries \in Nat /\ RebuttalRetries \in Nat
  /\ MaxSpeeches \in Nat /\ StartBeliefs \subseteq 5..95
  BY SpeechAssumption

--------------------------------------------------------------------------------
(* Speeches. *)

\* The fields of a speech have their types (AgentOutput).
LEMMA SpeechFields ==
  ASSUME NEW s \in Speeches
  PROVE  /\ s.text \in {"blank", "fresh", "repeat"} /\ s.flaw \in {"none", "claims", "form"}
         /\ s.refs \in AtMostOne(Evidence \cup {Invented})
         /\ s.stance \in Stances \cup {"neutral", "pro_a", "pro_b"}
  BY DEF Speeches, Texts

\* The speech not yet made is a speech.
LEMMA NothingOK == Nothing \in Speeches
<1>1. {} \in AtMostOne(Evidence \cup {Invented})
  BY DEF AtMostOne
<1>2. QED
  BY <1>1 DEF Nothing, Speeches

\* What the guards pass on keeps the text, the references and the stance.
LEMMA SpeakerOK ==
  ASSUME NEW s \in Speeches
  PROVE  /\ Speaker(s) \in Speeches /\ Speaker(s).text = s.text
         /\ Speaker(s).refs = s.refs /\ Speaker(s).stance = s.stance
<1>1. {} \in AtMostOne(Evidence \cup {Invented})
  BY DEF AtMostOne
<1>2. QED
  BY <1>1 DEF Speaker, Speeches

\* What the guards take of an answer is a speech.
LEMMA ReplacementsOK ==
  /\ \A s \in Speakers : s \in Speeches
  /\ \A s \in Replacements : s \in Speeches
<1>1. \A s \in Speakers : s \in Speeches
  BY SpeakerOK DEF Speakers, Wordings
<1>2. QED
  BY <1>1 DEF Replacements

\* The streamed text takes the place of the decision's.
LEMMA TypedOK ==
  ASSUME NEW s \in Speeches, NEW a \in Contents
  PROVE  Typed(s, a) \in Speeches /\ Typed(s, a).text = a.text
  BY DEF Typed, Speeches, Contents

\* A speech with another text is a speech.
LEMMA TextOK ==
  ASSUME NEW s \in Speeches, NEW t \in {"blank", "fresh", "repeat"}
  PROVE  [s EXCEPT !.text = t] \in Speeches /\ [s EXCEPT !.text = t].text = t
  BY DEF Speeches

\* What the fallback digs out of an unreadable answer is a speech.
LEMMA SalvagedOK ==
  ASSUME NEW l \in Lawyers, NEW text \in {"fresh", "blank"}
  PROVE  Salvaged(l, text) \in Speeches
<1>1. InferStance(l) \in {"neutral", "pro_a", "pro_b"}
  BY DEF InferStance
<1>2. QED
  BY <1>1, NothingOK DEF Salvaged, Speeches

--------------------------------------------------------------------------------
(* Runs. *)

\* The fields of a run have their types.
LEMMA RunFields ==
  ASSUME NEW r \in Runs
  PROVE  /\ r.pc \in Places /\ r.by \in Lawyers /\ r.out \in Speeches /\ r.spare \in Texts
         /\ r.iter \in 0..MaxIterations /\ r.tries \in Nat /\ r.calls \in Nat
         /\ r.late \in BOOLEAN /\ r.streamed \in BOOLEAN /\ r.cleared \in BOOLEAN
         /\ r.later \in BOOLEAN /\ r.blind \in BOOLEAN /\ r.react \in BOOLEAN
         /\ r.flags \in SUBSET Flags
  BY DEF Runs

\* Between speeches nothing is spent, shown or settled.
LEMMA IdleOK == Idle \in Runs /\ RunInv(Idle)
<1>1. Nothing \in Speeches /\ {} \in SUBSET Flags /\ "prosecutor" \in Lawyers /\ "idle" \in Places
  BY NothingOK DEF Lawyers, Places
<1>2. Idle \in Runs
  BY <1>1, Constants DEF Idle, Runs, Texts
<1>3. Idle.pc = "idle" /\ Idle.calls = 0 /\ ~Idle.streamed
  BY DEF Idle
<1>4. QED
  BY <1>2, <1>3 DEF RunInv, Cost, Shown, Judged, Checked

\* Going on changes the place alone.
LEMMA GotoOK ==
  ASSUME NEW r \in Runs, NEW pc \in Places
  PROVE  LET q == [r EXCEPT !.pc = pc]
         IN /\ q \in Runs /\ q.pc = pc /\ q.by = r.by /\ q.out = r.out /\ q.spare = r.spare
            /\ q.iter = r.iter /\ q.tries = r.tries /\ q.calls = r.calls /\ q.late = r.late
            /\ q.streamed = r.streamed /\ q.cleared = r.cleared /\ q.later = r.later
            /\ q.blind = r.blind /\ q.react = r.react /\ q.flags = r.flags
  BY DEF Runs

\* A call counts one and changes nothing else.
LEMMA CallOK ==
  ASSUME NEW r \in Runs
  PROVE  LET q == Call(r)
         IN /\ q \in Runs /\ q.pc = r.pc /\ q.by = r.by /\ q.out = r.out /\ q.spare = r.spare
            /\ q.iter = r.iter /\ q.tries = r.tries /\ q.calls = r.calls + 1 /\ q.late = r.late
            /\ q.streamed = r.streamed /\ q.cleared = r.cleared /\ q.later = r.later
            /\ q.blind = r.blind /\ q.react = r.react /\ q.flags = r.flags
  BY DEF Call, Runs

\* Entering a guard's loop changes the place and starts its count.
LEMMA EnterOK ==
  ASSUME NEW r \in Runs, NEW pc \in Places
  PROVE  LET q == [[r EXCEPT !.tries = 0] EXCEPT !.pc = pc]
         IN /\ q \in Runs /\ q.pc = pc /\ q.by = r.by /\ q.out = r.out /\ q.spare = r.spare
            /\ q.iter = r.iter /\ q.tries = 0 /\ q.calls = r.calls /\ q.late = r.late
            /\ q.streamed = r.streamed /\ q.cleared = r.cleared /\ q.later = r.later
            /\ q.blind = r.blind /\ q.react = r.react /\ q.flags = r.flags
<1> DEFINE p == [r EXCEPT !.tries = 0]
<1>1. /\ p \in Runs /\ p.by = r.by /\ p.out = r.out /\ p.spare = r.spare
      /\ p.iter = r.iter /\ p.tries = 0 /\ p.calls = r.calls /\ p.late = r.late
      /\ p.streamed = r.streamed /\ p.cleared = r.cleared /\ p.later = r.later
      /\ p.blind = r.blind /\ p.react = r.react /\ p.flags = r.flags
  BY DEF Runs
<1> HIDE DEF p
<1>2. QED
  BY <1>1, GotoOK DEF p

\* Another speech changes nothing else of the run.
LEMMA OutOK ==
  ASSUME NEW r \in Runs, NEW s \in Speeches
  PROVE  LET q == [r EXCEPT !.out = s]
         IN /\ q \in Runs /\ q.pc = r.pc /\ q.by = r.by /\ q.out = s /\ q.spare = r.spare
            /\ q.iter = r.iter /\ q.tries = r.tries /\ q.calls = r.calls /\ q.late = r.late
            /\ q.streamed = r.streamed /\ q.cleared = r.cleared /\ q.later = r.later
            /\ q.blind = r.blind /\ q.react = r.react /\ q.flags = r.flags
  BY DEF Runs

\* A flag is added and nothing else changes.
LEMMA FlaggedOK ==
  ASSUME NEW r \in Runs, NEW flag \in Flags
  PROVE  LET q == Flagged(r, flag)
         IN /\ q \in Runs /\ q.pc = r.pc /\ q.by = r.by /\ q.out = r.out /\ q.spare = r.spare
            /\ q.iter = r.iter /\ q.tries = r.tries /\ q.calls = r.calls /\ q.late = r.late
            /\ q.streamed = r.streamed /\ q.cleared = r.cleared /\ q.later = r.later
            /\ q.blind = r.blind /\ q.react = r.react /\ q.flags = r.flags \cup {flag}
  BY DEF Flagged, Runs

\* The judge's verdict changes nothing else of the run.
LEMMA ClearedOK ==
  ASSUME NEW r \in Runs
  PROVE  LET q == [r EXCEPT !.cleared = TRUE]
         IN /\ q \in Runs /\ q.pc = r.pc /\ q.by = r.by /\ q.out = r.out /\ q.spare = r.spare
            /\ q.iter = r.iter /\ q.tries = r.tries /\ q.calls = r.calls /\ q.late = r.late
            /\ q.streamed = r.streamed /\ q.cleared /\ q.later = r.later
            /\ q.blind = r.blind /\ q.react = r.react /\ q.flags = r.flags
  BY DEF Runs

\* A replacement costs one call and one try, and keeps what the guards did before it.
LEMMA ReplaceOK ==
  ASSUME run \in Runs, NEW s \in Speeches
  PROVE  LET q == Replace(s)
         IN /\ q \in Runs /\ q.by = run.by /\ q.out = s
            /\ q.tries = run.tries + 1 /\ q.calls = run.calls + 1
            /\ (q.streamed => ~Blank(s)) /\ q.later = run.later
            /\ q.blind = run.blind /\ q.react = run.react
<1> DEFINE p == Call(run)
           b == p.streamed /\ ~Blank(s)
<1>1. p \in Runs /\ p.calls = run.calls + 1 /\ p.by = run.by /\ p.tries = run.tries
      /\ p.streamed = run.streamed /\ p.later = run.later
      /\ p.blind = run.blind /\ p.react = run.react
  BY CallOK
<1>2. b \in BOOLEAN
  BY <1>1, RunFields
<1>3. p.tries + 1 \in Nat /\ {} \in SUBSET Flags
  BY <1>1, RunFields
<1>4. Replace(s) = [p EXCEPT !.out = s, !.flags = {}, !.tries = @ + 1, !.cleared = FALSE,
                             !.streamed = b]
  BY DEF Replace
<1>5. b => ~Blank(s)
  OBVIOUS
<1> HIDE DEF p, b
<1>6. QED
  BY <1>1, <1>2, <1>3, <1>4, <1>5 DEF Runs

\* So does one the judge never sees, and it says so.
LEMMA ReplaceLaterOK ==
  ASSUME run \in Runs, NEW s \in Speeches
  PROVE  LET q == ReplaceLater(s)
         IN /\ q \in Runs /\ q.by = run.by /\ q.out = s
            /\ q.tries = run.tries + 1 /\ q.calls = run.calls + 1
            /\ (q.streamed => ~Blank(s)) /\ q.later
            /\ q.blind = run.blind /\ q.react = run.react
<1> DEFINE p == Replace(s)
<1>1. /\ p \in Runs /\ p.by = run.by /\ p.out = s
      /\ p.tries = run.tries + 1 /\ p.calls = run.calls + 1
      /\ (p.streamed => ~Blank(s)) /\ p.later = run.later
      /\ p.blind = run.blind /\ p.react = run.react
  BY ReplaceOK
<1>2. ReplaceLater(s) = [p EXCEPT !.later = TRUE]
  BY DEF ReplaceLater
<1> HIDE DEF p
<1>3. QED
  BY <1>1, <1>2 DEF Runs

--------------------------------------------------------------------------------
(* The steps of a speech.  None but the last changes the court's state. *)

\* The court is as it was, so that what is judged by beliefs and links is.
LEMMA CourtStays ==
  ASSUME SpeechInv, UNCHANGED <<wired, links, belief>>, spoken' \subseteq Lawyers,
         thinking' \subseteq Lawyers, tried' \in 0..MaxSpeeches, RunInv(run')
  PROVE  SpeechInv'
<1>1. Court'
  BY DEF SpeechInv, Court
<1>2. RunInv(run)'
  <2>1. \A l, s : StanceConsistent(l, s)' <=> StanceConsistent(l, s)
    BY DEF StanceConsistent
  <2>2. \A s : Cited(s)' = Cited(s)
    BY DEF Cited
  <2>3. run' \in Runs /\ Cost(run') /\ Shown(run') /\ Judged(run') /\ Checked(run')
    BY DEF RunInv
  <2>4. Cost(run)' /\ Shown(run)'
    BY <2>3 DEF Cost, Shown
  <2>5. Judged(run)' /\ Checked(run)'
    BY <2>1, <2>2, <2>3 DEF Judged, Checked
  <2>6. QED
    BY <2>3, <2>4, <2>5 DEF RunInv
<1>3. QED
  BY <1>1, <1>2 DEF SpeechInv

\* A step of the run alone keeps the invariant if it keeps what is said of runs.
LEMMA RunStep ==
  ASSUME SpeechInv, CourtUnchanged, RunInv(run')
  PROVE  SpeechInv'
  BY CourtStays DEF CourtUnchanged, SpeechInv, Court

\* An error ends the run (speakWithReAct).
LEMMA FailStep == SpeechInv /\ Fail => SpeechInv'
<1> SUFFICES ASSUME SpeechInv, Fail PROVE SpeechInv'
  OBVIOUS
<1>1. RunInv(run')
  BY IdleOK DEF Fail
<1>2. QED
  BY <1>1, CourtStays DEF Fail, HideThinking, SpeechInv, Court

\* A speech begins with nothing spent.
LEMMA BeginStep == \A l \in Lawyers : SpeechInv /\ Begin(l) => SpeechInv'
<1> SUFFICES ASSUME NEW l \in Lawyers, SpeechInv, Begin(l) PROVE SpeechInv'
  OBVIOUS
<1> DEFINE q == [Idle EXCEPT !.pc = "think", !.by = l]
<1>1. /\ q \in Runs /\ q.pc = "think" /\ q.calls = 0 /\ q.iter = 0 /\ ~q.streamed
  <2>1. "think" \in Places
    BY DEF Places
  <2>2. q \in Runs
    BY <2>1, IdleOK DEF Runs
  <2>3. QED
    BY <2>2 DEF Idle
<1>2. run' = q
  BY DEF Begin
<1> HIDE DEF q
<1>3. RunInv(run')
  BY <1>1, <1>2 DEF RunInv, Cost, Shown, Judged, Checked
<1>4. tried' \in 0..MaxSpeeches /\ thinking' \subseteq Lawyers
  BY Constants DEF Begin, SpeechInv, Court
<1>5. QED
  BY <1>3, <1>4, CourtStays DEF Begin, SpeechInv, Court

\* The deadline changes no more than that it has passed.
LEMMA DeadlineStep == SpeechInv /\ Deadline => SpeechInv'
<1> SUFFICES ASSUME SpeechInv, Deadline PROVE SpeechInv'
  OBVIOUS
<1> DEFINE q == [run EXCEPT !.late = TRUE]
<1>0. run \in Runs /\ RunInv(run)
  BY DEF SpeechInv, RunInv
<1>1. /\ q \in Runs /\ q.pc = run.pc /\ q.by = run.by /\ q.out = run.out /\ q.spare = run.spare
      /\ q.iter = run.iter /\ q.tries = run.tries /\ q.calls = run.calls
      /\ q.streamed = run.streamed /\ q.cleared = run.cleared /\ q.later = run.later
      /\ q.blind = run.blind /\ q.react = run.react /\ q.flags = run.flags
  BY <1>0 DEF Runs
<1>2. run' = q
  BY DEF Deadline
<1> HIDE DEF q
<1>3. RunInv(run')
  BY <1>0, <1>1, <1>2 DEF RunInv, Cost, Shown, Judged, Checked
<1>4. QED
  BY <1>3, RunStep DEF Deadline

\* What an answer makes of a run that has paid for it.
LEMMA DecideOK ==
  ASSUME NEW r \in Runs, r.iter < MaxIterations, r.calls <= 2 * r.iter + 2, ~r.streamed, Decide(r)
  PROVE  RunInv(run')
<1>0. "think" \in Places /\ "stream" \in Places
  BY DEF Places
<1>1. CASE Goto("think", [r EXCEPT !.iter = @ + 1])
  <2> DEFINE p == [r EXCEPT !.iter = @ + 1]
  <2>1. p \in Runs /\ p.iter = r.iter + 1 /\ p.calls = r.calls /\ p.streamed = r.streamed
    <3>1. r.iter + 1 \in 0..MaxIterations
      BY RunFields, Constants
    <3>2. QED
      BY <3>1 DEF Runs
  <2> HIDE DEF p
  <2>2. /\ run' \in Runs /\ run'.pc = "think" /\ run'.iter = r.iter + 1 /\ run'.calls = r.calls
        /\ ~run'.streamed
    BY <1>0, <1>1, <2>1, GotoOK DEF Goto, p
  <2>3. run'.calls <= 2 * run'.iter
    BY <2>2, RunFields
  <2>4. QED
    BY <2>2, <2>3 DEF RunInv, Cost, Shown, Judged, Checked
<1>2. ASSUME NEW s \in Answers, Goto("stream", [r EXCEPT !.out = s]) PROVE RunInv(run')
  <2>1. s \in Speeches
    BY DEF Answers, Wordings
  <2> DEFINE p == [r EXCEPT !.out = s]
  <2>p. p \in Runs /\ p.calls = r.calls /\ p.streamed = r.streamed
    BY <2>1, OutOK
  <2> HIDE DEF p
  <2>2. /\ run' \in Runs /\ run'.pc = "stream" /\ run'.calls = r.calls /\ ~run'.streamed
    BY <1>0, <1>2, <2>p, GotoOK DEF Goto, p
  <2>3. run'.calls <= 2 * MaxIterations
    BY <2>2, RunFields, Constants
  <2>4. QED
    BY <2>2, <2>3 DEF RunInv, Cost, Shown, Judged, Checked
<1>3. QED
  BY <1>1, <1>2 DEF Decide

\* A turn of the loop costs at most two calls: here the first.
LEMMA ThinkStep == SpeechInv /\ Think => SpeechInv'
<1> SUFFICES ASSUME SpeechInv, Think PROVE SpeechInv'
  OBVIOUS
<1>1. /\ run \in Runs /\ run.pc = "think" /\ run.iter < MaxIterations /\ ~run.streamed
      /\ run.calls <= 2 * run.iter /\ run.iter \in Nat /\ run.calls \in Nat
  BY RunFields DEF SpeechInv, RunInv, Cost, Shown, Think, At
<1>2. /\ Call(run) \in Runs /\ Call(run).calls = run.calls + 1 /\ Call(run).iter = run.iter
      /\ Call(run).streamed = run.streamed
  BY <1>1, CallOK
<1>3. CASE Fail
  BY <1>3, FailStep
<1>4. CASE Goto("reparse", Call(run)) /\ CourtUnchanged
  <2>1. "reparse" \in Places
    BY DEF Places
  <2>2. /\ run' \in Runs /\ run'.pc = "reparse" /\ run'.calls = run.calls + 1
        /\ run'.iter = run.iter /\ ~run'.streamed
    BY <1>1, <1>2, <1>4, <2>1, GotoOK DEF Goto
  <2>3. RunInv(run')
    BY <1>1, <2>2 DEF RunInv, Cost, Shown, Judged, Checked
  <2>4. QED
    BY <1>4, <2>3, RunStep
<1>5. CASE Decide(Call(run)) /\ CourtUnchanged
  <2>1. RunInv(run')
    BY <1>1, <1>2, <1>5, DecideOK
  <2>2. QED
    BY <1>5, <2>1, RunStep
<1>6. QED
  BY <1>3, <1>4, <1>5 DEF Think

\* The second try at an answer pays the turn's second call.
LEMMA ReparseStep == SpeechInv /\ Reparse => SpeechInv'
<1> SUFFICES ASSUME SpeechInv, Reparse PROVE SpeechInv'
  OBVIOUS
<1>1. /\ run \in Runs /\ run.pc = "reparse" /\ run.iter < MaxIterations /\ ~run.streamed
      /\ run.calls <= 2 * run.iter + 1 /\ run.iter \in Nat /\ run.calls \in Nat
  BY RunFields DEF SpeechInv, RunInv, Cost, Shown, Reparse, At
<1>2. /\ Call(run) \in Runs /\ Call(run).calls = run.calls + 1 /\ Call(run).iter = run.iter
      /\ Call(run).streamed = run.streamed
  BY <1>1, CallOK
<1>3. CASE Fail
  BY <1>3, FailStep
<1>4. CASE Decide(Call(run)) /\ CourtUnchanged
  <2>1. RunInv(run')
    BY <1>1, <1>2, <1>4, DecideOK
  <2>2. QED
    BY <1>4, <2>1, RunStep
<1>5. QED
  BY <1>3, <1>4 DEF Reparse

\* The loop is used up: an error, or the fallback with nothing shown.
LEMMA GiveUpStep == SpeechInv /\ GiveUp => SpeechInv'
<1> SUFFICES ASSUME SpeechInv, GiveUp PROVE SpeechInv'
  OBVIOUS
<1>1. /\ run \in Runs /\ run.pc = "think" /\ run.iter = MaxIterations /\ ~run.streamed
      /\ run.calls <= 2 * run.iter
  BY RunFields DEF SpeechInv, RunInv, Cost, Shown, GiveUp, At
<1>2. CASE Fail
  BY <1>2, FailStep
<1>3. CASE Goto("fallback", run) /\ CourtUnchanged
  <2>1. "fallback" \in Places
    BY DEF Places
  <2>2. /\ run' \in Runs /\ run'.pc = "fallback" /\ run'.calls = run.calls /\ ~run'.streamed
    BY <1>1, <1>3, <2>1, GotoOK DEF Goto
  <2>3. RunInv(run')
    BY <1>1, <2>2 DEF RunInv, Cost, Shown, Judged, Checked
  <2>4. QED
    BY <1>3, <2>3, RunStep
<1>4. QED
  BY <1>2, <1>3 DEF GiveUp

\* The streamed text is kept, or set aside when it is rejected.
LEMMA StreamStep == SpeechInv /\ StreamSpeech => SpeechInv'
<1> SUFFICES ASSUME SpeechInv, StreamSpeech PROVE SpeechInv'
  OBVIOUS
<1> DEFINE c == Call(run)
<1>0. "hook" \in Places /\ "validate" \in Places
  BY DEF Places
<1>1. /\ run \in Runs /\ run.pc = "stream" /\ ~run.streamed
      /\ run.calls <= 2 * MaxIterations /\ run.calls \in Nat
  BY RunFields DEF SpeechInv, RunInv, Cost, Shown, StreamSpeech, At
<1>2. /\ c \in Runs /\ c.calls = run.calls + 1 /\ c.streamed = run.streamed
      /\ c.out = run.out /\ c.out \in Speeches /\ c.spare = run.spare
  BY <1>1, CallOK, RunFields
<1>3. c.calls <= 2 * MaxIterations + 1 /\ c.calls <= 2 * MaxIterations + 2
  BY <1>1, <1>2, Constants
<1> HIDE DEF c
<1>4. CASE Goto("validate", c)
  <2>1. /\ run' \in Runs /\ run'.pc = "validate" /\ run'.calls = c.calls /\ ~run'.streamed
    BY <1>0, <1>1, <1>2, <1>4, GotoOK DEF Goto
  <2>2. RunInv(run')
    BY <1>3, <2>1 DEF RunInv, Cost, Shown, Judged, Checked
  <2>3. QED
    BY <2>2, RunStep DEF StreamSpeech
<1>5. ASSUME NEW a \in Contents,
             LET said == Typed(run.out, a)
                 r    == [c EXCEPT !.streamed = ~Blank(a)]
             IN  IF Honest(said) THEN Goto("hook", [r EXCEPT !.out = said])
                 ELSE Goto("validate", [r EXCEPT !.out.text = "blank", !.spare = a.text])
      PROVE  SpeechInv'
  <2> DEFINE said == Typed(run.out, a)
             r    == [c EXCEPT !.streamed = ~Blank(a)]
  <2>1. said \in Speeches /\ said.text = a.text /\ a.text \in {"blank", "fresh", "repeat"}
    BY <1>2, <1>5, TypedOK DEF Contents
  <2>2. /\ r \in Runs /\ (r.streamed <=> ~Blank(a)) /\ r.calls = c.calls /\ r.out = c.out
    BY <1>2 DEF Runs
  <2> HIDE DEF said, r
  <2>3. CASE Goto("hook", [r EXCEPT !.out = said])
    <3> DEFINE p == [r EXCEPT !.out = said]
    <3>1. p \in Runs /\ p.out = said /\ p.calls = c.calls /\ (p.streamed => ~Blank(said))
      BY <2>1, <2>2, OutOK DEF Blank
    <3> HIDE DEF p
    <3>2. /\ run' \in Runs /\ run'.pc = "hook" /\ run'.calls = c.calls /\ run'.out = said
          /\ (run'.streamed => ~Blank(said))
      BY <1>0, <2>3, <3>1, GotoOK DEF Goto, p
    <3>3. RunInv(run')
      BY <1>3, <2>1, <3>2 DEF RunInv, Cost, Shown, Judged, Checked
    <3>4. QED
      BY <3>3, RunStep DEF StreamSpeech
  <2>4. CASE ~Honest(said) /\ Goto("validate", [r EXCEPT !.out.text = "blank", !.spare = a.text])
    <3> DEFINE o == [r.out EXCEPT !.text = "blank"]
               p == [r EXCEPT !.out = o, !.spare = a.text]
    <3>1. o \in Speeches
      BY <1>2, <2>2, TextOK
    <3>s. a.text \in Texts /\ a.text # "none"
      BY <2>1, <2>4 DEF Honest, Blank, Texts
    <3>2. [r EXCEPT !.out.text = "blank", !.spare = a.text] = p
      BY <2>2 DEF Runs
    <3> HIDE DEF o
    <3>3. p \in Runs /\ p.spare = a.text /\ p.calls = c.calls
      BY <3>s, <2>2, <3>1 DEF Runs
    <3> HIDE DEF p
    <3>4. run' \in Runs /\ run'.pc = "validate" /\ run'.calls = c.calls /\ run'.spare = a.text
      BY <1>0, <2>4, <3>2, <3>3, GotoOK DEF Goto
    <3>5. RunInv(run')
      BY <1>3, <3>s, <3>4 DEF RunInv, Cost, Shown, Judged, Checked
    <3>6. QED
      BY <3>5, RunStep DEF StreamSpeech
  <2>5. QED
    BY <1>5, <2>3, <2>4 DEF said, r
<1>6. QED
  BY <1>4, <1>5 DEF StreamSpeech, c

\* What goes on to the hook has a text if one was typed out: the text set aside
\* comes back when the retry gives nothing.
LEMMA ValidateStep == SpeechInv /\ ValidateSpeak => SpeechInv'
<1> SUFFICES ASSUME SpeechInv, ValidateSpeak PROVE SpeechInv'
  OBVIOUS
<1> DEFINE c == Call(run)
<1>0. "hook" \in Places
  BY DEF Places
<1>1. /\ run \in Runs /\ run.pc = "validate" /\ run.out \in Speeches /\ run.spare \in Texts
      /\ run.calls <= 2 * MaxIterations + 1 /\ run.calls \in Nat
      /\ run.streamed => ~Blank(run.out) \/ run.spare # "none"
  BY RunFields DEF SpeechInv, RunInv, Cost, Shown, ValidateSpeak, At
<1>2. /\ c \in Runs /\ c.calls = run.calls + 1 /\ c.streamed = run.streamed /\ c.out = run.out
  BY <1>1, CallOK
<1>3. c.calls <= 2 * MaxIterations + 2 /\ run.calls <= 2 * MaxIterations + 2
  BY <1>1, <1>2, Constants
<1> HIDE DEF c
<1>4. ASSUME NEW r \in Runs, Goto("hook", r), r.calls <= 2 * MaxIterations + 2,
             r.streamed => ~Blank(r.out)
      PROVE  SpeechInv'
  <2>1. /\ run' \in Runs /\ run'.pc = "hook" /\ run'.calls = r.calls
        /\ run'.streamed = r.streamed /\ run'.out = r.out
    BY <1>0, <1>4, GotoOK DEF Goto
  <2>2. RunInv(run')
    BY <1>4, <2>1 DEF RunInv, Cost, Shown, Judged, Checked
  <2>3. QED
    BY <2>2, RunStep DEF ValidateSpeak
<1>5. CASE ValidSpeech(run.out) /\ Goto("hook", run)
  BY <1>1, <1>3, <1>4, <1>5 DEF ValidSpeech
<1>6. CASE Goto("hook", [c EXCEPT !.out = Restored(@)])
  <2> DEFINE o == Restored(run.out)
             r == [c EXCEPT !.out = o]
  <2>1. o \in Speeches /\ (run.streamed => ~Blank(o))
    BY <1>1, TextOK DEF Restored, Texts, Blank
  <2>2. Goto("hook", r)
    BY <1>2, <1>6
  <2> HIDE DEF o
  <2>3. r \in Runs /\ r.out = o /\ r.calls = c.calls /\ r.streamed = c.streamed
    BY <1>2, <2>1, OutOK
  <2> HIDE DEF r
  <2>4. QED
    BY <1>2, <1>3, <1>4, <2>1, <2>2, <2>3
<1>7. ASSUME NEW s \in Answers, ValidSpeech(s), Goto("hook", [c EXCEPT !.out = s])
      PROVE  SpeechInv'
  <2> DEFINE r == [c EXCEPT !.out = s]
  <2>1. s \in Speeches /\ ~Blank(s)
    BY <1>7 DEF Answers, Wordings, ValidSpeech
  <2>2. r \in Runs /\ r.out = s /\ r.calls = c.calls /\ r.streamed = c.streamed
    BY <1>2, <2>1, OutOK
  <2>3. Goto("hook", r)
    BY <1>7
  <2> HIDE DEF r
  <2>4. QED
    BY <1>3, <1>4, <2>1, <2>2, <2>3
<1>8. QED
  BY <1>5, <1>6, <1>7 DEF ValidateSpeak, c

\* The hook alone writes links, before any guard has settled anything.
LEMMA HookStep == SpeechInv /\ RebuttalHook => SpeechInv'
<1> SUFFICES ASSUME SpeechInv, RebuttalHook PROVE SpeechInv'
  OBVIOUS
<1> DEFINE o == Speaker(run.out)
           r == [run EXCEPT !.out = o, !.spare = "none"]
<1>0. "stance" \in Places
  BY DEF Places
<1>1. /\ run \in Runs /\ run.pc = "hook" /\ run.out \in Speeches
      /\ run.calls <= 2 * MaxIterations + 2 /\ run.calls \in Nat
      /\ run.streamed => ~Blank(run.out)
  BY RunFields DEF SpeechInv, RunInv, Cost, Shown, RebuttalHook, At
<1>2. o \in Speeches /\ (Blank(run.out) <=> Blank(o))
  BY <1>1, SpeakerOK DEF Blank
<1>3. Enter("stance", r)
  BY <1>1 DEF RebuttalHook
<1> HIDE DEF o
<1>4. r \in Runs /\ r.out = o /\ r.calls = run.calls /\ r.streamed = run.streamed
  BY <1>1, <1>2 DEF Runs, Texts
<1> HIDE DEF r
<1>5. /\ run' \in Runs /\ run'.pc = "stance" /\ run'.calls = run.calls /\ run'.tries = 0
      /\ run'.streamed = run.streamed /\ run'.out = o
  BY <1>0, <1>3, <1>4, EnterOK DEF Enter, Goto
<1>6. RunInv(run)'
  BY <1>1, <1>2, <1>5, Constants DEF RunInv, Cost, Shown, Judged, Checked
<1>7. Court'
  <2>1. Stored(run.out) \subseteq Evidence /\ (~wired => Stored(run.out) = {})
    BY DEF Stored, Declared
  <2>2. links' = links \cup Stored(run.out) /\ UNCHANGED <<wired, spoken, belief, thinking, tried>>
    BY DEF RebuttalHook
  <2>3. QED
    BY <2>1, <2>2 DEF Court, SpeechInv
<1>8. QED
  BY <1>6, <1>7 DEF SpeechInv

--------------------------------------------------------------------------------
(* The guards. *)

\* The stance guard lets the speech pass.
LEMMA PassStance ==
  ASSUME SpeechInv, CourtUnchanged, NEW r \in Runs, Enter("novelty", r),
         r.calls <= 2 * MaxIterations + 3 + 2 * StanceRetries,
         r.streamed => ~Blank(r.out),
         ~r.later => StanceConsistent(r.by, r.out) \/ r.cleared \/ "stance" \in r.flags
  PROVE  SpeechInv'
<1>1. "novelty" \in Places
  BY DEF Places
<1>2. /\ run' \in Runs /\ run'.pc = "novelty" /\ run'.calls = r.calls /\ run'.tries = 0
      /\ run'.streamed = r.streamed /\ run'.out = r.out /\ run'.by = r.by
      /\ run'.later = r.later /\ run'.cleared = r.cleared /\ run'.flags = r.flags
  BY <1>1, EnterOK DEF Enter, Goto
<1>3. r.calls \in Nat
  BY RunFields
<1>4. RunInv(run')
  BY <1>2, <1>3, Constants DEF RunInv, Cost, Shown, Judged, Checked
<1>5. QED
  BY <1>4, RunStep

\* The stance guard passes on a consistent, cleared or flagged speech.
LEMMA JudgeStep == SpeechInv /\ StanceJudge => SpeechInv'
<1> SUFFICES ASSUME SpeechInv, StanceJudge PROVE SpeechInv'
  OBVIOUS
<1> DEFINE c == Call(run)
<1>1. /\ run \in Runs /\ run.pc = "stance" /\ run.calls \in Nat /\ run.tries \in Nat
      /\ run.calls <= 2 * MaxIterations + 2 + 2 * run.tries /\ run.tries <= StanceRetries
      /\ run.streamed => ~Blank(run.out)
      /\ CourtUnchanged
  BY RunFields DEF SpeechInv, RunInv, Cost, Shown, StanceJudge, At
<1>2. /\ c \in Runs /\ c.calls = run.calls + 1 /\ c.streamed = run.streamed /\ c.out = run.out
      /\ c.by = run.by /\ c.later = run.later /\ c.tries = run.tries
  BY <1>1, CallOK
<1>3. /\ run.calls <= 2 * MaxIterations + 3 + 2 * StanceRetries
      /\ c.calls <= 2 * MaxIterations + 3 + 2 * StanceRetries
  BY <1>1, <1>2, Constants
<1> HIDE DEF c
<1>4. CASE StanceConsistent(run.by, run.out) /\ Enter("novelty", run)
  BY <1>1, <1>3, <1>4, PassStance
<1>5. CASE Enter("novelty", Flagged(c, "stance"))
  <2> DEFINE r == Flagged(c, "stance")
  <2>1. /\ r \in Runs /\ r.calls = c.calls /\ r.streamed = c.streamed /\ r.out = c.out
        /\ "stance" \in r.flags
    BY <1>2, FlaggedOK DEF Flags
  <2> HIDE DEF r
  <2>2. Enter("novelty", r)
    BY <1>5 DEF r
  <2>3. QED
    BY <1>1, <1>2, <1>3, <2>1, <2>2, PassStance
<1>6. CASE Enter("novelty", [run EXCEPT !.cleared = TRUE])
  <2> DEFINE r == [run EXCEPT !.cleared = TRUE]
  <2>1. /\ r \in Runs /\ r.calls = run.calls /\ r.streamed = run.streamed /\ r.out = run.out
        /\ r.cleared
    BY <1>1, ClearedOK
  <2>2. Enter("novelty", r)
    BY <1>6
  <2> HIDE DEF r
  <2>3. QED
    BY <1>1, <1>3, <2>1, <2>2, PassStance
<1>7. CASE Enter("novelty", [c EXCEPT !.cleared = TRUE])
  <2> DEFINE r == [c EXCEPT !.cleared = TRUE]
  <2>1. /\ r \in Runs /\ r.calls = c.calls /\ r.streamed = c.streamed /\ r.out = c.out
        /\ r.cleared
    BY <1>2, ClearedOK
  <2>2. Enter("novelty", r)
    BY <1>7
  <2> HIDE DEF r
  <2>3. QED
    BY <1>1, <1>2, <1>3, <2>1, <2>2, PassStance
<1>8. CASE Goto("restance", c) /\ run.tries < StanceRetries
  <2>1. "restance" \in Places
    BY DEF Places
  <2>2. /\ run' \in Runs /\ run'.pc = "restance" /\ run'.calls = c.calls
        /\ run'.tries = c.tries /\ run'.streamed = c.streamed /\ run'.out = c.out
    BY <1>2, <1>8, <2>1, GotoOK DEF Goto
  <2>3. run'.calls <= 2 * MaxIterations + 3 + 2 * run'.tries /\ run'.tries < StanceRetries
    BY <1>1, <1>2, <1>8, <2>2, Constants
  <2>4. RunInv(run')
    BY <1>1, <1>2, <2>2, <2>3 DEF RunInv, Cost, Shown, Judged, Checked
  <2>5. QED
    BY <1>1, <2>4, RunStep
<1>9. QED
  BY <1>4, <1>5, <1>6, <1>7, <1>8 DEF StanceJudge, c

\* Its replacement goes back to the judge, which asks at most StanceRetries times.
LEMMA RestanceStep == SpeechInv /\ StanceRetry => SpeechInv'
<1> SUFFICES ASSUME SpeechInv, StanceRetry PROVE SpeechInv'
  OBVIOUS
<1> DEFINE c == Call(run)
<1>1. /\ run \in Runs /\ run.pc = "restance" /\ run.calls \in Nat /\ run.tries \in Nat
      /\ run.calls <= 2 * MaxIterations + 3 + 2 * run.tries /\ run.tries < StanceRetries
      /\ run.streamed => ~Blank(run.out)
      /\ CourtUnchanged
  BY RunFields DEF SpeechInv, RunInv, Cost, Shown, StanceRetry, At
<1>2. CASE Enter("novelty", Flagged(c, "stance"))
  <2>1. c \in Runs /\ c.calls = run.calls + 1 /\ c.streamed = run.streamed /\ c.out = run.out
    BY <1>1, CallOK
  <2>2. c.calls <= 2 * MaxIterations + 3 + 2 * StanceRetries
    BY <1>1, <2>1, Constants
  <2> HIDE DEF c
  <2> DEFINE r == Flagged(c, "stance")
  <2>3. /\ r \in Runs /\ r.calls = c.calls /\ r.streamed = c.streamed /\ r.out = c.out
        /\ "stance" \in r.flags
    BY <2>1, FlaggedOK DEF Flags
  <2> HIDE DEF r
  <2>4. Enter("novelty", r)
    BY <1>2 DEF r
  <2>5. QED
    BY <1>1, <2>1, <2>2, <2>3, <2>4, PassStance
<1>3. ASSUME NEW s \in Replacements, Goto("stance", Replace(s)) PROVE SpeechInv'
  <2>1. s \in Speeches
    BY ReplacementsOK
  <2> DEFINE r == Replace(s)
  <2>2. /\ r \in Runs /\ r.out = s /\ r.tries = run.tries + 1
        /\ r.calls = run.calls + 1 /\ (r.streamed => ~Blank(s))
    BY <1>1, <2>1, ReplaceOK
  <2> HIDE DEF r
  <2>3. "stance" \in Places
    BY DEF Places
  <2>4. /\ run' \in Runs /\ run'.pc = "stance" /\ run'.calls = r.calls
        /\ run'.tries = r.tries /\ run'.out = r.out
        /\ run'.streamed = r.streamed
    BY <1>3, <2>2, <2>3, GotoOK DEF Goto, r
  <2>5. run'.calls <= 2 * MaxIterations + 2 + 2 * run'.tries /\ run'.tries <= StanceRetries
    BY <1>1, <2>2, <2>4, Constants
  <2>6. RunInv(run')
    BY <2>2, <2>4, <2>5 DEF RunInv, Cost, Shown, Judged, Checked
  <2>7. QED
    BY <1>1, <2>6, RunStep
<1>4. QED
  BY <1>2, <1>3 DEF StanceRetry

\* The novelty guard lets the speech pass.
LEMMA PassNovelty ==
  ASSUME SpeechInv, CourtUnchanged, NEW r \in Runs, Enter("rebuttal", r),
         r.calls <= 2 * MaxIterations + 3 + 2 * StanceRetries + NoveltyRetries,
         r.streamed => ~Blank(r.out),
         r.react /\ ~r.later => StanceConsistent(r.by, r.out) \/ r.cleared \/ "stance" \in r.flags
  PROVE  SpeechInv'
<1>1. "rebuttal" \in Places
  BY DEF Places
<1>2. /\ run' \in Runs /\ run'.pc = "rebuttal" /\ run'.calls = r.calls /\ run'.tries = 0
      /\ run'.streamed = r.streamed /\ run'.out = r.out /\ run'.by = r.by
      /\ run'.later = r.later /\ run'.cleared = r.cleared /\ run'.flags = r.flags
      /\ run'.react = r.react
  BY <1>1, EnterOK DEF Enter, Goto
<1>3. r.calls \in Nat
  BY RunFields
<1>4. RunInv(run')
  BY <1>2, <1>3, Constants DEF RunInv, Cost, Shown, Judged, Checked
<1>5. QED
  BY <1>4, RunStep

\* The novelty guard keeps the judge's verdict or replaces the speech.
LEMMA NoveltyStep == SpeechInv /\ NoveltyGuard => SpeechInv'
<1> SUFFICES ASSUME SpeechInv, NoveltyGuard PROVE SpeechInv'
  OBVIOUS
<1> DEFINE c == Call(run)
<1>1. /\ run \in Runs /\ run.pc = "novelty" /\ run.calls \in Nat /\ run.tries \in Nat
      /\ run.calls <= 2 * MaxIterations + 3 + 2 * StanceRetries + run.tries
      /\ run.tries <= NoveltyRetries
      /\ run.streamed => ~Blank(run.out)
      /\ run.react /\ ~run.later =>
           StanceConsistent(run.by, run.out) \/ run.cleared \/ "stance" \in run.flags
      /\ CourtUnchanged
  BY RunFields DEF SpeechInv, RunInv, Cost, Shown, Judged, NoveltyGuard, At
<1>2. /\ c \in Runs /\ c.calls = run.calls + 1 /\ c.streamed = run.streamed /\ c.out = run.out
      /\ c.by = run.by /\ c.later = run.later /\ c.cleared = run.cleared /\ c.react = run.react
      /\ c.flags = run.flags
  BY <1>1, CallOK
<1> HIDE DEF c
<1>3. /\ run.calls <= 2 * MaxIterations + 3 + 2 * StanceRetries + NoveltyRetries
      /\ run.tries < NoveltyRetries =>
           c.calls <= 2 * MaxIterations + 3 + 2 * StanceRetries + NoveltyRetries
  BY <1>1, <1>2, Constants
<1>4. CASE Enter("rebuttal", run)
  BY <1>1, <1>3, <1>4, PassNovelty
<1>5. ASSUME NEW b \in Runs, Enter("rebuttal", Flagged(b, "novelty")),
             b.calls <= 2 * MaxIterations + 3 + 2 * StanceRetries + NoveltyRetries,
             b.streamed = run.streamed, b.out = run.out, b.by = run.by, b.later = run.later,
             b.cleared = run.cleared, b.react = run.react, b.flags = run.flags
      PROVE  SpeechInv'
  <2> DEFINE r == Flagged(b, "novelty")
  <2>1. /\ r \in Runs /\ r.calls = b.calls /\ r.streamed = b.streamed /\ r.out = b.out
        /\ r.by = b.by /\ r.later = b.later /\ r.cleared = b.cleared /\ r.react = b.react
        /\ r.flags = b.flags \cup {"novelty"}
    BY <1>5, FlaggedOK DEF Flags
  <2> HIDE DEF r
  <2>2. Enter("rebuttal", r)
    BY <1>5 DEF r
  <2>3. QED
    BY <1>1, <1>5, <2>1, <2>2, PassNovelty
<1>6. CASE run.tries = NoveltyRetries /\ Enter("rebuttal", Flagged(run, "novelty"))
  BY <1>1, <1>3, <1>5, <1>6
<1>7. CASE run.tries # NoveltyRetries /\ Enter("rebuttal", Flagged(c, "novelty"))
  <2>1. run.tries < NoveltyRetries
    BY <1>1, <1>7, Constants
  <2>2. QED
    BY <1>2, <1>3, <1>5, <1>7, <2>1
<1>8. ASSUME NEW s \in Replacements, Goto("novelty", ReplaceLater(s)), run.tries # NoveltyRetries
      PROVE  SpeechInv'
  <2>1. s \in Speeches
    BY ReplacementsOK
  <2> DEFINE r == ReplaceLater(s)
  <2>2. /\ r \in Runs /\ r.out = s /\ r.tries = run.tries + 1
        /\ r.calls = run.calls + 1 /\ (r.streamed => ~Blank(s)) /\ r.later
    BY <1>1, <2>1, ReplaceLaterOK
  <2> HIDE DEF r
  <2>3. "novelty" \in Places
    BY DEF Places
  <2>4. /\ run' \in Runs /\ run'.pc = "novelty" /\ run'.calls = r.calls
        /\ run'.tries = r.tries /\ run'.out = r.out /\ run'.later = r.later
        /\ run'.streamed = r.streamed
    BY <1>8, <2>2, <2>3, GotoOK DEF Goto, r
  <2>5. /\ run'.calls <= 2 * MaxIterations + 3 + 2 * StanceRetries + run'.tries
        /\ run'.tries <= NoveltyRetries
    BY <1>1, <1>8, <2>2, <2>4, Constants
  <2>6. RunInv(run')
    BY <2>2, <2>4, <2>5 DEF RunInv, Cost, Shown, Judged, Checked
  <2>7. QED
    BY <1>1, <2>6, RunStep
<1>9. QED
  BY <1>4, <1>6, <1>7, <1>8 DEF NoveltyGuard, c

\* The rebuttal guard lets the speech pass.
LEMMA PassRebuttal ==
  ASSUME SpeechInv, CourtUnchanged, NEW r \in Runs, Goto("record", r),
         r.calls <= 2 * MaxIterations + 3 + 2 * StanceRetries + NoveltyRetries + RebuttalRetries,
         r.streamed => ~Blank(r.out),
         r.react /\ ~r.later => StanceConsistent(r.by, r.out) \/ r.cleared \/ "stance" \in r.flags,
         r.react => Cited(r.out) = {} \/ "rebuttal" \in r.flags \/ r.blind
  PROVE  SpeechInv'
<1>1. "record" \in Places
  BY DEF Places
<1>2. /\ run' \in Runs /\ run'.pc = "record" /\ run'.calls = r.calls
      /\ run'.streamed = r.streamed /\ run'.out = r.out /\ run'.by = r.by
      /\ run'.later = r.later /\ run'.cleared = r.cleared /\ run'.flags = r.flags
      /\ run'.react = r.react /\ run'.blind = r.blind
  BY <1>1, GotoOK DEF Goto
<1>3. RunInv(run')
  BY <1>2 DEF RunInv, Cost, Shown, Judged, Checked
<1>4. QED
  BY <1>3, RunStep

\* The rebuttal guard looks at the speech that is recorded, also at its own last
\* replacement.
LEMMA RebuttalStep == SpeechInv /\ RebuttalGuard => SpeechInv'
<1> SUFFICES ASSUME SpeechInv, RebuttalGuard PROVE SpeechInv'
  OBVIOUS
<1> DEFINE c == Call(run)
<1>1. /\ run \in Runs /\ run.pc = "rebuttal" /\ run.calls \in Nat /\ run.tries \in Nat
      /\ run.calls <= 2 * MaxIterations + 3 + 2 * StanceRetries + NoveltyRetries + run.tries
      /\ run.tries <= RebuttalRetries
      /\ run.streamed => ~Blank(run.out)
      /\ run.react /\ ~run.later =>
           StanceConsistent(run.by, run.out) \/ run.cleared \/ "stance" \in run.flags
      /\ CourtUnchanged
  BY RunFields DEF SpeechInv, RunInv, Cost, Shown, Judged, RebuttalGuard, At
<1>2. /\ c \in Runs /\ c.calls = run.calls + 1 /\ c.streamed = run.streamed /\ c.out = run.out
      /\ c.by = run.by /\ c.later = run.later /\ c.cleared = run.cleared /\ c.react = run.react
      /\ c.flags = run.flags
  BY <1>1, CallOK
<1> HIDE DEF c
<1>3. /\ run.calls <= 2 * MaxIterations + 3 + 2 * StanceRetries + NoveltyRetries + RebuttalRetries
      /\ run.tries # RebuttalRetries =>
           c.calls <= 2 * MaxIterations + 3 + 2 * StanceRetries + NoveltyRetries + RebuttalRetries
  BY <1>1, <1>2, Constants
<1>4. CASE Cited(run.out) = {} /\ Goto("record", run)
  BY <1>1, <1>3, <1>4, PassRebuttal
<1>5. ASSUME NEW b \in Runs, Goto("record", Flagged(b, "rebuttal")),
             b.calls <= 2 * MaxIterations + 3 + 2 * StanceRetries + NoveltyRetries + RebuttalRetries,
             b.streamed = run.streamed, b.out = run.out, b.by = run.by, b.later = run.later,
             b.cleared = run.cleared, b.react = run.react, b.flags = run.flags
      PROVE  SpeechInv'
  <2> DEFINE r == Flagged(b, "rebuttal")
  <2>1. /\ r \in Runs /\ r.calls = b.calls /\ r.streamed = b.streamed /\ r.out = b.out
        /\ r.by = b.by /\ r.later = b.later /\ r.cleared = b.cleared /\ r.react = b.react
        /\ r.flags = b.flags \cup {"rebuttal"}
    BY <1>5, FlaggedOK DEF Flags
  <2> HIDE DEF r
  <2>2. Goto("record", r)
    BY <1>5 DEF r
  <2>3. QED
    BY <1>1, <1>5, <2>1, <2>2, PassRebuttal
<1>6. CASE Goto("record", Flagged(run, "rebuttal"))
  BY <1>1, <1>3, <1>5, <1>6
<1>7. CASE run.tries # RebuttalRetries /\ Goto("record", Flagged(c, "rebuttal"))
  BY <1>2, <1>3, <1>5, <1>7
<1>8. CASE Goto("record", [run EXCEPT !.blind = TRUE])
  <2> DEFINE r == [run EXCEPT !.blind = TRUE]
  <2>1. /\ r \in Runs /\ r.calls = run.calls /\ r.streamed = run.streamed /\ r.out = run.out
        /\ r.by = run.by /\ r.later = run.later /\ r.cleared = run.cleared /\ r.react = run.react
        /\ r.flags = run.flags /\ r.blind
    BY <1>1 DEF Runs
  <2>2. Goto("record", r)
    BY <1>8
  <2> HIDE DEF r
  <2>3. QED
    BY <1>1, <1>3, <2>1, <2>2, PassRebuttal
<1>9. ASSUME NEW s \in Replacements, Goto("rebuttal", ReplaceLater(s)),
             run.tries # RebuttalRetries
      PROVE  SpeechInv'
  <2>1. s \in Speeches
    BY ReplacementsOK
  <2> DEFINE r == ReplaceLater(s)
  <2>2. /\ r \in Runs /\ r.out = s /\ r.tries = run.tries + 1
        /\ r.calls = run.calls + 1 /\ (r.streamed => ~Blank(s)) /\ r.later
    BY <1>1, <2>1, ReplaceLaterOK
  <2> HIDE DEF r
  <2>3. "rebuttal" \in Places
    BY DEF Places
  <2>4. /\ run' \in Runs /\ run'.pc = "rebuttal" /\ run'.calls = r.calls
        /\ run'.tries = r.tries /\ run'.out = r.out /\ run'.later = r.later
        /\ run'.streamed = r.streamed
    BY <1>9, <2>2, <2>3, GotoOK DEF Goto, r
  <2>5. /\ run'.calls <= 2 * MaxIterations + 3 + 2 * StanceRetries + NoveltyRetries + run'.tries
        /\ run'.tries <= RebuttalRetries
    BY <1>1, <1>9, <2>2, <2>4, Constants
  <2>6. RunInv(run')
    BY <2>2, <2>4, <2>5 DEF RunInv, Cost, Shown, Judged, Checked
  <2>7. QED
    BY <1>1, <2>6, RunStep
<1>10. ~wired \/ run.out.refs = {} => Cited(run.out) = {}
  BY DEF Cited, SpeechInv, Court
<1>11. QED
  BY <1>4, <1>6, <1>7, <1>8, <1>9, <1>10 DEF RebuttalGuard, c

--------------------------------------------------------------------------------
(* The fallback and the end. *)

\* The fallback costs at most three calls, and no stream was shown before it.
LEMMA FallbackStep == SpeechInv /\ FallbackSpeak => SpeechInv'
<1> SUFFICES ASSUME SpeechInv, FallbackSpeak PROVE SpeechInv'
  OBVIOUS
<1>0. "record" \in Places
  BY DEF Places
<1>1. /\ run \in Runs /\ run.pc = "fallback" /\ run.calls \in Nat /\ run.by \in Lawyers
      /\ run.calls <= 2 * MaxIterations /\ ~run.streamed
  BY RunFields DEF SpeechInv, RunInv, Cost, Shown, FallbackSpeak, At
<1>2. CASE Fail
  BY <1>2, FailStep
<1>3. ASSUME NEW s \in Speeches, NEW n \in 1..3, CourtUnchanged,
             Goto("record", [run EXCEPT !.out = s, !.calls = @ + n, !.react = FALSE])
      PROVE  SpeechInv'
  <2> DEFINE r == [run EXCEPT !.out = s, !.calls = @ + n, !.react = FALSE]
  <2>1. run.calls + n \in Nat
    BY <1>1
  <2>2. /\ r \in Runs /\ r.calls = run.calls + n /\ r.streamed = run.streamed /\ ~r.react
    BY <1>1, <2>1 DEF Runs
  <2>3. Goto("record", r)
    BY <1>3
  <2> HIDE DEF r
  <2>4. r.calls <= 2 * MaxIterations + 3 + 2 * StanceRetries + NoveltyRetries + RebuttalRetries
    BY <1>1, <2>2, Constants
  <2>5. QED
    BY <1>1, <1>3, <2>2, <2>3, <2>4, PassRebuttal
<1>4. ASSUME NEW text \in {"fresh", "blank"}, CourtUnchanged,
             Goto("record", [run EXCEPT !.out = Salvaged(run.by, text), !.calls = @ + 2,
                                        !.react = FALSE])
      PROVE  SpeechInv'
  <2>1. Salvaged(run.by, text) \in Speeches
    BY <1>1, SalvagedOK
  <2>2. PICK s : s = Salvaged(run.by, text)
    OBVIOUS
  <2>3. PICK n \in 1..3 : n = 2
    OBVIOUS
  <2>4. QED
    BY <1>3, <1>4, <2>1, <2>2, <2>3
<1>5. ASSUME NEW s \in Speakers, NEW n \in 1..3, CourtUnchanged,
             Goto("record", [run EXCEPT !.out = s, !.calls = @ + n, !.react = FALSE])
      PROVE  SpeechInv'
  BY <1>3, <1>5, ReplacementsOK
<1>6. QED
  BY <1>2, <1>4, <1>5 DEF FallbackSpeak

\* Sending the speech to the opponent changes nothing the guards settled.
LEMMA RecordStep == SpeechInv /\ RecordSideEffects => SpeechInv'
<1> SUFFICES ASSUME SpeechInv, RecordSideEffects PROVE SpeechInv'
  OBVIOUS
<1>1. run \in Runs /\ run.pc = "record" /\ RunInv(run) /\ "save" \in Places
  BY DEF SpeechInv, RunInv, RecordSideEffects, At, Places
<1>2. /\ run' \in Runs /\ run'.pc = "save" /\ run'.calls = run.calls
      /\ run'.streamed = run.streamed /\ run'.out = run.out /\ run'.by = run.by
      /\ run'.later = run.later /\ run'.cleared = run.cleared /\ run'.flags = run.flags
      /\ run'.react = run.react /\ run'.blind = run.blind
  BY <1>1, GotoOK DEF RecordSideEffects, Goto
<1>3. RunInv(run')
  BY <1>1, <1>2 DEF RunInv, Cost, Shown, Judged, Checked
<1>4. thinking' \subseteq Lawyers
  BY DEF RecordSideEffects, HideThinking, SpeechInv, Court
<1>5. QED
  BY <1>3, <1>4, CourtStays DEF RecordSideEffects, SpeechInv, Court

\* Moving a belief clamps it to 5..95 (applySpeakToBelief).
LEMMA MovedOK ==
  ASSUME NEW b \in 5..95, NEW stance, NEW points \in {0, 5}
  PROVE  Moved(b, stance, points) \in 5..95
<1>1. \A x \in Nat : Clamp(x) \in 5..95
  BY DEF Clamp
<1>2. b + points \in Nat /\ (IF b < points THEN 0 ELSE b - points) \in Nat
  OBVIOUS
<1>3. CASE stance = "pro_a"
  BY <1>1, <1>2, <1>3 DEF Moved
<1>4. CASE stance = "pro_b"
  BY <1>1, <1>2, <1>4 DEF Moved
<1>5. CASE stance # "pro_a" /\ stance # "pro_b"
  BY <1>5 DEF Moved
<1>6. QED
  BY <1>3, <1>4, <1>5

\* Saving moves beliefs when the run is over, so that no verdict on it is stale.
LEMMA SaveStep == SpeechInv /\ SaveAgentMessage => SpeechInv'
<1> SUFFICES ASSUME SpeechInv, SaveAgentMessage PROVE SpeechInv'
  OBVIOUS
<1>1. RunInv(run)'
  <2>1. run' = Idle /\ Idle \in Runs
    BY IdleOK DEF SaveAgentMessage
  <2>2. Idle.pc = "idle" /\ Idle.calls = 0 /\ ~Idle.streamed
    BY DEF Idle
  <2>3. QED
    BY <2>1, <2>2 DEF RunInv, Cost, Shown, Judged, Checked
<1>2. run.by \in Lawyers /\ belief \in [Lawyers -> 5..95] /\ spoken \subseteq Lawyers
  BY RunFields DEF SpeechInv, RunInv, Court
<1>3. belief' \in [Lawyers -> 5..95] /\ spoken' \subseteq Lawyers
  <2>1. CASE UNCHANGED <<spoken, belief>>
    BY <1>2, <2>1
  <2>2. ASSUME NEW points \in {0, 5}, spoken' = spoken \cup {run.by},
               belief' = [belief EXCEPT ![run.by] = Moved(@, run.out.stance, points)]
        PROVE  belief' \in [Lawyers -> 5..95] /\ spoken' \subseteq Lawyers
    <3>1. Moved(belief[run.by], run.out.stance, points) \in 5..95
      BY <1>2, MovedOK
    <3> DEFINE d == Moved(belief[run.by], run.out.stance, points)
    <3>2. belief' = [belief EXCEPT ![run.by] = d]
      BY <2>2
    <3> HIDE DEF d
    <3>3. d \in 5..95
      BY <3>1 DEF d
    <3>4. QED
      BY <1>2, <2>2, <3>2, <3>3
  <2>3. QED
    BY <2>1, <2>2 DEF SaveAgentMessage
<1>4. Court'
  BY <1>3 DEF SaveAgentMessage, SpeechInv, Court
<1>5. QED
  BY <1>1, <1>4 DEF SpeechInv

--------------------------------------------------------------------------------
(* The theorems. *)

\* The invariant holds at the start.
LEMMA InitInv == Init => SpeechInv
<1> SUFFICES ASSUME Init PROVE SpeechInv
  OBVIOUS
<1>1. belief \in [Lawyers -> 5..95]
  BY Constants DEF Init
<1>2. Court
  BY <1>1, Constants DEF Init, Court
<1>3. RunInv(run)
  BY IdleOK DEF Init
<1>4. QED
  BY <1>2, <1>3 DEF SpeechInv

\* Every step keeps it.
LEMMA NextInv == SpeechInv /\ [Next]_vars => SpeechInv'
<1> SUFFICES ASSUME SpeechInv, [Next]_vars PROVE SpeechInv'
  OBVIOUS
<1>1. CASE Step
  BY <1>1, ThinkStep, ReparseStep, GiveUpStep, StreamStep, ValidateStep, HookStep,
     JudgeStep, RestanceStep, NoveltyStep, RebuttalStep, FallbackStep, RecordStep,
     SaveStep DEF Step
<1>2. CASE Deadline
  BY <1>2, DeadlineStep
<1>3. ASSUME NEW l \in Lawyers, Begin(l) PROVE SpeechInv'
  BY <1>3, BeginStep
<1>4. CASE UNCHANGED vars
  <2>1. RunInv(run')
    BY <1>4 DEF vars, SpeechInv
  <2>2. QED
    BY <1>4, <2>1, RunStep DEF vars, CourtUnchanged
<1>5. QED
  BY <1>1, <1>2, <1>3, <1>4 DEF Next

\* The inductive invariant: what every place of the loop has spent, shown and settled.
THEOREM SpeechInvariant == Spec => []SpeechInv
<1>1. QED
  BY InitInv, NextInv, PTL DEF Spec

\* The state keeps its types (LawyerSpeech.TypeOK).
THEOREM TypeCorrect == Spec => []TypeOK
<1>1. SpeechInv => TypeOK
  BY DEF SpeechInv, Court, RunInv, Runs, Texts, Flags, TypeOK
<1>2. QED
  BY <1>1, SpeechInvariant, PTL

\* A speech of the loop that cites rebutted evidence is flagged, unless the links
\* could not be read for the last check (applySpeakerRebuttalRetryLoop).
THEOREM RebuttalIsHonoured == Spec => []RebuttalHonoured
<1>1. SpeechInv => RebuttalHonoured
  BY DEF SpeechInv, RunInv, Checked, RebuttalHonoured, Spoke
<1>2. QED
  BY <1>1, SpeechInvariant, PTL

\* A speech at odds with its speaker's belief, not replaced by a later guard, was
\* cleared or is flagged (applySpeakerStanceJudge).
THEOREM StanceIsHonoured == Spec => []StanceHonoured
<1>1. SpeechInv => StanceHonoured
  BY DEF SpeechInv, RunInv, Judged, StanceHonoured, Spoke
<1>2. QED
  BY <1>1, SpeechInvariant, PTL

\* A speech the user watched being typed is neither empty nor blank in the end,
\* whatever the retries make of it, unless a guard put a blank answer in its place
\* (streamedFallback; the guards' retries take any content but the empty one).
THEOREM StreamedIsNotLost == Spec => []StreamedNeverLost
<1>1. SpeechInv => StreamedNeverLost
  BY DEF SpeechInv, RunInv, Shown, StreamedNeverLost
<1>2. QED
  BY <1>1, SpeechInvariant, PTL

\* One speech costs a bounded number of calls, for every number of turns and
\* retries the configuration allows (the loops of react_runner.go).
THEOREM CallsAreBounded == Spec => []CallsBounded
<1>1. SpeechInv => CallsBounded
  <2> SUFFICES ASSUME SpeechInv PROVE CallsBounded
    OBVIOUS
  <2>1. /\ run \in Runs /\ Cost(run) /\ run.pc \in Places
        /\ run.iter \in Nat /\ run.iter <= MaxIterations /\ run.tries \in Nat /\ run.calls \in Nat
    BY RunFields DEF SpeechInv, RunInv
  <2>2. CASE run.pc \in {"idle", "think", "reparse", "stream", "fallback"}
    BY <2>1, <2>2, Constants DEF Cost, CallsBounded
  <2>3. CASE run.pc \in {"validate", "hook", "stance", "restance"}
    BY <2>1, <2>3, Constants DEF Cost, CallsBounded
  <2>4. CASE run.pc \in {"novelty", "rebuttal", "record", "save"}
    BY <2>1, <2>4, Constants DEF Cost, CallsBounded
  <2>5. QED
    BY <2>1, <2>2, <2>3, <2>4 DEF Places
<1>2. QED
  BY <1>1, SpeechInvariant, PTL
================================================================================
