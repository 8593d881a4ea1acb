----------------------------- MODULE LawyerSpeech ------------------------------
(***************************************************************************)
(* One lawyer's speech in a round of cross-examination: the ReAct loop of  *)
(* agent/react_runner.go (think, use a tool, reflect, speak), the streamed *)
(* text, the retries, the guards that may replace the speech (stance,      *)
(* novelty, rebutted evidence), the fallback of agent/orchestrator.go, the *)
(* messages for the opponent and what courtroom/service.go then records.   *)
(* Speeches of a session follow each other under the session lock.         *)
(*                                                                         *)
(* A speech is kept as what the guards tell apart.  The LLM is free in     *)
(* everything it answers; it fails at will, and always once the 30 seconds *)
(* of the run are over.                                                    *)
(***************************************************************************)
EXTENDS Naturals, FiniteSets

CONSTANTS
  Evidence,         \* evidence_ids submitted in this session
  Invented,         \* an evidence_id that names nothing
  Stances,          \* stances the LLM takes: pro_a, pro_b, challenge, neutral
  MaxIterations,
  StanceRetries, NoveltyRetries, RebuttalRetries,
  StartBeliefs,     \* belief_a of the lawyers at the start, in percent
  MaxSpeeches       \* bound: speeches tried

ASSUME SpeechAssumption ==
  /\ Invented \notin Evidence /\ IsFiniteSet(Evidence)
  /\ MaxIterations \in Nat \ {0}
  /\ StanceRetries \in Nat /\ NoveltyRetries \in Nat /\ RebuttalRetries \in Nat
  /\ Stances \subseteq {"pro_a", "pro_b", "challenge", "neutral"}
  /\ StartBeliefs \subseteq 5..95 /\ MaxSpeeches \in Nat

VARIABLES
  wired,     \* the orchestrator is given a repository of rebuttals
  run,       \* the speech being made
  links,     \* evidence with a standing rebuttal
  spoken,    \* lawyers with a speech in the court record
  belief,    \* belief_a of each lawyer, in percent
  thinking,  \* lawyers whose thinking bubble is shown
  tried      \* speeches begun, for the bound

vars == <<wired, run, links, spoken, belief, thinking, tried>>

Lawyers == {"prosecutor", "defender"}

AtMostOne(S) == {{}} \cup {{e} : e \in S}

\* text: "blank", which is empty or nothing but white space, or what it adds to the
\* speaker's earlier speeches; flaw: "claims" that its
\* references do not back (figures, case numbers, exhibits), or the "form" of its
\* reasoning, confidence or stance; rebut: evidence it declares rebutted.
Speeches == [text : {"blank", "fresh", "repeat"}, flaw : {"none", "claims", "form"},
             refs : AtMostOne(Evidence \cup {Invented}),
             stance : Stances \cup {"neutral", "pro_a", "pro_b"},
             rebut : AtMostOne(Evidence \cup {Invented})]

Nothing == [text |-> "blank", flaw |-> "none", refs |-> {}, stance |-> "neutral", rebut |-> {}]

\* What strings.TrimSpace leaves nothing of.
Blank(s) == s.text = "blank"

\* An AgentOutput as the Speaker the guards pass on.
Speaker(s) == [s EXCEPT !.flaw = "none", !.rebut = {}]

\* spare: the streamed text set aside as a hallucination; streamed: the user saw
\* a whole speech typed out, and no guard has put a blank one in its place; cleared: the judge found the stance consistent, or
\* could not be asked;
\* later: a guard after the judge replaced the speech; blind: the links could not
\* be read for the last check; flags: the guards whose retries were used up, as
\* the Speaker reports them.
Idle == [pc |-> "idle", by |-> "prosecutor", out |-> Nothing, spare |-> "none",
         iter |-> 0, tries |-> 0, calls |-> 0, late |-> FALSE,
         streamed |-> FALSE, cleared |-> FALSE, later |-> FALSE, blind |-> FALSE,
         react |-> TRUE, flags |-> {}]

Init ==
  /\ wired \in BOOLEAN
  /\ run = Idle /\ links = {} /\ spoken = {} /\ thinking = {} /\ tried = 0
  /\ belief \in [Lawyers -> StartBeliefs]

At(pc) == run.pc = pc

Call(r) == [r EXCEPT !.calls = @ + 1]

\* The run goes on at pc as r.
Goto(pc, r) == run' = [r EXCEPT !.pc = pc]

\* The guards' loops count from zero.
Enter(pc, r) == Goto(pc, [r EXCEPT !.tries = 0])

CourtUnchanged == UNCHANGED <<wired, links, spoken, belief, thinking, tried>>

\* Mutant: an error skips thinking_finished.
FailSilently ==
  /\ run' = Idle
  /\ UNCHANGED <<wired, links, spoken, belief, thinking, tried>>

\* agent.thinking_finished is broadcast.
HideThinking == thinking' = thinking \ {run.by}

\* speakWithReAct ends without a speech; the bubble is taken away all the same.
Fail ==
  /\ run' = Idle
  /\ HideThinking
  /\ UNCHANGED <<wired, links, spoken, belief, tried>>

Begin(l) ==
  /\ At("idle") /\ tried < MaxSpeeches
  /\ run' = [Idle EXCEPT !.pc = "think", !.by = l]
  /\ thinking' = thinking \cup {l}
  /\ tried' = tried + 1
  /\ UNCHANGED <<wired, links, spoken, belief>>

\* The deadline of the run passes.
Deadline ==
  /\ run.pc \notin {"idle", "fallback", "record", "save"} /\ ~run.late
  /\ run' = [run EXCEPT !.late = TRUE]
  /\ CourtUnchanged

\* The LLM repeats the speaker only if there is something to repeat.
Possible(s) == s.text = "repeat" => run.by \in spoken

\* The speeches it can answer with, and what the guards take of them.
Wordings == {s \in Speeches : s.stance \in Stances /\ (Blank(s) => s.flaw # "claims")}
Answers  == {s \in Wordings : Possible(s)}
Speakers == {Speaker(s) : s \in Wordings}

--------------------------------------------------------------------------------
(* The loop. *)

\* Mutant: tools and reflections use no turn up.
DecideFreely(r) ==
  \/ Goto("think", r)
  \/ \E s \in Answers : Goto("stream", [r EXCEPT !.out = s])

\* What an answer that parses makes the runner do: a tool or a reflection uses a
\* turn up, whether it succeeds or not (too many reflections are answered with a
\* note).  Memory and weaken declarations are left out: nothing here reads them.
Decide(r) ==
  \/ Goto("think", [r EXCEPT !.iter = @ + 1])
  \/ \E s \in Answers : Goto("stream", [r EXCEPT !.out = s])

\* Mutant: one turn too many.
ThinkOnceMore ==
  /\ At("think") /\ run.iter <= MaxIterations
  /\ ~run.late /\ Decide(Call(run))
  /\ CourtUnchanged

Think ==
  /\ At("think") /\ run.iter < MaxIterations
  /\ \/ Fail                                              \* LLM error, unknown action
     \/ /\ ~run.late
        /\ Goto("reparse", Call(run)) \/ Decide(Call(run))
        /\ CourtUnchanged

\* One more try after an answer that is no JSON.
Reparse ==
  /\ At("reparse")
  /\ \/ Fail
     \/ ~run.late /\ Decide(Call(run)) /\ CourtUnchanged

\* The loop is used up without a speech.
GiveUp ==
  /\ At("think") /\ run.iter = MaxIterations
  /\ IF run.late THEN Fail ELSE Goto("fallback", run) /\ CourtUnchanged

--------------------------------------------------------------------------------
(* The speech. *)

\* ValidateAgainstHallucination.
Honest(s) == Blank(s) \/ (s.flaw # "claims" /\ s.refs \subseteq Evidence)

ValidSpeech(s) == ~Blank(s) /\ s.flaw = "none" /\ s.refs \subseteq Evidence

\* What the content field of the streamed answer can be.
Contents == {a \in [text : {"blank", "fresh", "repeat"}, claims : BOOLEAN] :
               Possible(a) /\ (Blank(a) => ~a.claims)}

\* The decision with that as its text.
Typed(s, a) ==
  [s EXCEPT !.text = a.text,
            !.flaw = IF a.claims THEN "claims" ELSE IF @ = "form" THEN "form" ELSE "none"]

\* The text is written anew, as a stream the user watches; a stream that stops
\* early or has an empty content leaves the text of the decision; white space is taken.
StreamSpeech ==
  /\ At("stream")
  /\ \/ Goto("validate", Call(run))
     \/ \E a \in Contents :
          LET said == Typed(run.out, a)
              r    == [Call(run) EXCEPT !.streamed = ~Blank(a)]
          IN  /\ ~run.late
              /\ IF Honest(said) THEN Goto("hook", [r EXCEPT !.out = said])
                 ELSE Goto("validate", [r EXCEPT !.out.text = "blank", !.spare = a.text])
  /\ CourtUnchanged

\* Mutant: the text set aside is not restored.
Forgotten(s) == s

\* What was typed out is better than no speech.
Restored(s) ==
  IF Blank(s) /\ run.spare # "none" THEN [s EXCEPT !.text = run.spare]
  ELSE s

\* One retry, taken only if it is valid; the speech goes on, valid or not.
ValidateSpeak ==
  /\ At("validate")
  /\ IF ValidSpeech(run.out) THEN Goto("hook", run)
     ELSE \/ Goto("hook", [Call(run) EXCEPT !.out = Restored(@)])
          \/ \E s \in Answers :
               ~run.late /\ ValidSpeech(s) /\ Goto("hook", [Call(run) EXCEPT !.out = s])
  /\ CourtUnchanged

\* A declared rebuttal of what is no evidence is passed over.
Declared(s) == s.rebut \cap Evidence

\* What is stored of them.  A write that fails is logged, and leaves what a
\* speech without rebuttals leaves.
Stored(s) == IF wired THEN Declared(s) ELSE {}

RebuttalHook ==
  /\ At("hook")
  /\ links' = links \cup Stored(run.out)
  /\ Enter("stance", [run EXCEPT !.out = Speaker(@), !.spare = "none"])
  /\ UNCHANGED <<wired, spoken, belief, thinking, tried>>

--------------------------------------------------------------------------------
(* The guards.  Each may ask for another speech, which then takes the place of *)
(* the first with no flag on it; none of them looks at the others' verdicts.   *)

Flagged(r, flag) == [r EXCEPT !.flags = @ \cup {flag}]

\* The next try's speech.  A failed call, an unreadable answer, another action
\* or an empty content is no replacement; a content of white space is one.
Replace(s) == [Call(run) EXCEPT !.out = s, !.flags = {}, !.tries = @ + 1, !.cleared = FALSE,
                                !.streamed = @ /\ ~Blank(s)]

Replacements == IF run.late THEN {} ELSE {s \in Speakers : Possible(s)}

StanceConsistent(l, s) ==
  /\ l = "prosecutor" /\ s.stance = "pro_b" => belief[l] <= 45
  /\ l = "defender" /\ s.stance = "pro_a" => belief[l] >= 55
  /\ s.stance = "pro_a" => belief[l] >= 45
  /\ s.stance = "pro_b" => belief[l] <= 55

\* Mutant: a replaced speech is not shown to the judge again.
JudgedOnce ==
  /\ At("stance")
  /\ IF run.tries > 0 \/ StanceConsistent(run.by, run.out) THEN Enter("novelty", run)
     ELSE \/ Enter("novelty", Flagged(Call(run), "stance"))
          \/ ~run.late /\ Enter("novelty", [Call(run) EXCEPT !.cleared = TRUE])
          \/ ~run.late /\ Goto("restance", Call(run))
  /\ CourtUnchanged

\* A stance at odds with the belief goes to an LLM judge; a speech its prompt
\* refuses to quote passes unjudged, and the error is dropped.  When the retries
\* are used up the judge is asked once more, for its reason.
StanceJudge ==
  /\ At("stance")
  /\ IF run.tries = 0 /\ StanceConsistent(run.by, run.out) THEN Enter("novelty", run)
     ELSE \/ Enter("novelty", Flagged(Call(run), "stance"))
          \/ run.tries < StanceRetries /\ Enter("novelty", [run EXCEPT !.cleared = TRUE])
          \/ /\ ~run.late /\ run.tries < StanceRetries
             /\ \/ Enter("novelty", [Call(run) EXCEPT !.cleared = TRUE])
                \/ Goto("restance", Call(run))
  /\ CourtUnchanged

StanceRetry ==
  /\ At("restance")
  /\ \/ Enter("novelty", Flagged(Call(run), "stance"))
     \/ \E s \in Replacements : Goto("stance", Replace(s))
  /\ CourtUnchanged

\* A replacement the judge never sees.
ReplaceLater(s) == [Replace(s) EXCEPT !.later = TRUE]

\* The speaker's last speeches are read once, before the first comparison.
HistoryUnread == run.tries = 0

\* Without the history, which could not be read, nothing looks repeated.
NoveltyGuard ==
  /\ At("novelty")
  /\ IF run.out.text # "repeat" THEN Enter("rebuttal", run)
     ELSE IF run.tries = NoveltyRetries THEN Enter("rebuttal", Flagged(run, "novelty"))
     ELSE \/ Enter("rebuttal", Flagged(Call(run), "novelty"))
          \/ \E s \in Replacements : Goto("novelty", ReplaceLater(s))
          \/ HistoryUnread /\ Enter("rebuttal", run)
  /\ CourtUnchanged

Cited(s) == s.refs \cap links

\* Mutant: the last replacement is not looked at.
LastUnchecked ==
  /\ At("rebuttal")
  /\ IF ~wired \/ Cited(run.out) = {} \/ run.tries = RebuttalRetries THEN Goto("record", run)
     ELSE \/ Goto("record", Flagged(Call(run), "rebuttal"))
          \/ \E s \in Replacements : Goto("rebuttal", ReplaceLater(s))
  /\ CourtUnchanged

\* Reading the links can fail (and fails past the deadline): then the speech is
\* flagged, except after the last retry, where the error is dropped.
RebuttalGuard ==
  /\ At("rebuttal")
  /\ IF ~wired \/ run.out.refs = {} THEN Goto("record", run)
     ELSE IF run.tries = RebuttalRetries
     THEN \/ Goto("record", [run EXCEPT !.blind = TRUE])
          \/ ~run.late /\ Goto("record", IF Cited(run.out) = {} THEN run
                                         ELSE Flagged(run, "rebuttal"))
     ELSE \/ Goto("record", Flagged(run, "rebuttal"))
          \/ /\ ~run.late
             /\ IF Cited(run.out) = {} THEN Goto("record", run)
                ELSE \/ Goto("record", Flagged(Call(run), "rebuttal"))
                     \/ \E s \in Replacements : Goto("rebuttal", ReplaceLater(s))
  /\ CourtUnchanged

--------------------------------------------------------------------------------
(* The fallback: one plain call, no tools and none of the guards. *)

\* parseOutput, of a form without flaws: evidence must be cited once there is any.
Parses(s) == ~Blank(s) /\ (Evidence # {} => s.refs # {})

InferStance(l) ==
  IF belief[l] > 55 THEN "pro_a" ELSE IF belief[l] < 45 THEN "pro_b" ELSE "neutral"

\* The text dug out of an answer that does not parse, which is the content of the
\* answer as it is, or an apology.
Salvaged(l, text) == [Nothing EXCEPT !.text = text, !.stance = InferStance(l)]

\* Up to three calls: a retry when the answer does not parse, and a retry when
\* its stance is at odds with the belief, taken only if that one is not.
FallbackSpeak ==
  /\ At("fallback")
  /\ \/ Fail
     \/ /\ \/ \E text \in {"fresh", "blank"} :
                Goto("record", [run EXCEPT !.out = Salvaged(run.by, text), !.calls = @ + 2,
                                           !.react = FALSE])
           \/ \E s \in Speakers, n \in 1..3 :
                /\ Possible(s) /\ Parses(s)
                /\ StanceConsistent(run.by, s) \/ n > 1
                /\ Goto("record", [run EXCEPT !.out = s, !.calls = @ + n,
                                           !.react = FALSE])
        /\ CourtUnchanged

--------------------------------------------------------------------------------
(* What becomes of the speech. *)

\* recordSideEffects sends it to the opponent and to the speaker's notes
\* (failures are logged; see Casework), and the bubble goes.
RecordSideEffects ==
  /\ At("record")
  /\ HideThinking
  /\ Goto("save", run)
  /\ UNCHANGED <<wired, links, spoken, belief, tried>>

Clamp(x) == IF x < 5 THEN 5 ELSE IF x > 95 THEN 95 ELSE x

\* applySpeakToBelief: five points at full confidence, none for a speech that
\* takes no side.  Flags do not matter.
Moved(b, stance, points) ==
  CASE stance = "pro_a" -> Clamp(b + points)
    [] stance = "pro_b" -> Clamp(IF b < points THEN 0 ELSE b - points)
    [] OTHER -> b

\* saveAgentMessage refuses a blank speech, and the round fails.
SaveAgentMessage ==
  /\ At("save")
  /\ run' = Idle
  /\ \/ UNCHANGED <<spoken, belief>>
     \/ /\ ~Blank(run.out)
        /\ spoken' = spoken \cup {run.by}
        /\ \E points \in {0, 5} :
             belief' = [belief EXCEPT ![run.by] = Moved(@, run.out.stance, points)]
  /\ UNCHANGED <<wired, links, thinking, tried>>

--------------------------------------------------------------------------------

Step ==
  \/ Think \/ Reparse \/ GiveUp \/ StreamSpeech \/ ValidateSpeak \/ RebuttalHook
  \/ StanceJudge \/ StanceRetry \/ NoveltyGuard \/ RebuttalGuard \/ FallbackSpeak
  \/ RecordSideEffects \/ SaveAgentMessage

Next == Step \/ Deadline \/ \E l \in Lawyers : Begin(l)

\* Every call returns: it is answered or cut off by a timeout.
Spec == Init /\ [][Next]_vars /\ WF_vars(Step)

--------------------------------------------------------------------------------
(* Properties. *)

Places == {"idle", "think", "reparse", "stream", "validate", "hook", "stance", "restance",
           "novelty", "rebuttal", "fallback", "record", "save"}

TypeOK ==
  /\ wired \in BOOLEAN
  /\ run \in [pc : Places, by : Lawyers, out : Speeches, spare : {"none", "fresh", "repeat"},
              iter : 0..MaxIterations, tries : Nat, calls : Nat,
              late : BOOLEAN, streamed : BOOLEAN, cleared : BOOLEAN, later : BOOLEAN,
              blind : BOOLEAN, react : BOOLEAN, flags : SUBSET {"stance", "novelty", "rebuttal"}]
  /\ links \subseteq Evidence /\ spoken \subseteq Lawyers
  /\ belief \in [Lawyers -> 5..95]
  /\ thinking \subseteq Lawyers
  /\ tried \in 0..MaxSpeeches

Spoke == run.pc \in {"record", "save"} /\ run.react

\* A speech of the ReAct loop that cites rebutted evidence, also evidence it
\* rebuts itself, is flagged, unless the links could not be read after the last
\* retry: whatever the earlier guards put in its place, this guard comes last
\* (react_runner.go: the rebuttal hook, then applySpeakerRebuttalRetryLoop).
RebuttalHonoured ==
  Spoke /\ Cited(run.out) # {} => "rebuttal" \in run.flags \/ run.blind

\* Unless the guards for novelty or rebuttals replaced it later, a speech at odds
\* with its speaker's belief was passed by the judge, could not be put before it,
\* or is flagged (applySpeakerStanceJudge).
StanceHonoured ==
  Spoke /\ ~run.later /\ ~StanceConsistent(run.by, run.out)
    => run.cleared \/ "stance" \in run.flags

\* Once the user has watched a whole speech being typed, the speech that is saved is
\* neither empty nor blank, even if the text was rejected as a hallucination and the
\* retry failed (streamedFallback), unless a guard put a blank answer in its place.
StreamedNeverLost == run.pc \in {"record", "save"} /\ run.streamed => ~Blank(run.out)

\* One speech costs a bounded number of LLM calls, whatever the LLM answers:
\* two a turn of the loop, the stream, one retry, and the guards'.
CallsBounded ==
  run.calls <= 2 * MaxIterations + 2 + (2 * StanceRetries + 1) + NoveltyRetries + RebuttalRetries

\* The thinking bubble never stays: every speech ends in the record or as an
\* error (thinking_finished in speakWithReAct).
SpeechEnds == \A l \in Lawyers : l \in thinking ~> l \notin thinking
================================================================================
