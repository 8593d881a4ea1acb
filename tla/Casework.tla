-------------------------------- MODULE Casework --------------------------------
(***************************************************************************)
(* What the requests of one session write into its record: evidence and    *)
(* its number (evidence/service.go), the beliefs it moves                  *)
(* (courtroom/service.go, belief/engine_v06.go), rounds of speeches and    *)
(* the beliefs these move, investigations (investigation/service.go) and   *)
(* the messages of the a2a bus with what each lawyer is shown of them      *)
(* (a2a/bus.go, a2a/context_view.go).                                      *)
(*                                                                         *)
(* Every handler takes the session lock; database writes, LLM calls and    *)
(* searches fail at will and the process may crash between any two writes. *)
(* The phases are CourtTrial's, the making of a speech is LawyerSpeech's.  *)
(***************************************************************************)
EXTENDS Naturals, FiniteSets

CONSTANTS
  Requests,     \* goroutines of handlers, each serving one request
  NoRequest,
  MaxRounds,
  MaxTurns,     \* bound: reflections and tool calls of a speech
  MaxCrashes,   \* bound: restarts of the server
  MaxFaults     \* bound: calls that fail

ASSUME CaseworkAssumption ==
  /\ NoRequest \notin Requests /\ IsFiniteSet(Requests)
  /\ MaxRounds \in Nat \ {0} /\ MaxTurns \in Nat /\ MaxCrashes \in Nat /\ MaxFaults \in Nat

VARIABLES
  lock,      \* the request that holds the session lock
  req,       \* the state of each request
  round,     \* court_sessions.current_round
  evidence,  \* rows of evidences
  spoken,    \* speeches saved: <<round, lawyer>>
  belief,    \* what is in each lawyer's belief_a: the influences it is made of
  written,   \* every influence that was ever written there
  bus,       \* rows of a2a_messages
  findings,  \* rows of investigation_findings, named by the search
  spinner,   \* searches announced and not yet completed
  lost,      \* searches a crash cut short
  crashes,
  faults     \* failed calls, for the bound

vars == <<lock, req, round, evidence, spoken, belief, written, bus, findings,
          spinner, lost, crashes, faults>>

Lawyers == {"prosecutor", "defender"}
Opponent(l) == IF l = "prosecutor" THEN "defender" ELSE "prosecutor"

\* loaded: the agents as the handler read them; who: whose speech or search it
\* is; todo: the agents it has yet to reach; shown: the a2a block of the prompt.
Idle == [pc |-> "idle", kind |-> "none", who |-> "prosecutor", round |-> 0,
         num |-> 0, turn |-> 0, loaded |-> [a \in Lawyers |-> {}], todo |-> {}, shown |-> {}]

Done == [Idle EXCEPT !.pc = "done"]

Init ==
  /\ lock = NoRequest /\ req = [r \in Requests |-> Idle] /\ round = 0
  /\ evidence = {} /\ spoken = {} /\ bus = {} /\ findings = {}
  /\ belief = [a \in Lawyers |-> {}] /\ written = [a \in Lawyers |-> {}]
  /\ spinner = {} /\ lost = {} /\ crashes = 0 /\ faults = 0

At(r, pc) == req[r].pc = pc

Goto(r, pc) == req' = [req EXCEPT ![r].pc = pc]

\* A call fails; a call does what it is to do.
Fault == faults < MaxFaults /\ faults' = faults + 1
Fine == UNCHANGED faults

\* lockSession waits for the session's mutex, however long that takes.
LockSession(r) == lock = NoRequest /\ lock' = r

\* The handler returns, with or without an error, and unlocks.
Leave(r) ==
  /\ req' = [req EXCEPT ![r] = Done]
  /\ lock' = IF lock = r THEN NoRequest ELSE lock

rowsAndBus == <<round, evidence, spoken, belief, written, bus, findings>>
RecordUnchanged == UNCHANGED <<rowsAndBus, spinner, lost, crashes>>

--------------------------------------------------------------------------------
(* The a2a bus. *)

Payload == [speech   |-> {"content", "stance", "evidence_refs", "reasoning"},
            note     |-> {"content", "stance", "linked_evidence_ids", "reasoning"},
            dispatch |-> {"query", "dispatched_by"},
            report   |-> {"query", "finding_id", "summary"}]

\* Types that are not listed keep their content only.
Whitelist == [speech   |-> {"content", "stance", "evidence_refs"},
              note     |-> {"content"},
              dispatch |-> {"query", "dispatched_by"},
              report   |-> {"query", "finding_id", "summary"}]

\* ref names the search or the speech the message belongs to.
Message(type, from, to, ref) ==
  [type |-> type, from |-> from, to |-> to, ref |-> ref, keys |-> Payload[type],
   visibility |-> IF type = "note" THEN "private" ELSE "public"]

VisibleTo(m, viewer) ==
  m.visibility = "public" \/ m.to = viewer \/ m.from = viewer

\* A public message of another agent loses what is not on the whitelist.
Projected(m, viewer) ==
  IF m.visibility = "private" \/ m.from = viewer THEN m
  ELSE [m EXCEPT !.keys = @ \cap Whitelist[m.type]]

ContextView(viewer) == {Projected(m, viewer) : m \in {n \in bus : VisibleTo(n, viewer)}}

--------------------------------------------------------------------------------
(* Evidence. *)

RequestEvidence(r) ==
  /\ At(r, "idle")
  /\ req' = [req EXCEPT ![r].pc = "await_evidence", ![r].kind = "evidence"]
  /\ UNCHANGED lock /\ Fine /\ RecordUnchanged

SubmitEvidence(r) ==
  /\ At(r, "await_evidence") /\ lock = NoRequest
  /\ \/ Goto(r, "count") /\ LockSession(r)
     \/ Leave(r)                                  \* the phase forbids it
  /\ Fine /\ RecordUnchanged

\* The number is that of the rows counted, plus one; then the LLM weighs the
\* evidence, or the defaults do.
CountEvidence(r) ==
  /\ At(r, "count")
  /\ \/ /\ req' = [req EXCEPT ![r].pc = "insert", ![r].num = Cardinality(evidence) + 1]
        /\ UNCHANGED lock /\ Fine
     \/ Fault /\ Leave(r)
  /\ RecordUnchanged

\* Mutant: the lock is for the numbers only.
InsertAndUnlock(r) ==
  /\ At(r, "insert")
  /\ evidence' = evidence \cup {[num |-> req[r].num, by |-> r]}
  /\ Goto(r, "load") /\ lock' = NoRequest
  /\ Fine
  /\ UNCHANGED <<round, spoken, belief, written, bus, findings, spinner, lost, crashes>>

InsertEvidence(r) ==
  /\ At(r, "insert")
  /\ \/ /\ evidence' = evidence \cup {[num |-> req[r].num, by |-> r]}
        /\ Goto(r, "load") /\ UNCHANGED lock /\ Fine
     \/ Fault /\ Leave(r) /\ UNCHANGED evidence
  /\ UNCHANGED <<round, spoken, belief, written, bus, findings, spinner, lost, crashes>>

\* evidence.added is broadcast and the agents are read; the belief_diffs rows
\* are inserted as far as the database lets them.
LoadAgents(r) ==
  /\ At(r, "load")
  /\ \/ /\ req' = [req EXCEPT ![r].pc = "apply", ![r].loaded = belief, ![r].todo = Lawyers]
        /\ UNCHANGED lock /\ Fine
     \/ Fault /\ Leave(r)
  /\ RecordUnchanged

\* One agent's row after the other, as the database listed them; an error leaves
\* the rest.  (The judge's belief is replaced by its next assessment anyway.)
ApplyEvidence(r) ==
  /\ At(r, "apply")
  /\ \/ \E a \in req[r].todo :
          /\ belief' = [belief EXCEPT ![a] = req[r].loaded[a] \cup {<<"evidence", r>>}]
          /\ written' = [written EXCEPT ![a] = @ \cup {<<"evidence", r>>}]
          /\ req' = [req EXCEPT ![r].todo = @ \ {a}]
          /\ UNCHANGED lock /\ Fine
     \/ req[r].todo = {} /\ Leave(r) /\ Fine /\ UNCHANGED <<belief, written>>
     \/ Fault /\ Leave(r) /\ UNCHANGED <<belief, written>>
  /\ UNCHANGED <<round, evidence, spoken, bus, findings, spinner, lost, crashes>>

--------------------------------------------------------------------------------
(* Rounds. *)

\* The round of the session is read before the lock.
RequestRound(r) ==
  /\ At(r, "idle")
  /\ req' = [req EXCEPT ![r].pc = "await_advance", ![r].kind = "round", ![r].round = round]
  /\ UNCHANGED lock /\ Fine /\ RecordUnchanged

\* Mutant: one round too many.
AdvanceTooFar(r) ==
  /\ At(r, "await_advance") /\ lock = NoRequest
  /\ round' = req[r].round + 1
  /\ req' = [req EXCEPT ![r].pc = "await_round", ![r].round = @ + 1]
  /\ Fine
  /\ UNCHANGED <<lock, evidence, spoken, belief, written, bus, findings, spinner, lost, crashes>>

\* continue_cross_exam and skip_agent lock for the row of the session only and
\* again for the round; the last round ends the trial.
AdvanceRound(r) ==
  /\ At(r, "await_advance") /\ lock = NoRequest
  /\ IF req[r].round < MaxRounds
     THEN /\ round' = req[r].round + 1
          /\ req' = [req EXCEPT ![r].pc = "await_round", ![r].round = @ + 1]
     ELSE req' = [req EXCEPT ![r] = Done] /\ UNCHANGED round
  /\ Fine
  /\ UNCHANGED <<lock, evidence, spoken, belief, written, bus, findings, spinner, lost, crashes>>

\* After a restart the round goes on.
ResumeRound(r) ==
  /\ At(r, "idle") /\ crashes > 0 /\ round > 0
  /\ req' = [req EXCEPT ![r].pc = "await_round", ![r].kind = "round", ![r].round = round]
  /\ UNCHANGED lock /\ Fine /\ RecordUnchanged

LoadSessionData(r) ==
  [req[r] EXCEPT !.pc = "listen", !.loaded = belief,
                 !.todo = {l \in Lawyers : <<req[r].round, l>> \notin spoken}]

\* Agents and messages are read under the lock; who spoke in this round is not
\* asked again.
StartRound(r) ==
  /\ At(r, "await_round") /\ lock = NoRequest
  /\ \/ /\ LockSession(r) /\ Fine
        /\ req' = [req EXCEPT ![r] = LoadSessionData(r)]
     \/ Fault /\ Leave(r)
  /\ RecordUnchanged

\* The prosecutor first; its prompt shows it what it may see of the bus, or
\* nothing when the bus cannot be read.
Listen(r) ==
  /\ At(r, "listen") /\ req[r].todo # {}
  /\ LET l == IF "prosecutor" \in req[r].todo THEN "prosecutor" ELSE "defender"
         Prompt(view) == req' = [req EXCEPT ![r].pc = "think", ![r].who = l, ![r].turn = 0,
                                            ![r].shown = view]
     IN  (Fine /\ Prompt(ContextView(l))) \/ (Fault /\ Prompt({}))
  /\ UNCHANGED lock /\ RecordUnchanged

\* A message is sent, or the bus fails and the speech goes on without.
Post(m) == (Fine /\ bus' = bus \cup {m}) \/ (Fault /\ UNCHANGED bus)

Note(r) == LET l == req[r].who IN Message("note", l, l, <<r, l>>)

Turn(r, pc) == req' = [req EXCEPT ![r].pc = pc, ![r].turn = @ + 1]

\* The search of a speech runs under the lock its round holds already.
CallTool(r) == Turn(r, "started") /\ Fine /\ UNCHANGED bus

\* Reflect, search or speak.
Think(r) ==
  /\ At(r, "think")
  /\ \/ /\ req[r].turn < MaxTurns
        /\ (Turn(r, "think") /\ Post(Note(r))) \/ CallTool(r)
        /\ UNCHANGED lock
     \/ Goto(r, "speak") /\ Fine /\ UNCHANGED <<lock, bus>>
     \/ Fault /\ Leave(r) /\ UNCHANGED bus
  /\ UNCHANGED <<round, evidence, spoken, belief, written, findings, spinner, lost, crashes>>

\* recordSideEffects: the speech for the opponent, then the note for oneself.
SendSpeech(r) ==
  /\ At(r, "speak")
  /\ Post(Message("speech", req[r].who, Opponent(req[r].who), <<r, req[r].who>>))
  /\ Goto(r, "note")
  /\ UNCHANGED <<lock, round, evidence, spoken, belief, written, findings, spinner, lost, crashes>>

SendNote(r) ==
  /\ At(r, "note")
  /\ Post(Note(r))
  /\ Goto(r, "save")
  /\ UNCHANGED <<lock, round, evidence, spoken, belief, written, findings, spinner, lost, crashes>>

SaveSpeech(r) ==
  /\ At(r, "save")
  /\ \/ /\ spoken' = spoken \cup {<<req[r].round, req[r].who>>}
        /\ Goto(r, "move") /\ UNCHANGED lock /\ Fine
     \/ Fault /\ Leave(r) /\ UNCHANGED spoken
  /\ UNCHANGED <<round, evidence, belief, written, bus, findings, spinner, lost, crashes>>

\* applySpeakToBelief moves the belief loaded with the round, if the stance is
\* for a side; it is best effort.
MoveBelief(r) ==
  /\ At(r, "move")
  /\ \/ LET l == req[r].who
            shift == {<<"speech", req[r].round>>}
        IN  /\ belief' = [belief EXCEPT ![l] = req[r].loaded[l] \cup shift]
            /\ written' = [written EXCEPT ![l] = @ \cup shift]
     \/ UNCHANGED <<belief, written>>
  /\ req' = [req EXCEPT ![r].pc = "listen", ![r].todo = @ \ {req[r].who}, ![r].shown = {}]
  /\ Fine
  /\ UNCHANGED <<lock, round, evidence, spoken, bus, findings, spinner, lost, crashes>>

\* The judge assesses, the clerk summarises, the round is over.
EndRound(r) ==
  /\ At(r, "listen") /\ req[r].todo = {}
  /\ Leave(r)
  /\ Fine /\ RecordUnchanged

--------------------------------------------------------------------------------
(* Investigations: a user's, or a tool call of a speech. *)

Search(r) == <<r, req[r].who>>

RequestDispatch(r, l) ==
  /\ At(r, "idle")
  /\ req' = [req EXCEPT ![r].pc = "await_dispatch", ![r].kind = "dispatch", ![r].who = l]
  /\ UNCHANGED lock /\ Fine /\ RecordUnchanged

DispatchInvestigator(r) ==
  /\ At(r, "await_dispatch") /\ lock = NoRequest
  /\ \/ Goto(r, "started") /\ LockSession(r)
     \/ Leave(r)                                  \* no such side, empty query
  /\ Fine /\ RecordUnchanged

SearchStarted(r) ==
  /\ At(r, "started")
  /\ spinner' = spinner \cup {Search(r)}
  /\ Goto(r, "search")
  /\ Fine /\ UNCHANGED <<lock, rowsAndBus, lost, crashes>>

\* A step of RecordFinding goes on to pc, or its error to the caller.
Succeeds(r, pc) == Fine /\ Goto(r, pc) /\ UNCHANGED lock
Errs(r) == Fault /\ Goto(r, "completed") /\ UNCHANGED lock

\* Mutant: an error returns before search.completed.
RunSearchOrReturn(r) ==
  /\ At(r, "search")
  /\ Succeeds(r, "dispatch") \/ (Fault /\ Leave(r))
  /\ RecordUnchanged

RunSearch(r) ==
  /\ At(r, "search")
  /\ Succeeds(r, "dispatch") \/ Errs(r)
  /\ RecordUnchanged

SendDispatch(r) ==
  /\ At(r, "dispatch")
  /\ \/ /\ bus' = bus \cup {Message("dispatch", req[r].who, "investigator", Search(r))}
        /\ Succeeds(r, "persist")
     \/ Errs(r) /\ UNCHANGED bus
  /\ UNCHANGED <<round, evidence, spoken, belief, written, findings, spinner, lost, crashes>>

\* Mutant: the search is reported whether its finding is stored or not.
PersistBestEffort(r) ==
  /\ At(r, "persist")
  /\ findings' \in {findings, findings \cup {Search(r)}}
  /\ Succeeds(r, "report")
  /\ UNCHANGED <<round, evidence, spoken, belief, written, bus, spinner, lost, crashes>>

PersistFinding(r) ==
  /\ At(r, "persist")
  /\ \/ findings' = findings \cup {Search(r)} /\ Succeeds(r, "report")
     \/ Errs(r) /\ UNCHANGED findings
  /\ UNCHANGED <<round, evidence, spoken, belief, written, bus, spinner, lost, crashes>>

\* The finding stays when the report cannot be sent, though the caller gets an
\* error.
SendReport(r) ==
  /\ At(r, "report")
  /\ Post(Message("report", "investigator", req[r].who, Search(r)))
  /\ Goto(r, "completed") /\ UNCHANGED lock
  /\ UNCHANGED <<round, evidence, spoken, belief, written, findings, spinner, lost, crashes>>

\* search.completed is deferred: it follows success and failure alike; to a
\* speech both are an observation.
SearchCompleted(r) ==
  /\ At(r, "completed")
  /\ spinner' = spinner \ {Search(r)}
  /\ IF req[r].kind = "round" THEN Goto(r, "think") /\ UNCHANGED lock ELSE Leave(r)
  /\ Fine /\ UNCHANGED <<rowsAndBus, lost, crashes>>

--------------------------------------------------------------------------------
\* The server restarts; what was in flight is gone.
Crash ==
  /\ crashes < MaxCrashes
  /\ req' = [r \in Requests |-> IF At(r, "idle") THEN req[r] ELSE Done]
  /\ lock' = NoRequest /\ crashes' = crashes + 1 /\ lost' = lost \cup spinner
  /\ Fine /\ UNCHANGED <<rowsAndBus, spinner>>

Step(r) ==
  \/ SubmitEvidence(r) \/ CountEvidence(r) \/ InsertEvidence(r) \/ LoadAgents(r)
  \/ ApplyEvidence(r)
  \/ AdvanceRound(r) \/ StartRound(r) \/ Listen(r) \/ Think(r) \/ SendSpeech(r)
  \/ SendNote(r) \/ SaveSpeech(r) \/ MoveBelief(r) \/ EndRound(r)
  \/ DispatchInvestigator(r) \/ SearchStarted(r) \/ RunSearch(r) \/ SendDispatch(r)
  \/ PersistFinding(r) \/ SendReport(r) \/ SearchCompleted(r)

Next ==
  \/ \E r \in Requests : RequestEvidence(r) \/ RequestRound(r) \/ ResumeRound(r)
  \/ \E r \in Requests, l \in Lawyers : RequestDispatch(r, l)
  \/ \E r \in Requests : Step(r)
  \/ Crash

\* Database, LLM and search calls return, with an error if need be, for each has
\* its timeout.  Nobody has to ask for anything.
Spec == Init /\ [][Next]_vars /\ \A r \in Requests : WF_vars(Step(r))

--------------------------------------------------------------------------------
(* Properties. *)

Influences == ({"evidence"} \X Requests) \cup ({"speech"} \X (1..MaxRounds))
Searches == Requests \X Lawyers
Types == DOMAIN Payload

TypeOK ==
  /\ lock \in Requests \cup {NoRequest} /\ round \in 0..MaxRounds
  /\ \A r \in Requests :
       /\ req[r].kind \in {"none", "evidence", "round", "dispatch"}
       /\ req[r].who \in Lawyers /\ req[r].round \in 0..MaxRounds
       /\ req[r].turn \in 0..MaxTurns /\ req[r].todo \subseteq Lawyers
       /\ req[r].num \in 0..Cardinality(Requests)
  /\ evidence \subseteq [num : 1..Cardinality(Requests), by : Requests]
  /\ spoken \subseteq (1..MaxRounds) \X Lawyers
  /\ belief \in [Lawyers -> SUBSET Influences] /\ written \in [Lawyers -> SUBSET Influences]
  /\ \A m \in bus : m.type \in Types /\ m.ref \in Searches
  /\ findings \subseteq Searches /\ spinner \subseteq Searches /\ lost \subseteq Searches
  /\ crashes \in 0..MaxCrashes /\ faults \in 0..MaxFaults

\* No two pieces of evidence of a session have the same number: COUNT, the
\* weighing by the LLM and INSERT are one under the lock (evidence.Create has
\* neither a transaction nor a unique index).
NumbersUnique == \A e, f \in evidence : e.num = f.num => e = f

\* A report on the bus has its finding in the database, and a finding was
\* announced on the bus, whatever failed or crashed on the way.
FindingsAnnounced ==
  /\ \A m \in bus : m.type = "report" => m.ref \in findings
  /\ \A f \in findings : \E m \in bus : m.type = "dispatch" /\ m.ref = f /\ m.from = f[2]

\* A lawyer's prompt has neither the other side's notes nor its reasoning, and
\* still has everything of its own that it was to see.
OpponentKept ==
  \A r \in Requests : \A m \in req[r].shown :
    \/ m.from = req[r].who /\ m.keys = Payload[m.type]
    \/ m.from # req[r].who /\ m.visibility = "public" /\ "reasoning" \notin m.keys

\* The record as a reader finds it.
RecordSound == NumbersUnique /\ FindingsAnnounced /\ OpponentKept

\* No lawyer's belief loses what an evidence or a speech had written into it:
\* the handlers write beliefs computed from agents read earlier.
NoLostUpdate == \A l \in Lawyers : written[l] \subseteq belief[l]

\* A request that came in is answered, and the search it announced is announced
\* as completed, unless the server went down meanwhile.
Settles ==
  \A r \in Requests :
    ~At(r, "idle") ~> At(r, "done") /\ \A l \in Lawyers : <<r, l>> \notin spinner \ lost
================================================================================
