---------------------------- MODULE Casework_proofs ----------------------------
(***************************************************************************)
(* What TLAPS proves of a session's record (Casework), for any number of   *)
(* requests, rounds, turns, crashes and faults.                            *)
(*                                                                         *)
(* What the properties need is that nothing a handler has read changes     *)
(* before it writes: the count of the evidence until the row is inserted,  *)
(* the agents until their beliefs are written.  The invariant gives to     *)
(* every request what it may rely on where it is (Own); a step of another  *)
(* request keeps that because only the holder of the session lock writes   *)
(* rows of evidence and beliefs (Mild, OthersKeep), and a crash keeps it   *)
(* because it forgets what was read.                                       *)
(***************************************************************************)
EXTENDS Casework, FiniteSetTheorems, TLAPS

\* Where a request is.
Waiting == {"idle", "await_evidence", "await_advance", "await_round", "await_dispatch"}
\* Where a lawyer's speech is made, and where a search runs.
Speaking == {"think", "speak", "note", "save", "move"}
Searching == {"started", "search", "dispatch", "persist", "report", "completed"}
\* Where its handler holds the session lock.
Critical == {"count", "insert", "load", "apply", "listen"} \cup Speaking \cup Searching
Places == Waiting \cup Critical \cup {"done"}

\* What messages are made of.
Parties == Lawyers \cup {"investigator"}
Keys == UNION {Payload[t] : t \in Types}
Messages == [type : Types, from : Parties, to : Parties, ref : Searches, keys : SUBSET Keys,
             visibility : {"private", "public"}]

\* What TypeOK says of a request, and more.
RequestType ==
  [pc : Places, kind : {"none", "evidence", "round", "dispatch"}, who : Lawyers,
   round : 0..MaxRounds, num : 0..Cardinality(Requests), turn : 0..MaxTurns,
   loaded : [Lawyers -> SUBSET Influences], todo : SUBSET Lawyers, shown : SUBSET Messages]

\* A message as a viewer may see it.
SeenBy(m, viewer) ==
  \/ m.from = viewer /\ m.keys = Payload[m.type]
  \/ m.from # viewer /\ m.visibility = "public" /\ "reasoning" \notin m.keys

\* A speech of a round is made, or searches for one.
InSpeech(q) == q.pc \in Speaking \/ (q.kind = "round" /\ q.pc \in Searching)

\* A request's state, in the state of the record.
Own(r) ==
  LET q == req[r] IN
  /\ q.pc \in Critical => lock = r
  /\ q.pc \in Waiting => q.todo = {} /\ q.shown = {}
  /\ q.pc = "await_dispatch" => q.kind = "dispatch"
  /\ q.pc \in {"idle", "await_evidence", "count", "insert"} => \A e \in evidence : e.by # r
  /\ q.pc = "insert" => q.num = Cardinality(evidence) + 1
  /\ InSpeech(q) => q.who \in q.todo
  /\ InSpeech(q) \/ q.pc \in {"await_round", "listen"} => q.round > 0
  /\ q.pc \in Critical => \A a \in q.todo : written[a] \subseteq q.loaded[a]
  /\ q.pc = "persist" =>
       \E m \in bus : m.type = "dispatch" /\ m.ref = <<r, q.who>> /\ m.from = q.who
  /\ q.pc = "report" => <<r, q.who>> \in findings
  /\ \A m \in q.shown : SeenBy(m, q.who)

\* The types of what is not a request's.
Rows ==
  /\ lock \in Requests \cup {NoRequest} /\ round \in 0..MaxRounds
  /\ spoken \subseteq (1..MaxRounds) \X Lawyers
  /\ belief \in [Lawyers -> SUBSET Influences] /\ written \in [Lawyers -> SUBSET Influences]
  /\ findings \subseteq Searches /\ spinner \subseteq Searches /\ lost \subseteq Searches
  /\ crashes \in 0..MaxCrashes /\ faults \in 0..MaxFaults

\* Numbers are counted up, a request submits once.
Numbers ==
  /\ evidence \subseteq [num : 1..Cardinality(Requests), by : Requests]
  /\ IsFiniteSet(evidence)
  /\ \A e \in evidence : e.num <= Cardinality(evidence)
  /\ \A e, f \in evidence : e.num = f.num \/ e.by = f.by => e = f

\* Messages have the fields of their type; only notes to oneself are private.
Bus ==
  /\ bus \subseteq Messages
  /\ \A m \in bus : m.keys = Payload[m.type] /\ (m.visibility = "private" => m.from = m.to)

\* The inductive invariant.
RecordInv ==
  /\ req \in [Requests -> RequestType]
  /\ Rows /\ Numbers /\ Bus /\ FindingsAnnounced /\ NoLostUpdate
  /\ \A r \in Requests : Own(r)

--------------------------------------------------------------------------------
(* Requests. *)

\* The places are told apart once and for all.
LEMMA PlacesApart ==
  /\ Waiting \cap Critical = {} /\ Speaking \cap Searching = {}
  /\ Speaking \subseteq Critical /\ Searching \subseteq Critical
  /\ "done" \notin Waiting \cup Critical
  BY DEF Waiting, Critical, Speaking, Searching

\* The fields of a request have their types.
LEMMA RequestFields ==
  ASSUME NEW q \in RequestType
  PROVE  /\ q.pc \in Places /\ q.kind \in {"none", "evidence", "round", "dispatch"}
         /\ q.who \in Lawyers /\ q.round \in 0..MaxRounds /\ q.num \in 0..Cardinality(Requests)
         /\ q.turn \in 0..MaxTurns /\ q.loaded \in [Lawyers -> SUBSET Influences]
         /\ q.todo \in SUBSET Lawyers /\ q.shown \in SUBSET Messages
  BY DEF RequestType

\* What CaseworkAssumption says of the numbers.
LEMMA Constants ==
  /\ MaxRounds \in Nat /\ MaxRounds > 0 /\ MaxTurns \in Nat
  /\ MaxCrashes \in Nat /\ MaxFaults \in Nat
  /\ IsFiniteSet(Requests) /\ Cardinality(Requests) \in Nat
  BY CaseworkAssumption, FS_CardinalityType

\* A request that has not come in yet, and one that is answered.
LEMMA IdleOK ==
  /\ Idle \in RequestType /\ Idle.pc = "idle" /\ Idle.todo = {} /\ Idle.shown = {}
  /\ Done \in RequestType /\ Done.pc = "done" /\ Done.shown = {}
<1>1. [a \in Lawyers |-> {}] \in [Lawyers -> SUBSET Influences]
  OBVIOUS
<1>2. "idle" \in Places /\ "done" \in Places /\ "prosecutor" \in Lawyers
  BY DEF Places, Waiting, Lawyers
<1>3. Idle \in RequestType
  BY <1>1, <1>2, Constants DEF Idle, RequestType
<1>4. Idle.pc = "idle" /\ Idle.todo = {} /\ Idle.shown = {}
  BY DEF Idle
<1>5. Done \in RequestType /\ Done.pc = "done" /\ Done.shown = Idle.shown
  BY <1>2, <1>3 DEF Done, RequestType
<1>6. QED
  BY <1>3, <1>4, <1>5

\* Going on changes the place alone.
LEMMA GotoOK ==
  ASSUME req \in [Requests -> RequestType], NEW r \in Requests, NEW pc \in Places, Goto(r, pc)
  PROVE  /\ req' \in [Requests -> RequestType]
         /\ \A s \in Requests \ {r} : req'[s] = req[s]
         /\ req'[r].pc = pc /\ req'[r].kind = req[r].kind /\ req'[r].who = req[r].who
         /\ req'[r].round = req[r].round /\ req'[r].num = req[r].num
         /\ req'[r].turn = req[r].turn /\ req'[r].loaded = req[r].loaded
         /\ req'[r].todo = req[r].todo /\ req'[r].shown = req[r].shown
<1> DEFINE q == [req[r] EXCEPT !.pc = pc]
<1>1. req[r] \in RequestType
  OBVIOUS
<1>2. /\ q \in RequestType /\ q.pc = pc /\ q.kind = req[r].kind /\ q.who = req[r].who
      /\ q.round = req[r].round /\ q.num = req[r].num
      /\ q.turn = req[r].turn /\ q.loaded = req[r].loaded
      /\ q.todo = req[r].todo /\ q.shown = req[r].shown
  BY <1>1 DEF RequestType
<1>3. req' = [req EXCEPT ![r] = q]
  BY DEF Goto
<1> HIDE DEF q
<1>4. req'[r] = q
  BY <1>3
<1>5. QED
  BY <1>2, <1>3, <1>4

\* Leaving ends the request and hands back no lock but its own.
LEMMA LeaveOK ==
  ASSUME req \in [Requests -> RequestType], NEW r \in Requests, Leave(r),
         lock \in Requests \cup {NoRequest}
  PROVE  /\ req' \in [Requests -> RequestType]
         /\ \A s \in Requests \ {r} : req'[s] = req[s]
         /\ req'[r] = Done
         /\ lock' \in Requests \cup {NoRequest}
         /\ \A s \in Requests \ {r} : lock = s => lock' = s
  BY IdleOK DEF Leave

--------------------------------------------------------------------------------
(* What a step of one request leaves to the others. *)

\* Messages, findings and the locks of others stay; a row of evidence or an
\* influence is written by the holder of the lock, for itself.
Mild(r) ==
  /\ \A s \in Requests \ {r} : req'[s] = req[s] /\ (lock = s => lock' = s)
  /\ bus \subseteq bus' /\ findings \subseteq findings'
  /\ \A e \in evidence' : e \in evidence \/ e.by = r
  /\ evidence' = evidence \/ lock = r
  /\ written' = written \/ lock = r

\* The others' states stay true of the record: who computes a number or holds
\* agents it has read holds the lock, so that nothing it read is written.
LEMMA OthersKeep ==
  ASSUME RecordInv, NEW r \in Requests, Mild(r), NEW s \in Requests, s # r
  PROVE  Own(s)'
<1>0. /\ req'[s] = req[s] /\ Own(s) /\ (lock = s => lock' = s)
      /\ bus \subseteq bus' /\ findings \subseteq findings'
  BY DEF Mild, RecordInv
<1> DEFINE q == req[s]
<1>1. q.pc \in Critical => lock = s /\ evidence' = evidence /\ written' = written
  BY <1>0 DEF Own, Mild
<1>2. q.pc \in {"idle", "await_evidence", "count", "insert"} => \A e \in evidence' : e.by # s
  BY <1>0 DEF Own, Mild
<1>3. q.pc = "insert" => q.num = Cardinality(evidence') + 1
  BY <1>0, <1>1 DEF Own, Critical
<1>4. q.pc \in Critical => \A a \in q.todo : written'[a] \subseteq q.loaded[a]
  BY <1>0, <1>1 DEF Own
<1>5. q.pc = "persist" =>
        \E m \in bus' : m.type = "dispatch" /\ m.ref = <<s, q.who>> /\ m.from = q.who
  BY <1>0 DEF Own
<1>6. q.pc = "report" => <<s, q.who>> \in findings'
  BY <1>0 DEF Own
<1>7. q.pc \in Critical => lock' = s
  BY <1>0, <1>1
<1>8. /\ q.pc \in Waiting => q.todo = {} /\ q.shown = {}
      /\ q.pc = "await_dispatch" => q.kind = "dispatch"
      /\ InSpeech(q) => q.who \in q.todo
      /\ InSpeech(q) \/ q.pc \in {"await_round", "listen"} => q.round > 0
      /\ \A m \in q.shown : SeenBy(m, q.who)
  BY <1>0 DEF Own
<1> HIDE DEF q
<1>9. req'[s] = q
  BY <1>0 DEF q
<1>10. QED
  BY <1>2, <1>3, <1>4, <1>5, <1>6, <1>7, <1>8, <1>9 DEF Own

\* A step of one request keeps the invariant if it is mild and keeps the record
\* and its own part.
LEMMA StepInv ==
  ASSUME RecordInv, NEW r \in Requests, Mild(r), req' \in [Requests -> RequestType],
         Rows', Numbers', Bus', FindingsAnnounced', NoLostUpdate', Own(r)'
  PROVE  RecordInv'
<1>1. \A s \in Requests : Own(s)'
  BY OthersKeep
<1>2. QED
  BY <1>1 DEF RecordInv

\* What a step leaves alone stays as it was.
LEMMA Kept ==
  ASSUME RecordInv
  PROVE  /\ UNCHANGED evidence => Numbers'
         /\ UNCHANGED bus => Bus'
         /\ UNCHANGED <<bus, findings>> => FindingsAnnounced'
         /\ UNCHANGED <<belief, written>> => NoLostUpdate'
  BY DEF RecordInv, Numbers, Bus, FindingsAnnounced, NoLostUpdate

\* A fault counts, if it is counted.
LEMMA FaultsOK ==
  ASSUME Rows, Fault \/ Fine
  PROVE  faults' \in 0..MaxFaults
  BY Constants DEF Rows, Fault, Fine

\* A step that writes no rows.
LEMMA QuietStep ==
  ASSUME RecordInv, NEW r \in Requests, UNCHANGED rowsAndBus,
         \A s \in Requests \ {r} : req'[s] = req[s] /\ (lock = s => lock' = s),
         req' \in [Requests -> RequestType], lock' \in Requests \cup {NoRequest},
         spinner' \subseteq Searches, UNCHANGED <<lost, crashes>>, Fault \/ Fine, Own(r)'
  PROVE  RecordInv'
<1>1. Rows'
  BY FaultsOK DEF RecordInv, Rows, rowsAndBus
<1>2. Mild(r)
  BY DEF Mild, rowsAndBus
<1>3. Numbers' /\ Bus' /\ FindingsAnnounced' /\ NoLostUpdate'
  BY Kept DEF rowsAndBus
<1>4. QED
  BY <1>1, <1>2, <1>3, StepInv

\* The state of a request that leaves says nothing.
LEMMA DoneOwn ==
  ASSUME NEW r \in Requests, req'[r] = Done
  PROVE  Own(r)'
<1>1. Done.pc = "done" /\ Done.shown = {}
  BY IdleOK
<1>2. QED
  BY <1>1, PlacesApart DEF Own, InSpeech

\* A handler that returns and changes no row.
LEMMA LeaveStep ==
  ASSUME RecordInv, NEW r \in Requests, Leave(r), UNCHANGED <<rowsAndBus, lost, crashes>>,
         spinner' \subseteq Searches, Fault \/ Fine
  PROVE  RecordInv'
<1>1. req \in [Requests -> RequestType] /\ lock \in Requests \cup {NoRequest}
  BY DEF RecordInv, Rows
<1>2. QED
  BY <1>1, LeaveOK, DoneOwn, QuietStep

--------------------------------------------------------------------------------
(* Evidence. *)

\* The invariant, of one request.
LEMMA Opened ==
  ASSUME RecordInv, NEW r \in Requests
  PROVE  /\ req \in [Requests -> RequestType] /\ req[r] \in RequestType /\ Own(r)
         /\ lock \in Requests \cup {NoRequest}
         /\ spinner \subseteq Searches /\ round \in 0..MaxRounds
         /\ NoRequest \notin Requests
  BY CaseworkAssumption DEF RecordInv, Rows

\* A request comes in.
LEMMA RequestSteps ==
  ASSUME RecordInv, NEW r \in Requests
  PROVE  RequestEvidence(r) \/ RequestRound(r) \/ ResumeRound(r) => RecordInv'
<1>0. /\ req \in [Requests -> RequestType] /\ req[r] \in RequestType /\ Own(r)
      /\ round \in 0..MaxRounds /\ spinner \subseteq Searches
      /\ lock \in Requests \cup {NoRequest}
  BY Opened
<1>1. ASSUME NEW pc \in {"await_evidence", "await_advance", "await_round"},
             NEW kind \in {"evidence", "round"}, NEW n \in 0..MaxRounds,
             At(r, "idle"), pc = "await_round" => n > 0,
             req' = [req EXCEPT ![r] = [req[r] EXCEPT !.pc = pc, !.kind = kind, !.round = n]],
             UNCHANGED lock, Fine, RecordUnchanged
      PROVE  RecordInv'
  <2> DEFINE q == [req[r] EXCEPT !.pc = pc, !.kind = kind, !.round = n]
  <2>1. pc \in Places /\ pc \in Waiting
    BY DEF Places, Waiting
  <2>2. /\ q \in RequestType /\ q.pc = pc /\ q.kind = kind /\ q.round = n /\ q.who = req[r].who
        /\ q.todo = req[r].todo /\ q.shown = req[r].shown
    BY <1>0, <2>1 DEF RequestType
  <2>3. req' = [req EXCEPT ![r] = q]
    BY <1>1
  <2> HIDE DEF q
  <2>4. /\ req' \in [Requests -> RequestType] /\ req'[r] = q
        /\ \A s \in Requests \ {r} : req'[s] = req[s]
    BY <1>0, <2>2, <2>3
  <2>5. q.todo = {} /\ q.shown = {} /\ (\A e \in evidence : e.by # r)
    BY <1>0, <1>1, <2>2 DEF Own, At, Waiting
  <2>6. q.pc \notin Critical /\ q.pc \notin Speaking /\ q.pc \notin Searching
    BY <2>1, <2>2, PlacesApart
  <2>7. evidence' = evidence
    BY <1>1 DEF RecordUnchanged, rowsAndBus
  <2>8. Own(r)'
    BY <1>1, <2>2, <2>4, <2>5, <2>6, <2>7 DEF Own, InSpeech
  <2>9. QED
    BY <1>0, <1>1, <2>4, <2>8, QuietStep DEF RecordUnchanged
<1>2. CASE RequestEvidence(r)
  <2>1. PICK n : n = req[r].round
    OBVIOUS
  <2>2. n \in 0..MaxRounds
    BY <1>0, <2>1, RequestFields
  <2>3. req' = [req EXCEPT ![r] = [req[r] EXCEPT !.pc = "await_evidence", !.kind = "evidence",
                                                   !.round = n]]
    <3>1. [req[r] EXCEPT !.pc = "await_evidence", !.kind = "evidence", !.round = req[r].round]
            = [req[r] EXCEPT !.pc = "await_evidence", !.kind = "evidence"]
      BY <1>0 DEF RequestType
    <3>2. QED
      BY <1>2, <2>1, <3>1 DEF RequestEvidence
  <2>4. QED
    BY <1>1, <1>2, <2>2, <2>3 DEF RequestEvidence
<1>3. CASE RequestRound(r)
  <2>1. PICK n : n = round
    OBVIOUS
  <2>2. req' = [req EXCEPT ![r] = [req[r] EXCEPT !.pc = "await_advance", !.kind = "round",
                                                   !.round = n]]
    BY <1>3, <2>1 DEF RequestRound
  <2>3. QED
    BY <1>0, <1>1, <1>3, <2>1, <2>2 DEF RequestRound
<1>4. CASE ResumeRound(r)
  <2>1. PICK n : n = round
    OBVIOUS
  <2>2. req' = [req EXCEPT ![r] = [req[r] EXCEPT !.pc = "await_round", !.kind = "round",
                                                   !.round = n]]
    BY <1>4, <2>1 DEF ResumeRound
  <2>3. n > 0
    BY <1>4, <2>1 DEF ResumeRound
  <2>4. QED
    BY <1>0, <1>1, <1>4, <2>1, <2>2, <2>3 DEF ResumeRound
<1>5. QED
  BY <1>2, <1>3, <1>4

\* A handler takes the lock, or returns.
LEMMA SubmitStep ==
  ASSUME RecordInv, NEW r \in Requests, SubmitEvidence(r)
  PROVE  RecordInv'
<1>0. /\ req \in [Requests -> RequestType] /\ req[r] \in RequestType /\ Own(r)
      /\ lock \in Requests \cup {NoRequest} /\ spinner \subseteq Searches
      /\ NoRequest \notin Requests
  BY Opened
<1>1. CASE Leave(r)
  BY <1>1, LeaveStep, <1>0 DEF SubmitEvidence, RecordUnchanged
<1>2. CASE Goto(r, "count") /\ LockSession(r)
  <2>1. "count" \in Places
    BY DEF Places, Critical
  <2>2. /\ req' \in [Requests -> RequestType] /\ req'[r].pc = "count"
        /\ \A s \in Requests \ {r} : req'[s] = req[s]
        /\ req'[r].todo = req[r].todo /\ req'[r].shown = req[r].shown
    BY <1>0, <1>2, <2>1, GotoOK
  <2>3. req[r].todo = {} /\ req[r].shown = {} /\ (\A e \in evidence : e.by # r)
    BY <1>0 DEF SubmitEvidence, Own, At, Waiting
  <2>4. lock' = r /\ lock = NoRequest /\ evidence' = evidence
    BY <1>2 DEF LockSession, SubmitEvidence, RecordUnchanged, rowsAndBus
  <2>5. Own(r)'
    BY <2>2, <2>3, <2>4 DEF Own, InSpeech, Waiting, Speaking, Searching
  <2>6. QED
    BY <1>0, <2>2, <2>4, <2>5, QuietStep DEF SubmitEvidence, RecordUnchanged
<1>3. QED
  BY <1>1, <1>2 DEF SubmitEvidence

\* There is a number for every request: those that have submitted, and this one.
LEMMA NumbersSuffice ==
  ASSUME Numbers, NEW r \in Requests, \A e \in evidence : e.by # r
  PROVE  Cardinality(evidence) \in Nat /\ Cardinality(evidence) + 1 \in 1..Cardinality(Requests)
<1> DEFINE T == Requests \ {r}
           f == [e \in evidence |-> e.by]
<1>1. IsFiniteSet(evidence) /\ Cardinality(evidence) \in Nat
  BY FS_CardinalityType DEF Numbers
<1>2. IsFiniteSet(T) /\ Cardinality(T) = Cardinality(Requests) - 1
  BY FS_RemoveElement, Constants
<1>3. f \in [evidence -> T]
  BY DEF Numbers
<1>4. \A d, e \in evidence : f[d] = f[e] => d = e
  BY DEF Numbers
<1> HIDE DEF T, f
<1>5. ~(Cardinality(T) < Cardinality(evidence))
  BY <1>1, <1>2, <1>3, <1>4, FS_PigeonHole
<1>6. Cardinality(Requests) \in Nat
  BY Constants
<1>7. QED
  BY <1>1, <1>2, <1>5, <1>6

\* The number is computed under the lock.
LEMMA CountStep ==
  ASSUME RecordInv, NEW r \in Requests, CountEvidence(r)
  PROVE  RecordInv'
<1>0. /\ req \in [Requests -> RequestType] /\ req[r] \in RequestType /\ Own(r)
      /\ lock \in Requests \cup {NoRequest} /\ spinner \subseteq Searches
  BY Opened
<1>1. CASE Fault /\ Leave(r)
  BY <1>1, LeaveStep, <1>0 DEF CountEvidence, RecordUnchanged
<1>2. CASE /\ req' = [req EXCEPT ![r].pc = "insert", ![r].num = Cardinality(evidence) + 1]
           /\ UNCHANGED lock /\ Fine
  <2>1. /\ lock = r /\ \A e \in evidence : e.by # r
        /\ req[r].todo = {} \/ \A a \in req[r].todo : written[a] \subseteq req[r].loaded[a]
    BY <1>0 DEF CountEvidence, At, Own, Critical
  <2>2. PICK n : n = Cardinality(evidence) + 1
    OBVIOUS
  <2>3. n \in 0..Cardinality(Requests)
    BY <2>1, <2>2, NumbersSuffice DEF RecordInv
  <2> DEFINE q == [req[r] EXCEPT !.pc = "insert", !.num = n]
  <2>4. "insert" \in Places
    BY DEF Places, Critical
  <2>5. /\ q \in RequestType /\ q.pc = "insert" /\ q.num = n /\ q.todo = req[r].todo
        /\ q.shown = req[r].shown /\ q.loaded = req[r].loaded /\ q.who = req[r].who
    BY <1>0, <2>3, <2>4 DEF RequestType
  <2>6. req' = [req EXCEPT ![r] = q]
    BY <1>2, <2>2
  <2> HIDE DEF q
  <2>7. /\ req' \in [Requests -> RequestType] /\ req'[r] = q
        /\ \A s \in Requests \ {r} : req'[s] = req[s]
    BY <1>0, <2>5, <2>6
  <2>8. evidence' = evidence /\ written' = written /\ lock' = r
    BY <1>2, <2>1 DEF CountEvidence, RecordUnchanged, rowsAndBus
  <2>9. \A m \in req[r].shown : SeenBy(m, req[r].who)
    BY <1>0 DEF Own
  <2>10. Own(r)'
    BY <2>1, <2>2, <2>5, <2>7, <2>8, <2>9 DEF Own, InSpeech, Waiting, Speaking, Searching
  <2>11. QED
    BY <1>0, <1>2, <2>7, <2>10, QuietStep DEF CountEvidence, RecordUnchanged
<1>3. QED
  BY <1>1, <1>2 DEF CountEvidence

\* The row is inserted under the same lock, with a number above all others'.
LEMMA InsertStep ==
  ASSUME RecordInv, NEW r \in Requests, InsertEvidence(r)
  PROVE  RecordInv'
<1>0. /\ req \in [Requests -> RequestType] /\ req[r] \in RequestType /\ Own(r)
      /\ lock \in Requests \cup {NoRequest} /\ spinner \subseteq Searches
  BY Opened
<1>1. CASE Fault /\ Leave(r) /\ UNCHANGED evidence
  BY <1>1, LeaveStep, <1>0 DEF InsertEvidence, rowsAndBus
<1>2. CASE /\ evidence' = evidence \cup {[num |-> req[r].num, by |-> r]}
           /\ Goto(r, "load") /\ UNCHANGED lock /\ Fine
  <2>1. /\ lock = r /\ req[r].num = Cardinality(evidence) + 1 /\ \A e \in evidence : e.by # r
        /\ \A a \in req[r].todo : written[a] \subseteq req[r].loaded[a]
        /\ \A m \in req[r].shown : SeenBy(m, req[r].who)
    BY <1>0 DEF InsertEvidence, At, Own, Critical
  <2>2. "load" \in Places
    BY DEF Places, Critical
  <2>3. /\ req' \in [Requests -> RequestType] /\ req'[r].pc = "load"
        /\ \A s \in Requests \ {r} : req'[s] = req[s]
        /\ req'[r].todo = req[r].todo /\ req'[r].shown = req[r].shown
        /\ req'[r].loaded = req[r].loaded /\ req'[r].who = req[r].who
    BY <1>0, <1>2, <2>2, GotoOK
  <2>4. /\ lock' = r /\ written' = written /\ UNCHANGED <<bus, findings, belief>>
        /\ UNCHANGED <<round, spoken, spinner, lost, crashes>>
    BY <1>2, <2>1 DEF InsertEvidence
  <2>5. Own(r)'
    BY <2>1, <2>3, <2>4 DEF Own, InSpeech, Waiting, Speaking, Searching
  <2>6. Mild(r)
    BY <1>2, <2>1, <2>3, <2>4 DEF Mild
  <2>7. Rows'
    BY <1>2, <2>4, FaultsOK DEF RecordInv, Rows
  <2>8. Numbers'
    <3> DEFINE row == [num |-> req[r].num, by |-> r]
               k   == Cardinality(evidence)
    <3>1. k \in Nat /\ k + 1 \in 1..Cardinality(Requests)
      BY <2>1, NumbersSuffice DEF RecordInv
    <3>2. row \in [num : 1..Cardinality(Requests), by : Requests] /\ row.num = k + 1 /\ row.by = r
      BY <2>1, <3>1
    <3>3. /\ evidence \subseteq [num : 1..Cardinality(Requests), by : Requests]
          /\ IsFiniteSet(evidence) /\ \A e \in evidence : e.num <= k /\ e.num \in Nat
          /\ \A e, f \in evidence : e.num = f.num \/ e.by = f.by => e = f
      BY DEF RecordInv, Numbers
    <3>4. evidence' = evidence \cup {row}
      BY <1>2
    <3> HIDE DEF row
    <3>5. row \notin evidence
      BY <2>1, <3>2
    <3>6. IsFiniteSet(evidence') /\ Cardinality(evidence') = k + 1
      BY <3>3, <3>4, <3>5, FS_AddElement
    <3> HIDE DEF k
    <3>7. \A e \in evidence' : e.num <= k + 1
      BY <3>1, <3>2, <3>3, <3>4
    <3>8. \A e \in evidence : e.num # row.num /\ e.by # row.by
      BY <2>1, <3>1, <3>2, <3>3
    <3>9. QED
      BY <3>2, <3>3, <3>4, <3>6, <3>7, <3>8 DEF Numbers
  <2>9. QED
    BY <2>3, <2>4, <2>5, <2>6, <2>7, <2>8, Kept, StepInv
<1>3. QED
  BY <1>1, <1>2 DEF InsertEvidence

\* The agents are read under the lock: what they are made of is all that was written.
LEMMA LoadStep ==
  ASSUME RecordInv, NEW r \in Requests, LoadAgents(r)
  PROVE  RecordInv'
<1>0. /\ req \in [Requests -> RequestType] /\ req[r] \in RequestType /\ Own(r)
      /\ lock \in Requests \cup {NoRequest} /\ spinner \subseteq Searches
  BY Opened
<1>1. CASE Fault /\ Leave(r)
  BY <1>1, LeaveStep, <1>0 DEF LoadAgents, RecordUnchanged
<1>2. CASE /\ req' = [req EXCEPT ![r].pc = "apply", ![r].loaded = belief, ![r].todo = Lawyers]
           /\ UNCHANGED lock /\ Fine
  <2>1. /\ lock = r /\ \A m \in req[r].shown : SeenBy(m, req[r].who)
    BY <1>0 DEF LoadAgents, At, Own, Critical
  <2>2. PICK b : b = belief
    OBVIOUS
  <2>3. b \in [Lawyers -> SUBSET Influences] /\ \A a \in Lawyers : written[a] \subseteq b[a]
    BY <2>2 DEF RecordInv, Rows, NoLostUpdate
  <2> DEFINE q == [req[r] EXCEPT !.pc = "apply", !.loaded = b, !.todo = Lawyers]
  <2>4. "apply" \in Places
    BY DEF Places, Critical
  <2>5. /\ q \in RequestType /\ q.pc = "apply" /\ q.loaded = b /\ q.todo = Lawyers
        /\ q.shown = req[r].shown /\ q.who = req[r].who
    BY <1>0, <2>3, <2>4 DEF RequestType
  <2>6. req' = [req EXCEPT ![r] = q]
    BY <1>2, <2>2
  <2> HIDE DEF q
  <2>7. /\ req' \in [Requests -> RequestType] /\ req'[r] = q
        /\ \A s \in Requests \ {r} : req'[s] = req[s]
    BY <1>0, <2>5, <2>6
  <2>8. written' = written /\ lock' = r
    BY <1>2, <2>1 DEF LoadAgents, RecordUnchanged, rowsAndBus
  <2>9. Own(r)'
    BY <2>1, <2>3, <2>5, <2>7, <2>8 DEF Own, InSpeech, Waiting, Speaking, Searching
  <2>10. QED
    BY <1>0, <1>2, <2>7, <2>9, QuietStep DEF LoadAgents, RecordUnchanged
<1>3. QED
  BY <1>1, <1>2 DEF LoadAgents

\* An agent's new belief is made of what was read of it, which is all there is.
LEMMA BeliefGrows ==
  ASSUME RecordInv, NEW r \in Requests, NEW a \in Lawyers, NEW x \in Influences,
         written[a] \subseteq req[r].loaded[a], req[r] \in RequestType,
         belief' = [belief EXCEPT ![a] = req[r].loaded[a] \cup {x}],
         written' = [written EXCEPT ![a] = @ \cup {x}]
  PROVE  /\ belief' \in [Lawyers -> SUBSET Influences]
         /\ written' \in [Lawyers -> SUBSET Influences]
         /\ NoLostUpdate'
         /\ \A b \in Lawyers \ {a} : written'[b] = written[b]
<1>1. req[r].loaded[a] \in SUBSET Influences
  BY RequestFields
<1>2. belief \in [Lawyers -> SUBSET Influences] /\ written \in [Lawyers -> SUBSET Influences]
  BY DEF RecordInv, Rows
<1>3. /\ belief' \in [Lawyers -> SUBSET Influences]
      /\ written' \in [Lawyers -> SUBSET Influences]
      /\ belief'[a] = req[r].loaded[a] \cup {x} /\ written'[a] = written[a] \cup {x}
      /\ \A b \in Lawyers \ {a} : written'[b] = written[b] /\ belief'[b] = belief[b]
  BY <1>1, <1>2
<1>4. NoLostUpdate
  BY DEF RecordInv
<1>5. QED
  BY <1>3, <1>4 DEF NoLostUpdate

\* The agents still to be reached are those nothing was written to since.
LEMMA ApplyStep ==
  ASSUME RecordInv, NEW r \in Requests, ApplyEvidence(r)
  PROVE  RecordInv'
<1>0. /\ req \in [Requests -> RequestType] /\ req[r] \in RequestType /\ Own(r)
      /\ lock \in Requests \cup {NoRequest} /\ spinner \subseteq Searches
  BY Opened
<1>1. CASE Leave(r) /\ (Fault \/ Fine) /\ UNCHANGED <<belief, written>>
  BY <1>1, LeaveStep, <1>0 DEF ApplyEvidence, rowsAndBus
<1>2. ASSUME NEW a \in req[r].todo,
             belief' = [belief EXCEPT ![a] = req[r].loaded[a] \cup {<<"evidence", r>>}],
             written' = [written EXCEPT ![a] = @ \cup {<<"evidence", r>>}],
             req' = [req EXCEPT ![r].todo = @ \ {a}], UNCHANGED lock, Fine
      PROVE  RecordInv'
  <2>1. /\ lock = r /\ req[r].pc = "apply" /\ \A m \in req[r].shown : SeenBy(m, req[r].who)
        /\ \A b \in req[r].todo : written[b] \subseteq req[r].loaded[b]
    BY <1>0 DEF ApplyEvidence, At, Own, Critical
  <2>2. a \in Lawyers /\ <<"evidence", r>> \in Influences
    BY <1>0, RequestFields DEF Influences
  <2>3. PICK x : x = <<"evidence", r>>
    OBVIOUS
  <2>4. /\ belief' \in [Lawyers -> SUBSET Influences]
        /\ written' \in [Lawyers -> SUBSET Influences]
        /\ NoLostUpdate'
        /\ \A b \in Lawyers \ {a} : written'[b] = written[b]
    BY <1>0, <1>2, <2>1, <2>2, <2>3, BeliefGrows
  <2> DEFINE q == [req[r] EXCEPT !.todo = @ \ {a}]
  <2>5. /\ q \in RequestType /\ q.pc = "apply" /\ q.loaded = req[r].loaded
        /\ q.todo = req[r].todo \ {a} /\ q.shown = req[r].shown /\ q.who = req[r].who
    BY <1>0, <2>1 DEF RequestType
  <2>6. req' = [req EXCEPT ![r] = q]
    BY <1>2
  <2> HIDE DEF q
  <2>7. /\ req' \in [Requests -> RequestType] /\ req'[r] = q
        /\ \A s \in Requests \ {r} : req'[s] = req[s]
    BY <1>0, <2>5, <2>6
  <2>8. \A b \in q.todo : written'[b] \subseteq q.loaded[b]
    BY <1>0, <2>1, <2>4, <2>5, RequestFields
  <2>9. lock' = r /\ UNCHANGED <<round, evidence, spoken, bus, findings, spinner, lost, crashes>>
    BY <1>2, <2>1 DEF ApplyEvidence
  <2>10. Own(r)'
    BY <2>1, <2>5, <2>7, <2>8, <2>9 DEF Own, InSpeech, Waiting, Speaking, Searching
  <2>11. Mild(r)
    BY <2>1, <2>7, <2>9 DEF Mild
  <2>12. Rows'
    BY <1>2, <2>1, <2>4, <2>9, FaultsOK DEF RecordInv, Rows
  <2>13. QED
    BY <2>4, <2>7, <2>9, <2>10, <2>11, <2>12, Kept, StepInv
<1>3. QED
  BY <1>1, <1>2 DEF ApplyEvidence

--------------------------------------------------------------------------------
(* Rounds. *)

\* The round is counted up to MaxRounds and no further.
LEMMA AdvanceStep ==
  ASSUME RecordInv, NEW r \in Requests, AdvanceRound(r)
  PROVE  RecordInv'
<1>0. /\ req \in [Requests -> RequestType] /\ req[r] \in RequestType /\ Own(r)
      /\ lock \in Requests \cup {NoRequest} /\ spinner \subseteq Searches
  BY Opened
<1>1. /\ UNCHANGED <<lock, evidence, spoken, belief, written, bus, findings,
                     spinner, lost, crashes>>
      /\ Fine
      /\ req[r].todo = {} /\ req[r].shown = {}
  BY <1>0 DEF AdvanceRound, Own, At, Waiting
<1>2. ASSUME req' \in [Requests -> RequestType], Own(r)', round' \in 0..MaxRounds,
             \A s \in Requests \ {r} : req'[s] = req[s]
      PROVE  RecordInv'
  <2>1. Mild(r)
    BY <1>1, <1>2 DEF Mild
  <2>2. Rows'
    BY <1>1, <1>2, FaultsOK DEF RecordInv, Rows
  <2>3. QED
    BY <1>1, <1>2, <2>1, <2>2, Kept, StepInv
<1>3. CASE req' = [req EXCEPT ![r] = Done] /\ UNCHANGED round
  <2>1. /\ req' \in [Requests -> RequestType] /\ req'[r] = Done
        /\ \A s \in Requests \ {r} : req'[s] = req[s]
    BY <1>0, <1>3, IdleOK
  <2>2. QED
    BY <1>2, <1>3, <2>1, DoneOwn DEF RecordInv, Rows
<1>4. CASE /\ req[r].round < MaxRounds /\ round' = req[r].round + 1
           /\ req' = [req EXCEPT ![r].pc = "await_round", ![r].round = @ + 1]
  <2> DEFINE n == req[r].round + 1
             q == [req[r] EXCEPT !.pc = "await_round", !.round = n]
  <2>1. n \in 0..MaxRounds /\ n > 0
    BY <1>0, <1>4, Constants, RequestFields
  <2>2. req' = [req EXCEPT ![r] = q] /\ round' = n
    BY <1>4
  <2> HIDE DEF n
  <2>3. "await_round" \in Places
    BY DEF Places, Waiting
  <2>4. /\ q \in RequestType /\ q.pc = "await_round" /\ q.round = n
        /\ q.todo = {} /\ q.shown = {}
    BY <1>0, <1>1, <2>1, <2>3 DEF RequestType
  <2> HIDE DEF q
  <2>5. /\ req' \in [Requests -> RequestType] /\ req'[r] = q
        /\ \A s \in Requests \ {r} : req'[s] = req[s]
    BY <1>0, <2>2, <2>4
  <2>6. Own(r)'
    BY <2>1, <2>4, <2>5 DEF Own, InSpeech, Critical, Waiting, Speaking, Searching
  <2>7. QED
    BY <1>2, <2>1, <2>2, <2>5, <2>6
<1>5. QED
  BY <1>3, <1>4 DEF AdvanceRound

\* The round's agents are read under its lock.
LEMMA StartStep ==
  ASSUME RecordInv, NEW r \in Requests, StartRound(r)
  PROVE  RecordInv'
<1>0. /\ req \in [Requests -> RequestType] /\ req[r] \in RequestType /\ Own(r)
      /\ lock \in Requests \cup {NoRequest} /\ spinner \subseteq Searches
  BY Opened
<1>1. CASE Fault /\ Leave(r)
  BY <1>1, LeaveStep, <1>0 DEF StartRound, RecordUnchanged
<1>2. CASE LockSession(r) /\ Fine /\ req' = [req EXCEPT ![r] = LoadSessionData(r)]
  <2>1. req[r].shown = {} /\ req[r].round > 0
    BY <1>0 DEF StartRound, Own, At, Waiting
  <2> DEFINE q == LoadSessionData(r)
             todo == {l \in Lawyers : <<req[r].round, l>> \notin spoken}
  <2>2. /\ belief \in [Lawyers -> SUBSET Influences]
        /\ \A a \in Lawyers : written[a] \subseteq belief[a]
    BY DEF RecordInv, Rows, NoLostUpdate
  <2>3. "listen" \in Places /\ todo \in SUBSET Lawyers
    BY DEF Places, Critical
  <2>4. q = [req[r] EXCEPT !.pc = "listen", !.loaded = belief, !.todo = todo]
    BY DEF LoadSessionData
  <2> HIDE DEF todo, q
  <2>5. /\ q \in RequestType /\ q.pc = "listen" /\ q.loaded = belief /\ q.todo = todo
        /\ q.shown = {} /\ q.round > 0
    BY <1>0, <2>1, <2>2, <2>3, <2>4 DEF RequestType
  <2>6. /\ req' \in [Requests -> RequestType] /\ req'[r] = q
        /\ \A s \in Requests \ {r} : req'[s] = req[s]
    BY <1>0, <1>2, <2>5 DEF q
  <2>7. written' = written /\ lock' = r /\ lock = NoRequest
    BY <1>2 DEF StartRound, LockSession, RecordUnchanged, rowsAndBus
  <2>8. \A a \in q.todo : written[a] \subseteq q.loaded[a]
    BY <2>2, <2>3, <2>5
  <2>9. Own(r)'
    BY <2>5, <2>6, <2>7, <2>8 DEF Own, InSpeech, Waiting, Speaking, Searching
  <2>10. NoRequest \notin Requests
    BY CaseworkAssumption
  <2>11. QED
    BY <1>0, <1>2, <2>6, <2>7, <2>9, <2>10, QuietStep DEF StartRound, RecordUnchanged
<1>3. QED
  BY <1>1, <1>2 DEF StartRound

\* Whitelists hold what a message may have; none lets the reasoning through.
LEMMA PayloadOK ==
  /\ Types = {"speech", "note", "dispatch", "report"}
  /\ \A t \in Types : Payload[t] \in SUBSET Keys /\ "reasoning" \notin Whitelist[t]
<1>1. Types = {"speech", "note", "dispatch", "report"}
  BY DEF Types, Payload
<1>2. \A t \in Types : Payload[t] \in SUBSET Keys
  BY DEF Keys
<1>3. \A t \in Types : "reasoning" \notin Whitelist[t]
  BY <1>1 DEF Whitelist
<1>4. QED
  BY <1>1, <1>2, <1>3

\* A lawyer is shown of the bus what it may see: its own in full, of others the
\* public part.
LEMMA ViewOK ==
  ASSUME Bus, NEW l \in Lawyers
  PROVE  ContextView(l) \in SUBSET Messages /\ \A m \in ContextView(l) : SeenBy(m, l)
<1> SUFFICES ASSUME NEW n \in bus, VisibleTo(n, l)
             PROVE  Projected(n, l) \in Messages /\ SeenBy(Projected(n, l), l)
  BY DEF ContextView
<1>1. /\ n \in Messages /\ n.keys = Payload[n.type] /\ n.type \in Types
      /\ n.visibility \in {"private", "public"} /\ n.keys \in SUBSET Keys
      /\ n.visibility = "private" => n.from = n.to
  BY DEF Bus, Messages
<1>2. CASE n.visibility = "private" \/ n.from = l
  BY <1>1, <1>2 DEF Projected, VisibleTo, SeenBy
<1>3. CASE n.visibility = "public" /\ n.from # l
  <2> DEFINE k == n.keys \cap Whitelist[n.type]
             m == [n EXCEPT !.keys = k]
  <2>1. Projected(n, l) = m
    BY <1>3 DEF Projected
  <2>2. k \in SUBSET Keys /\ "reasoning" \notin k
    BY <1>1, PayloadOK
  <2> HIDE DEF k
  <2>3. m \in Messages /\ m.keys = k /\ m.from = n.from /\ m.visibility = n.visibility
    BY <1>1, <2>2 DEF Messages
  <2> HIDE DEF m
  <2>4. QED
    BY <1>3, <2>1, <2>2, <2>3 DEF SeenBy
<1>4. QED
  BY <1>1, <1>2, <1>3

\* A lawyer whose turn it is reads the bus.
LEMMA ListenStep ==
  ASSUME RecordInv, NEW r \in Requests, Listen(r)
  PROVE  RecordInv'
<1>0. /\ req \in [Requests -> RequestType] /\ req[r] \in RequestType /\ Own(r)
      /\ lock \in Requests \cup {NoRequest} /\ spinner \subseteq Searches
  BY Opened
<1>1. /\ lock = r /\ req[r].round > 0 /\ req[r].todo \subseteq Lawyers
      /\ \A a \in req[r].todo : written[a] \subseteq req[r].loaded[a]
      /\ UNCHANGED lock /\ RecordUnchanged
  BY <1>0, RequestFields DEF Listen, At, Own, Critical
<1>2. PICK l, view :
        /\ l \in req[r].todo
        /\ view = ContextView(l) \/ view = {}
        /\ req' = [req EXCEPT ![r].pc = "think", ![r].who = l, ![r].turn = 0, ![r].shown = view]
        /\ Fault \/ Fine
  <2>1. PICK l : l = (IF "prosecutor" \in req[r].todo THEN "prosecutor" ELSE "defender")
    OBVIOUS
  <2>2. l \in req[r].todo
    <3>1. req[r].todo # {}
      BY DEF Listen
    <3>2. QED
      BY <1>1, <2>1, <3>1 DEF Lawyers
  <2>3. QED
    BY <2>1, <2>2 DEF Listen
<1>3. view \in SUBSET Messages /\ \A m \in view : SeenBy(m, l)
  BY <1>1, <1>2, ViewOK DEF RecordInv
<1> DEFINE q == [req[r] EXCEPT !.pc = "think", !.who = l, !.turn = 0, !.shown = view]
<1>4. "think" \in Places /\ l \in Lawyers /\ 0 \in 0..MaxTurns
  BY <1>1, <1>2, Constants DEF Places, Critical, Speaking
<1>5. /\ q \in RequestType /\ q.pc = "think" /\ q.who = l /\ q.shown = view
      /\ q.loaded = req[r].loaded /\ q.todo = req[r].todo /\ q.round = req[r].round
  BY <1>0, <1>3, <1>4 DEF RequestType
<1>6. req' = [req EXCEPT ![r] = q]
  BY <1>2
<1> HIDE DEF q
<1>7. /\ req' \in [Requests -> RequestType] /\ req'[r] = q
      /\ \A s \in Requests \ {r} : req'[s] = req[s]
  BY <1>0, <1>5, <1>6
<1>8. written' = written /\ lock' = r
  BY <1>1 DEF RecordUnchanged, rowsAndBus
<1>9. Own(r)'
  BY <1>1, <1>2, <1>3, <1>5, <1>7, <1>8 DEF Own, InSpeech, Waiting, Searching
<1>10. QED
  BY <1>0, <1>1, <1>2, <1>7, <1>9, QuietStep DEF RecordUnchanged

\* A message as the bus stores it.
LEMMA MessageOK ==
  ASSUME NEW type \in Types, NEW from \in Parties, NEW to \in Parties, NEW ref \in Searches,
         type = "note" => from = to
  PROVE  LET m == Message(type, from, to, ref) IN
         /\ m \in Messages /\ m.keys = Payload[m.type]
         /\ m.visibility = "private" => m.from = m.to
         /\ m.type = type /\ m.from = from /\ m.ref = ref
<1>1. Payload[type] \in SUBSET Keys
  BY PayloadOK
<1>2. QED
  BY <1>1 DEF Message, Messages

\* A handler that goes on under its lock, to a place that asks no more of it.
LEMMA OwnMoves ==
  ASSUME NEW r \in Requests, Own(r), req[r].pc \in Critical,
         req'[r].pc \in Speaking \cup Searching,
         req'[r].kind = req[r].kind, req'[r].who = req[r].who, req'[r].round = req[r].round,
         req'[r].loaded = req[r].loaded, req'[r].todo = req[r].todo,
         req'[r].shown = req[r].shown,
         lock' = lock, written' = written,
         InSpeech(req'[r]) => InSpeech(req[r]),
         req'[r].pc = "persist" =>
           \E m \in bus' : m.type = "dispatch" /\ m.ref = Search(r) /\ m.from = req[r].who,
         req'[r].pc = "report" => Search(r) \in findings'
  PROVE  Own(r)'
<1>1. req'[r].pc \in Critical /\ req'[r].pc \notin Waiting
  BY PlacesApart
<1>2. req'[r].pc \notin {"idle", "await_evidence", "count", "insert", "await_dispatch",
                         "await_round", "listen"}
  BY DEF Speaking, Searching
<1>3. lock = r /\ (\A a \in req[r].todo : written[a] \subseteq req[r].loaded[a])
      /\ (\A m \in req[r].shown : SeenBy(m, req[r].who))
      /\ (InSpeech(req[r]) => req[r].who \in req[r].todo /\ req[r].round > 0)
  BY DEF Own
<1>4. QED
  BY <1>1, <1>2, <1>3 DEF Own, Search

\* A step under the lock that may send a message, of a finding if it is a report.
LEMMA BusStep ==
  ASSUME RecordInv, NEW r \in Requests, req' \in [Requests -> RequestType],
         \A s \in Requests \ {r} : req'[s] = req[s], Own(r)', Fault \/ Fine,
         UNCHANGED <<lock, round, evidence, spoken, belief, written, findings,
                     spinner, lost, crashes>>,
         \/ UNCHANGED bus
         \/ \E m \in Messages : /\ m.keys = Payload[m.type]
                                /\ m.visibility = "private" => m.from = m.to
                                /\ m.type = "report" => m.ref \in findings
                                /\ bus' = bus \cup {m}
  PROVE  RecordInv'
<1>1. Mild(r)
  BY DEF Mild
<1>2. Rows'
  BY FaultsOK DEF RecordInv, Rows
<1>3. Bus'
  BY DEF RecordInv, Bus
<1>4. FindingsAnnounced'
  BY DEF RecordInv, FindingsAnnounced
<1>5. QED
  BY <1>1, <1>2, <1>3, <1>4, Kept, StepInv

\* The note of a lawyer is its own.
LEMMA NoteOK ==
  ASSUME req \in [Requests -> RequestType], NEW r \in Requests
  PROVE  /\ Note(r) \in Messages /\ Note(r).keys = Payload[Note(r).type]
         /\ Note(r).visibility = "private" => Note(r).from = Note(r).to
         /\ Note(r).type = "note"
<1>1. req[r].who \in Lawyers /\ "note" \in Types
  BY RequestFields, PayloadOK
<1>2. PICK l : l = req[r].who
  OBVIOUS
<1>3. Note(r) = Message("note", l, l, <<r, l>>)
  BY <1>2 DEF Note
<1>4. l \in Parties /\ <<r, l>> \in Searches
  BY <1>1, <1>2 DEF Parties, Searches
<1>5. QED
  BY <1>1, <1>3, <1>4, MessageOK

\* A turn of a speech uses up no more than there are.
LEMMA TurnOK ==
  ASSUME req \in [Requests -> RequestType], NEW r \in Requests, NEW pc \in Places, Turn(r, pc),
         req[r].turn < MaxTurns
  PROVE  /\ req' \in [Requests -> RequestType]
         /\ \A s \in Requests \ {r} : req'[s] = req[s]
         /\ req'[r].pc = pc /\ req'[r].kind = req[r].kind /\ req'[r].who = req[r].who
         /\ req'[r].round = req[r].round /\ req'[r].loaded = req[r].loaded
         /\ req'[r].todo = req[r].todo /\ req'[r].shown = req[r].shown
<1> DEFINE n == req[r].turn + 1
           q == [req[r] EXCEPT !.pc = pc, !.turn = n]
<1>1. req[r] \in RequestType /\ n \in 0..MaxTurns
  BY RequestFields, Constants
<1>2. req' = [req EXCEPT ![r] = q]
  BY DEF Turn
<1> HIDE DEF n
<1>3. /\ q \in RequestType /\ q.pc = pc /\ q.kind = req[r].kind /\ q.who = req[r].who
      /\ q.round = req[r].round /\ q.loaded = req[r].loaded
      /\ q.todo = req[r].todo /\ q.shown = req[r].shown
  BY <1>1 DEF RequestType
<1> HIDE DEF q
<1>4. req'[r] = q
  BY <1>2
<1>5. QED
  BY <1>2, <1>3, <1>4

\* Reflecting, searching and speaking write nothing but notes.
LEMMA ThinkStep ==
  ASSUME RecordInv, NEW r \in Requests, Think(r)
  PROVE  RecordInv'
<1>0. /\ req \in [Requests -> RequestType] /\ req[r] \in RequestType /\ Own(r)
      /\ lock \in Requests \cup {NoRequest} /\ spinner \subseteq Searches
  BY Opened
<1>1. /\ UNCHANGED <<round, evidence, spoken, belief, written, findings, spinner, lost, crashes>>
      /\ req[r].pc = "think" /\ req[r].pc \in Critical /\ InSpeech(req[r])
  BY DEF Think, At, Critical, Speaking, InSpeech
<1>2. CASE Fault /\ Leave(r) /\ UNCHANGED bus
  BY <1>0, <1>1, <1>2, LeaveStep DEF rowsAndBus
<1>3. ASSUME NEW pc \in {"think", "started", "speak"}, 
             Goto(r, pc) \/ (req[r].turn < MaxTurns /\ Turn(r, pc)), UNCHANGED lock,
             Post(Note(r)) \/ (Fine /\ UNCHANGED bus)
      PROVE  RecordInv'
  <2>1. pc \in Places /\ pc \in Speaking \cup Searching
    BY DEF Places, Critical, Speaking, Searching
  <2>2. /\ req' \in [Requests -> RequestType]
        /\ \A s \in Requests \ {r} : req'[s] = req[s]
        /\ req'[r].pc = pc /\ req'[r].kind = req[r].kind /\ req'[r].who = req[r].who
        /\ req'[r].round = req[r].round /\ req'[r].loaded = req[r].loaded
        /\ req'[r].todo = req[r].todo /\ req'[r].shown = req[r].shown
    BY <1>0, <1>3, <2>1, GotoOK, TurnOK
  <2>3. Own(r)'
    BY <1>0, <1>1, <1>3, <2>1, <2>2, OwnMoves
  <2>4. (Fault \/ Fine) /\ (bus' = bus \cup {Note(r)} \/ UNCHANGED bus)
    BY <1>3 DEF Post
  <2>5. QED
    BY <1>0, <1>1, <1>3, <2>2, <2>3, <2>4, BusStep, NoteOK
<1>4. CASE req[r].turn < MaxTurns /\ Turn(r, "think") /\ Post(Note(r)) /\ UNCHANGED lock
  BY <1>3, <1>4
<1>5. CASE req[r].turn < MaxTurns /\ CallTool(r) /\ UNCHANGED lock
  BY <1>3, <1>5 DEF CallTool
<1>6. CASE Goto(r, "speak") /\ Fine /\ UNCHANGED <<lock, bus>>
  BY <1>3, <1>6
<1>7. QED
  BY <1>1, <1>2, <1>4, <1>5, <1>6 DEF Think

\* The speech is sent to the opponent.
LEMMA SpeechStep ==
  ASSUME RecordInv, NEW r \in Requests, SendSpeech(r)
  PROVE  RecordInv'
<1>0. req \in [Requests -> RequestType] /\ req[r] \in RequestType /\ Own(r)
  BY Opened
<1>1. /\ UNCHANGED <<lock, round, evidence, spoken, belief, written, findings,
                     spinner, lost, crashes>>
      /\ req[r].pc \in Critical /\ InSpeech(req[r])
  BY DEF SendSpeech, At, Critical, Speaking, InSpeech
<1>2. "note" \in Places /\ "note" \in Speaking
  BY DEF Places, Critical, Speaking
<1>3. /\ req' \in [Requests -> RequestType]
      /\ \A s \in Requests \ {r} : req'[s] = req[s]
      /\ req'[r].pc = "note" /\ req'[r].kind = req[r].kind /\ req'[r].who = req[r].who
      /\ req'[r].round = req[r].round /\ req'[r].loaded = req[r].loaded
      /\ req'[r].todo = req[r].todo /\ req'[r].shown = req[r].shown
  BY <1>0, <1>2, GotoOK DEF SendSpeech
<1>4. Own(r)'
  BY <1>0, <1>1, <1>2, <1>3, OwnMoves
<1> DEFINE m == Message("speech", req[r].who, Opponent(req[r].who), <<r, req[r].who>>)
<1>5. /\ m \in Messages /\ m.keys = Payload[m.type] /\ m.type # "report"
      /\ m.visibility = "private" => m.from = m.to
  <2>1. PICK l : l = req[r].who
    OBVIOUS
  <2>2. l \in Parties /\ Opponent(l) \in Parties /\ <<r, l>> \in Searches /\ "speech" \in Types
    BY <1>0, <2>1, RequestFields, PayloadOK DEF Parties, Searches, Opponent, Lawyers
  <2>3. PICK o : o = Opponent(l)
    OBVIOUS
  <2>4. QED
    BY <2>1, <2>2, <2>3, MessageOK
<1>6. (Fault \/ Fine) /\ (bus' = bus \cup {m} \/ UNCHANGED bus)
  BY DEF SendSpeech, Post
<1> HIDE DEF m
<1>7. QED
  BY <1>1, <1>3, <1>4, <1>5, <1>6, BusStep

\* The note is sent to oneself.
LEMMA NoteStep ==
  ASSUME RecordInv, NEW r \in Requests, SendNote(r)
  PROVE  RecordInv'
<1>0. req \in [Requests -> RequestType] /\ req[r] \in RequestType /\ Own(r)
  BY Opened
<1>1. /\ UNCHANGED <<lock, round, evidence, spoken, belief, written, findings,
                     spinner, lost, crashes>>
      /\ req[r].pc \in Critical /\ InSpeech(req[r])
  BY DEF SendNote, At, Critical, Speaking, InSpeech
<1>2. "save" \in Places /\ "save" \in Speaking
  BY DEF Places, Critical, Speaking
<1>3. /\ req' \in [Requests -> RequestType]
      /\ \A s \in Requests \ {r} : req'[s] = req[s]
      /\ req'[r].pc = "save" /\ req'[r].kind = req[r].kind /\ req'[r].who = req[r].who
      /\ req'[r].round = req[r].round /\ req'[r].loaded = req[r].loaded
      /\ req'[r].todo = req[r].todo /\ req'[r].shown = req[r].shown
  BY <1>0, <1>2, GotoOK DEF SendNote
<1>4. Own(r)'
  BY <1>0, <1>1, <1>2, <1>3, OwnMoves
<1>5. (Fault \/ Fine) /\ (bus' = bus \cup {Note(r)} \/ UNCHANGED bus)
  BY DEF SendNote, Post
<1>6. QED
  BY <1>0, <1>1, <1>3, <1>4, <1>5, BusStep, NoteOK

\* The speech is saved for its round.
LEMMA SaveStep ==
  ASSUME RecordInv, NEW r \in Requests, SaveSpeech(r)
  PROVE  RecordInv'
<1>0. /\ req \in [Requests -> RequestType] /\ req[r] \in RequestType /\ Own(r)
      /\ spinner \subseteq Searches
  BY Opened
<1>1. /\ UNCHANGED <<round, evidence, belief, written, bus, findings, spinner, lost, crashes>>
      /\ req[r].pc \in Critical /\ InSpeech(req[r])
  BY DEF SaveSpeech, At, Critical, Speaking, InSpeech
<1>2. CASE Fault /\ Leave(r) /\ UNCHANGED spoken
  BY <1>0, <1>1, <1>2, LeaveStep DEF rowsAndBus
<1>3. CASE /\ spoken' = spoken \cup {<<req[r].round, req[r].who>>}
           /\ Goto(r, "move") /\ UNCHANGED lock /\ Fine
  <2>1. "move" \in Places /\ "move" \in Speaking
    BY DEF Places, Critical, Speaking
  <2>2. /\ req' \in [Requests -> RequestType]
        /\ \A s \in Requests \ {r} : req'[s] = req[s]
        /\ req'[r].pc = "move" /\ req'[r].kind = req[r].kind /\ req'[r].who = req[r].who
        /\ req'[r].round = req[r].round /\ req'[r].loaded = req[r].loaded
        /\ req'[r].todo = req[r].todo /\ req'[r].shown = req[r].shown
    BY <1>0, <1>3, <2>1, GotoOK
  <2>3. Own(r)'
    BY <1>0, <1>1, <1>3, <2>1, <2>2, OwnMoves
  <2>4. req[r].round \in 1..MaxRounds /\ req[r].who \in Lawyers
    BY <1>0, <1>1, RequestFields, Constants DEF Own
  <2>5. Rows'
    BY <1>1, <1>3, <2>4, FaultsOK DEF RecordInv, Rows
  <2>6. Mild(r)
    BY <1>1, <1>3, <2>2 DEF Mild
  <2>7. QED
    BY <1>1, <2>2, <2>3, <2>5, <2>6, Kept, StepInv
<1>4. QED
  BY <1>2, <1>3 DEF SaveSpeech

\* The speaker's belief is moved from what was read of it at the start of the
\* round; nobody wrote to it since.
LEMMA MoveStep ==
  ASSUME RecordInv, NEW r \in Requests, MoveBelief(r)
  PROVE  RecordInv'
<1>0. /\ req \in [Requests -> RequestType] /\ req[r] \in RequestType /\ Own(r)
      /\ belief \in [Lawyers -> SUBSET Influences] /\ written \in [Lawyers -> SUBSET Influences]
  BY Opened DEF RecordInv, Rows
<1>1. /\ UNCHANGED <<lock, round, evidence, spoken, bus, findings, spinner, lost, crashes>>
      /\ Fine
      /\ req[r].pc \in Critical /\ InSpeech(req[r])
  BY DEF MoveBelief, At, Critical, Speaking, InSpeech
<1>2. /\ lock = r /\ req[r].who \in Lawyers /\ req[r].who \in req[r].todo
      /\ req[r].round \in 1..MaxRounds
      /\ \A a \in req[r].todo : written[a] \subseteq req[r].loaded[a]
  BY <1>0, <1>1, RequestFields, Constants DEF Own
<1>3. PICK l : l = req[r].who
  OBVIOUS
<1>4. /\ belief' \in [Lawyers -> SUBSET Influences]
      /\ written' \in [Lawyers -> SUBSET Influences]
      /\ NoLostUpdate'
      /\ \A b \in Lawyers \ {l} : written'[b] = written[b]
  <2>1. CASE UNCHANGED <<belief, written>>
    BY <1>0, <2>1, Kept
  <2>2. CASE /\ belief' = [belief EXCEPT ![l] = req[r].loaded[l] \cup {<<"speech", req[r].round>>}]
             /\ written' = [written EXCEPT ![l] = @ \cup {<<"speech", req[r].round>>}]
    <3>1. PICK x : x = <<"speech", req[r].round>>
      OBVIOUS
    <3>2. x \in Influences
      BY <1>2, <3>1 DEF Influences
    <3>3. QED
      BY <1>0, <1>2, <1>3, <2>2, <3>1, <3>2, BeliefGrows
  <2>3. QED
    BY <1>3, <2>1, <2>2 DEF MoveBelief
<1> DEFINE todo == req[r].todo \ {l}
           q == [req[r] EXCEPT !.pc = "listen", !.todo = todo, !.shown = {}]
<1>5. "listen" \in Places /\ todo \in SUBSET Lawyers
  BY <1>0, RequestFields DEF Places, Critical
<1>6. req' = [req EXCEPT ![r] = q]
  BY <1>3 DEF MoveBelief
<1> HIDE DEF todo
<1>7. /\ q \in RequestType /\ q.pc = "listen" /\ q.todo = todo /\ q.shown = {}
      /\ q.loaded = req[r].loaded /\ q.round = req[r].round
  BY <1>0, <1>5 DEF RequestType
<1> HIDE DEF q
<1>8. /\ req' \in [Requests -> RequestType] /\ req'[r] = q
      /\ \A s \in Requests \ {r} : req'[s] = req[s]
  BY <1>0, <1>6, <1>7
<1>9. \A b \in q.todo : written'[b] \subseteq q.loaded[b]
  BY <1>2, <1>4, <1>5, <1>7 DEF todo
<1>10. Own(r)'
  BY <1>1, <1>2, <1>7, <1>8, <1>9 DEF Own, InSpeech, Waiting, Speaking, Searching
<1>11. Mild(r)
  BY <1>1, <1>2, <1>8 DEF Mild
<1>12. Rows'
  BY <1>1, <1>4, FaultsOK DEF RecordInv, Rows
<1>13. QED
  BY <1>1, <1>4, <1>8, <1>10, <1>11, <1>12, Kept, StepInv

\* The round is over.
LEMMA EndStep ==
  ASSUME RecordInv, NEW r \in Requests, EndRound(r)
  PROVE  RecordInv'
  BY Opened, LeaveStep DEF EndRound, RecordUnchanged

--------------------------------------------------------------------------------
(* Investigations. *)

\* A user asks for a search.
LEMMA AskStep ==
  ASSUME RecordInv, NEW r \in Requests, NEW l \in Lawyers, RequestDispatch(r, l)
  PROVE  RecordInv'
<1>0. /\ req \in [Requests -> RequestType] /\ req[r] \in RequestType /\ Own(r)
      /\ lock \in Requests \cup {NoRequest} /\ spinner \subseteq Searches
  BY Opened
<1> DEFINE q == [req[r] EXCEPT !.pc = "await_dispatch", !.kind = "dispatch", !.who = l]
<1>1. "await_dispatch" \in Places
  BY DEF Places, Waiting
<1>2. /\ q \in RequestType /\ q.pc = "await_dispatch" /\ q.kind = "dispatch"
      /\ q.todo = req[r].todo /\ q.shown = req[r].shown
  BY <1>0, <1>1 DEF RequestType
<1>3. req' = [req EXCEPT ![r] = q]
  BY DEF RequestDispatch
<1> HIDE DEF q
<1>4. /\ req' \in [Requests -> RequestType] /\ req'[r] = q
      /\ \A s \in Requests \ {r} : req'[s] = req[s]
  BY <1>0, <1>2, <1>3
<1>5. req[r].todo = {} /\ req[r].shown = {}
  BY <1>0 DEF RequestDispatch, Own, At, Waiting
<1>6. Own(r)'
  BY <1>2, <1>4, <1>5 DEF Own, InSpeech, Critical, Speaking, Searching
<1>7. QED
  BY <1>0, <1>4, <1>6, QuietStep DEF RequestDispatch, RecordUnchanged

\* Its handler takes the lock, or returns.
LEMMA DispatchStep ==
  ASSUME RecordInv, NEW r \in Requests, DispatchInvestigator(r)
  PROVE  RecordInv'
<1>0. /\ req \in [Requests -> RequestType] /\ req[r] \in RequestType /\ Own(r)
      /\ lock \in Requests \cup {NoRequest} /\ spinner \subseteq Searches
      /\ NoRequest \notin Requests
  BY Opened
<1>1. CASE Leave(r)
  BY <1>0, <1>1, LeaveStep DEF DispatchInvestigator, RecordUnchanged
<1>2. CASE Goto(r, "started") /\ LockSession(r)
  <2>1. "started" \in Places
    BY DEF Places, Critical, Searching
  <2>2. /\ req' \in [Requests -> RequestType] /\ req'[r].pc = "started"
        /\ \A s \in Requests \ {r} : req'[s] = req[s]
        /\ req'[r].todo = req[r].todo /\ req'[r].shown = req[r].shown
        /\ req'[r].kind = req[r].kind
    BY <1>0, <1>2, <2>1, GotoOK
  <2>3. req[r].todo = {} /\ req[r].shown = {} /\ req[r].kind = "dispatch"
    BY <1>0 DEF DispatchInvestigator, Own, At, Waiting
  <2>4. lock' = r /\ lock = NoRequest
    BY <1>2 DEF LockSession
  <2>5. Own(r)'
    BY <2>2, <2>3, <2>4 DEF Own, InSpeech, Waiting, Speaking
  <2>6. QED
    BY <1>0, <2>2, <2>4, <2>5, QuietStep DEF DispatchInvestigator, RecordUnchanged
<1>3. QED
  BY <1>1, <1>2 DEF DispatchInvestigator

\* A search goes on under its lock.
LEMMA SearchOK ==
  ASSUME RecordInv, NEW r \in Requests, req[r].pc \in Searching,
         NEW pc \in Searching, Goto(r, pc), UNCHANGED lock, UNCHANGED written,
         pc = "persist" =>
           \E m \in bus' : m.type = "dispatch" /\ m.ref = Search(r) /\ m.from = req[r].who,
         pc = "report" => Search(r) \in findings'
  PROVE  /\ req' \in [Requests -> RequestType]
         /\ \A s \in Requests \ {r} : req'[s] = req[s]
         /\ Own(r)'
<1>0. req \in [Requests -> RequestType] /\ Own(r) /\ pc \in Places /\ req[r].pc \in Critical
  BY Opened DEF Places, Critical
<1>1. /\ req' \in [Requests -> RequestType]
      /\ \A s \in Requests \ {r} : req'[s] = req[s]
      /\ req'[r].pc = pc /\ req'[r].kind = req[r].kind /\ req'[r].who = req[r].who
      /\ req'[r].round = req[r].round /\ req'[r].loaded = req[r].loaded
      /\ req'[r].todo = req[r].todo /\ req'[r].shown = req[r].shown
  BY <1>0, GotoOK
<1>2. InSpeech(req'[r]) => InSpeech(req[r])
  BY <1>1, PlacesApart DEF InSpeech
<1>3. QED
  BY <1>0, <1>1, <1>2, OwnMoves

\* The search a request is for.
LEMMA SearchType ==
  ASSUME req \in [Requests -> RequestType], NEW r \in Requests
  PROVE  Search(r) \in Searches /\ Search(r)[2] = req[r].who
  BY RequestFields DEF Search, Searches

\* search.started is broadcast.
LEMMA StartedStep ==
  ASSUME RecordInv, NEW r \in Requests, SearchStarted(r)
  PROVE  RecordInv'
<1>0. /\ req \in [Requests -> RequestType] /\ spinner \subseteq Searches
      /\ lock \in Requests \cup {NoRequest}
  BY Opened
<1>1. req[r].pc \in Searching /\ "search" \in Searching
  BY DEF SearchStarted, At, Searching
<1>2. /\ req' \in [Requests -> RequestType]
      /\ \A s \in Requests \ {r} : req'[s] = req[s]
      /\ Own(r)'
  BY <1>1, SearchOK DEF SearchStarted, rowsAndBus
<1>3. spinner' \subseteq Searches
  BY <1>0, SearchType DEF SearchStarted
<1>4. QED
  BY <1>0, <1>2, <1>3, QuietStep DEF SearchStarted

\* The search itself writes nothing.
LEMMA SearchStep ==
  ASSUME RecordInv, NEW r \in Requests, RunSearch(r)
  PROVE  RecordInv'
<1>0. /\ req \in [Requests -> RequestType] /\ spinner \subseteq Searches
      /\ lock \in Requests \cup {NoRequest}
  BY Opened
<1>1. req[r].pc \in Searching /\ "dispatch" \in Searching /\ "completed" \in Searching
  BY DEF RunSearch, At, Searching
<1>2. /\ req' \in [Requests -> RequestType]
      /\ \A s \in Requests \ {r} : req'[s] = req[s]
      /\ Own(r)'
  <2>1. CASE Goto(r, "dispatch") /\ UNCHANGED lock
    BY <1>1, <2>1, SearchOK DEF RunSearch, RecordUnchanged, rowsAndBus
  <2>2. CASE Goto(r, "completed") /\ UNCHANGED lock
    BY <1>1, <2>2, SearchOK DEF RunSearch, RecordUnchanged, rowsAndBus
  <2>3. QED
    BY <2>1, <2>2 DEF RunSearch, Succeeds, Errs
<1>3. UNCHANGED lock /\ (Fault \/ Fine)
  BY DEF RunSearch, Succeeds, Errs
<1>4. QED
  BY <1>0, <1>2, <1>3, QuietStep DEF RunSearch, RecordUnchanged

\* The dispatch is on the bus before the finding is stored.
LEMMA SendDispatchStep ==
  ASSUME RecordInv, NEW r \in Requests, SendDispatch(r)
  PROVE  RecordInv'
<1>0. req \in [Requests -> RequestType]
  BY Opened
<1>1. /\ UNCHANGED <<round, evidence, spoken, belief, written, findings, spinner, lost, crashes>>
      /\ req[r].pc \in Searching /\ "persist" \in Searching /\ "completed" \in Searching
  BY DEF SendDispatch, At, Searching
<1>2. CASE Errs(r) /\ UNCHANGED bus
  <2>1. /\ req' \in [Requests -> RequestType]
        /\ \A s \in Requests \ {r} : req'[s] = req[s]
        /\ Own(r)'
    BY <1>1, <1>2, SearchOK DEF Errs
  <2>2. QED
    BY <1>1, <1>2, <2>1, BusStep DEF Errs
<1>3. CASE /\ bus' = bus \cup {Message("dispatch", req[r].who, "investigator", Search(r))}
           /\ Succeeds(r, "persist")
  <2> DEFINE m == Message("dispatch", req[r].who, "investigator", Search(r))
  <2>1. PICK l : l = req[r].who
    OBVIOUS
  <2>2. PICK f : f = Search(r)
    OBVIOUS
  <2>3. l \in Parties /\ "investigator" \in Parties /\ f \in Searches /\ "dispatch" \in Types
    BY <1>0, <2>1, <2>2, SearchType, RequestFields, PayloadOK DEF Parties
  <2>4. /\ m \in Messages /\ m.keys = Payload[m.type] /\ m.type = "dispatch"
        /\ m.visibility = "private" => m.from = m.to
        /\ m.from = req[r].who /\ m.ref = Search(r)
    BY <2>1, <2>2, <2>3, MessageOK
  <2> HIDE DEF m
  <2>5. bus' = bus \cup {m} /\ Goto(r, "persist") /\ UNCHANGED lock /\ Fine
    BY <1>3 DEF m, Succeeds
  <2>6. \E n \in bus' : n.type = "dispatch" /\ n.ref = Search(r) /\ n.from = req[r].who
    BY <2>4, <2>5
  <2>7. /\ req' \in [Requests -> RequestType]
        /\ \A s \in Requests \ {r} : req'[s] = req[s]
        /\ Own(r)'
    BY <1>1, <2>5, <2>6, SearchOK
  <2>8. m.type # "report"
    BY <2>4
  <2>9. QED
    BY <1>1, <2>4, <2>5, <2>7, <2>8, BusStep
<1>4. QED
  BY <1>2, <1>3 DEF SendDispatch

\* The finding is stored when its dispatch is on the bus.
LEMMA PersistStep ==
  ASSUME RecordInv, NEW r \in Requests, PersistFinding(r)
  PROVE  RecordInv'
<1>0. req \in [Requests -> RequestType] /\ Own(r)
  BY Opened
<1>1. /\ UNCHANGED <<round, evidence, spoken, belief, written, bus, spinner, lost, crashes>>
      /\ req[r].pc = "persist"
      /\ req[r].pc \in Searching /\ "report" \in Searching /\ "completed" \in Searching
  BY DEF PersistFinding, At, Searching
<1>2. CASE Errs(r) /\ UNCHANGED findings
  <2>1. /\ req' \in [Requests -> RequestType]
        /\ \A s \in Requests \ {r} : req'[s] = req[s]
        /\ Own(r)'
    BY <1>1, <1>2, SearchOK DEF Errs
  <2>2. QED
    BY <1>1, <1>2, <2>1, BusStep DEF Errs
<1>3. CASE findings' = findings \cup {Search(r)} /\ Succeeds(r, "report")
  <2>1. Search(r) \in Searches /\ Search(r)[2] = req[r].who
    BY <1>0, SearchType
  <2>2. /\ req' \in [Requests -> RequestType]
        /\ \A s \in Requests \ {r} : req'[s] = req[s]
        /\ Own(r)'
    BY <1>1, <1>3, SearchOK DEF Succeeds
  <2>3. Rows'
    BY <1>1, <1>3, <2>1, FaultsOK DEF RecordInv, Rows, Succeeds
  <2>4. \E m \in bus : m.type = "dispatch" /\ m.ref = Search(r) /\ m.from = Search(r)[2]
    BY <1>0, <1>1, <2>1 DEF Own, Search
  <2>5. FindingsAnnounced'
    BY <1>1, <1>3, <2>4 DEF RecordInv, FindingsAnnounced
  <2>6. Mild(r)
    BY <1>1, <1>3, <2>2 DEF Mild, Succeeds
  <2>7. QED
    BY <1>1, <2>2, <2>3, <2>5, <2>6, Kept, StepInv
<1>4. QED
  BY <1>2, <1>3 DEF PersistFinding

\* The report is sent when the finding is stored.
LEMMA ReportStep ==
  ASSUME RecordInv, NEW r \in Requests, SendReport(r)
  PROVE  RecordInv'
<1>0. req \in [Requests -> RequestType] /\ Own(r)
  BY Opened
<1>1. /\ UNCHANGED <<lock, round, evidence, spoken, belief, written, findings,
                     spinner, lost, crashes>>
      /\ req[r].pc = "report"
      /\ req[r].pc \in Searching /\ "completed" \in Searching
  BY DEF SendReport, At, Searching
<1>2. /\ req' \in [Requests -> RequestType]
      /\ \A s \in Requests \ {r} : req'[s] = req[s]
      /\ Own(r)'
  BY <1>1, SearchOK DEF SendReport
<1> DEFINE m == Message("report", "investigator", req[r].who, Search(r))
<1>3. /\ m \in Messages /\ m.keys = Payload[m.type] /\ m.ref = Search(r)
      /\ m.visibility = "private" => m.from = m.to
  <2>1. PICK l : l = req[r].who
    OBVIOUS
  <2>2. PICK f : f = Search(r)
    OBVIOUS
  <2>3. l \in Parties /\ "investigator" \in Parties /\ f \in Searches /\ "report" \in Types
    BY <1>0, <2>1, <2>2, SearchType, RequestFields, PayloadOK DEF Parties
  <2>4. QED
    BY <2>1, <2>2, <2>3, MessageOK
<1>4. (Fault \/ Fine) /\ (bus' = bus \cup {m} \/ UNCHANGED bus)
  BY DEF SendReport, Post
<1> HIDE DEF m
<1>5. m.ref \in findings
  BY <1>0, <1>1, <1>3 DEF Own, Search
<1>6. QED
  BY <1>1, <1>2, <1>3, <1>4, <1>5, BusStep

\* search.completed is broadcast; the speech goes on, or the request returns.
LEMMA CompletedStep ==
  ASSUME RecordInv, NEW r \in Requests, SearchCompleted(r)
  PROVE  RecordInv'
<1>0. /\ req \in [Requests -> RequestType] /\ Own(r) /\ spinner' \subseteq Searches
      /\ lock \in Requests \cup {NoRequest}
  BY Opened DEF SearchCompleted
<1>1. CASE Leave(r)
  BY <1>0, <1>1, LeaveStep DEF SearchCompleted
<1>2. CASE req[r].kind = "round" /\ Goto(r, "think") /\ UNCHANGED lock
  <2>1. /\ req[r].pc \in Critical /\ InSpeech(req[r]) /\ "think" \in Places /\ "think" \in Speaking
    BY <1>2 DEF SearchCompleted, At, InSpeech, Places, Critical, Speaking, Searching
  <2>2. /\ req' \in [Requests -> RequestType]
        /\ \A s \in Requests \ {r} : req'[s] = req[s]
        /\ req'[r].pc = "think" /\ req'[r].kind = req[r].kind /\ req'[r].who = req[r].who
        /\ req'[r].round = req[r].round /\ req'[r].loaded = req[r].loaded
        /\ req'[r].todo = req[r].todo /\ req'[r].shown = req[r].shown
    BY <1>0, <1>2, <2>1, GotoOK
  <2>3. UNCHANGED written
    BY DEF SearchCompleted, rowsAndBus
  <2>4. Own(r)'
    BY <1>0, <1>2, <2>1, <2>2, <2>3, OwnMoves
  <2>5. QED
    BY <1>0, <1>2, <2>2, <2>4, QuietStep DEF SearchCompleted
<1>3. QED
  BY <1>1, <1>2 DEF SearchCompleted

--------------------------------------------------------------------------------
(* The theorems. *)

\* A crash takes the requests under way and the lock, and leaves the rows.
LEMMA CrashStep == RecordInv /\ Crash => RecordInv'
<1> SUFFICES ASSUME RecordInv, Crash PROVE RecordInv'
  OBVIOUS
<1>1. /\ UNCHANGED rowsAndBus /\ Fine /\ spinner' = spinner /\ lost' = lost \cup spinner
      /\ crashes' \in 0..MaxCrashes /\ lock' = NoRequest
  BY Constants DEF Crash, RecordInv, Rows
<1>2. req' \in [Requests -> RequestType]
  BY IdleOK DEF Crash, RecordInv
<1>3. Rows'
  BY <1>1, FaultsOK DEF RecordInv, Rows, rowsAndBus
<1>4. Numbers' /\ Bus' /\ FindingsAnnounced' /\ NoLostUpdate'
  BY <1>1, Kept DEF rowsAndBus
<1>5. ASSUME NEW r \in Requests PROVE Own(r)'
  <2>1. CASE At(r, "idle")
    <3>1. req'[r] = req[r] /\ req[r].pc = "idle" /\ Own(r)
      BY <2>1 DEF Crash, At, RecordInv
    <3>2. evidence' = evidence
      BY <1>1 DEF rowsAndBus
    <3>3. QED
      BY <3>1, <3>2 DEF Own, InSpeech, Critical, Speaking, Searching
  <2>2. CASE ~At(r, "idle")
    BY <2>2, DoneOwn DEF Crash
  <2>3. QED
    BY <2>1, <2>2
<1>6. QED
  BY <1>2, <1>3, <1>4, <1>5 DEF RecordInv

\* The invariant holds at the start.
LEMMA InitInv == Init => RecordInv
<1> SUFFICES ASSUME Init PROVE RecordInv
  OBVIOUS
<1>1. req \in [Requests -> RequestType] /\ \A r \in Requests : req[r] = Idle
  BY IdleOK DEF Init
<1>2. Rows
  BY Constants DEF Init, Rows
<1>3. Numbers
  BY FS_EmptySet DEF Init, Numbers
<1>4. Bus /\ FindingsAnnounced /\ NoLostUpdate
  BY DEF Init, Bus, FindingsAnnounced, NoLostUpdate
<1>5. ASSUME NEW r \in Requests PROVE Own(r)
  <2>1. req[r].pc = "idle" /\ req[r].todo = {} /\ req[r].shown = {} /\ evidence = {}
    BY <1>1, IdleOK DEF Init
  <2>2. QED
    BY <2>1 DEF Own, InSpeech, Critical, Speaking, Searching
<1>6. QED
  BY <1>1, <1>2, <1>3, <1>4, <1>5 DEF RecordInv

\* Every step keeps it.
LEMMA NextInv == RecordInv /\ [Next]_vars => RecordInv'
<1> SUFFICES ASSUME RecordInv, [Next]_vars PROVE RecordInv'
  OBVIOUS
<1>1. ASSUME NEW r \in Requests, RequestEvidence(r) \/ RequestRound(r) \/ ResumeRound(r)
      PROVE  RecordInv'
  BY <1>1, RequestSteps
<1>2. ASSUME NEW r \in Requests, NEW l \in Lawyers, RequestDispatch(r, l) PROVE RecordInv'
  BY <1>2, AskStep
<1>3. ASSUME NEW r \in Requests, Step(r) PROVE RecordInv'
  BY <1>3, SubmitStep, CountStep, InsertStep, LoadStep, ApplyStep, AdvanceStep, StartStep,
     ListenStep, ThinkStep, SpeechStep, NoteStep, SaveStep, MoveStep, EndStep, DispatchStep,
     StartedStep, SearchStep, SendDispatchStep, PersistStep, ReportStep, CompletedStep
     DEF Step
<1>4. CASE Crash
  BY <1>4, CrashStep
<1>5. CASE UNCHANGED vars
  <2>1. Rows' /\ req' = req
    BY <1>5 DEF vars, RecordInv, Rows
  <2>2. Numbers' /\ Bus' /\ FindingsAnnounced' /\ NoLostUpdate'
    BY <1>5, Kept DEF vars
  <2>3. \A r \in Requests : Own(r)'
    BY <1>5 DEF vars, RecordInv, Own
  <2>4. QED
    BY <2>1, <2>2, <2>3 DEF RecordInv
<1>6. QED
  BY <1>1, <1>2, <1>3, <1>4, <1>5 DEF Next

\* The inductive invariant: who holds the lock and what it has read under it.
THEOREM RecordInvariant == Spec => []RecordInv
<1>1. QED
  BY InitInv, NextInv, PTL DEF Spec

\* The state keeps its types (Casework.TypeOK); with them, the number of a piece of
\* evidence never exceeds the number of requests.
THEOREM TypeCorrect == Spec => []TypeOK
<1>1. RecordInv => TypeOK
  <2> SUFFICES ASSUME RecordInv PROVE TypeOK
    OBVIOUS
  <2>1. \A r \in Requests :
          /\ req[r].kind \in {"none", "evidence", "round", "dispatch"}
          /\ req[r].who \in Lawyers /\ req[r].round \in 0..MaxRounds
          /\ req[r].turn \in 0..MaxTurns /\ req[r].todo \subseteq Lawyers
          /\ req[r].num \in 0..Cardinality(Requests)
    BY RequestFields DEF RecordInv
  <2>2. \A m \in bus : m.type \in Types /\ m.ref \in Searches
    BY DEF RecordInv, Bus, Messages
  <2>3. evidence \subseteq [num : 1..Cardinality(Requests), by : Requests]
    BY DEF RecordInv, Numbers
  <2>4. QED
    BY <2>1, <2>2, <2>3 DEF RecordInv, Rows, TypeOK
<1>2. QED
  BY <1>1, RecordInvariant, PTL

\* No belief loses what was written into it, whichever requests read and write it
\* around each other, whatever fails or crashes (submitEvidence, applySpeakToBelief).
THEOREM NoUpdateIsLost == Spec => []NoLostUpdate
<1>1. RecordInv => NoLostUpdate
  BY DEF RecordInv
<1>2. QED
  BY <1>1, RecordInvariant, PTL

\* Evidence has numbers of its own, findings are announced and reports have theirs,
\* and no prompt shows the other side's notes or reasoning (evidence.Create,
\* RecordFinding, BuildContextView).
THEOREM RecordStaysSound == Spec => []RecordSound
<1>1. RecordInv => RecordSound
  <2> SUFFICES ASSUME RecordInv PROVE RecordSound
    OBVIOUS
  <2>1. NumbersUnique
    BY DEF RecordInv, Numbers, NumbersUnique
  <2>2. OpponentKept
    BY DEF RecordInv, Own, SeenBy, OpponentKept
  <2>3. QED
    BY <2>1, <2>2 DEF RecordInv, RecordSound
<1>2. QED
  BY <1>1, RecordInvariant, PTL
================================================================================
