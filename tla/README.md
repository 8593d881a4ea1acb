# DecisionCourt: specifications

TLA+ specifications of DecisionCourt, a Go server in which LLM agents (prosecutor, defender, judge,
clerk, investigator) hold a trial over a user's decision, with a React frontend that watches it over
a WebSocket. Paths below are relative to the repository; `internal/` is `backend/internal/`.

`PROJECT.json` maps every definition to the lines it models and lists runs, mutants, hazards,
findings and theorems. `tlc -config X.cfg M` checks a run, `tlapm M.tla` the proofs.

## 1. Inventory

| Component | State it keeps | Operations | Hard part |
|---|---|---|---|
| Trial workflow (`internal/courtroom`, `internal/api/handler.go`, `internal/model/db.go`) | rows of `court_sessions`, `verdicts`, `evidences`, `court_messages`; per session a lock, a registered cancel function; the L0 semaphore | start, restart/force-skip opening, start/continue cross-examination, skip agent, direct verdict, submit evidence, dispatch investigator, interrupt, reopen; recovery at start | one goroutine per request, validated before the lock and executed minutes later; four writes to decide a trial; crash between any two |
| LLM gateway (`internal/agent_gateway`) | response cache (LRU), token budget per session, circuit breaker | `Complete`, `StreamComplete`, `Release` | what is read before a call of minutes is used after it; stale results of the breaker; retries under a timeout |
| Streamed speech (`internal/llm/client.go`, `gateway.go`, `internal/agent/react_runner.go`) | two bounded channels, a cancellable context | produce, relay, listen | three goroutines, blocking sends, a listener that leaves early |
| Agents (`internal/agent`) | none across calls; a ReAct run keeps its turns, tool results, retries and the text it streamed | think, call a tool, reflect, speak, retry, replace a speech a guard objects to, fall back | several budgets and one deadline on one loop; a guard's replacement undoes what another guard asked for |
| Belief (`internal/belief`, `courtroom/service.go`) | belief per agent, list of diffs, snapshots per round, counter of stable rounds | move by evidence, by a speech, by the judge; snapshot; converge | anchor against evidence; rounds that failed half-way; absolute values computed from old rows |
| A2A bus (`internal/a2a`) | messages with a visibility | send, context view, private memory | who may see what, while messages come in |
| Evidence, investigation, search | numbered evidence rows, findings, the page's spinner | submit, weigh, dispatch, report | count-then-create numbers; three writes per investigation |
| Review and rebuttal (`courtroom/rebuttal*.go`, `agent/rebuttal_*.go`) | links from a speech to the evidence it rebuts | declare, check a speech, adopt in the verdict | a speech that cites what was rebutted |
| Hub and WebSocket (`internal/api/hub.go`, `websocket.go`) | rooms of clients, a write lock per client, last action per connection | join, leave, broadcast, read loop | broadcast under the session lock, a map shared without its lock |
| Admission (`internal/middleware`, `ratelimit`, `idempotency`, `auth`; `frontend/lib/auth.ts`, `api.ts`) | JWT and CSRF token with their ages on both sides, starts of the last 24 hours, a bucket per address | authenticate, refuse, count, let pass, reissue | several expiries and limits in a row, each with its own remedy; lost answers; restarts forget the limits |
| Frontend socket (`frontend/lib/websocket.ts`, `reconnect.ts`) | the current socket, two timers, missed pongs | connect, reconnect with back-off, heartbeat, disconnect | events of a socket that is no longer the current one |
| Frontend events (`frontend/lib/transport.ts`) | a bounded queue, one flush in flight | enqueue, flush, put back | loss and order of events that failed |
| Frontend store (`frontend/store`, `courtroomHydrate.ts`) | the trial as the user sees it | apply an event, hydrate | events missed while disconnected, events during hydration |
| Prompt lab, observability, config, utilities, pages, deployment | no shared state that a step of another component depends on | | not modelled |

How they interact. A request (HTTP or WebSocket) is validated against the row and then runs in its
own goroutine of the trial workflow. That goroutine takes the session lock (most of the time),
a slot of the L0 semaphore and a cancellable context, lets agents speak through the ReAct runner,
which calls the LLM through the gateway; it saves messages, moves the row and broadcasts events
through the hub, synchronously, while it holds the lock. The frontend shows the events and sends
actions. When the verdict is written, the gateway releases the session's budget and cache. At start a
goroutine resumes the active trials while the HTTP server already takes requests.

What makes each correct, in short: a trial moves forward one round at a time, lets every side speak
once per round in the right order, decides on all the evidence, never completes without a verdict and
always ends when the user asks for it; locks, slots and cancel functions are returned exactly once;
an LLM call always returns, is charged for what it used, and outages do not outlive themselves; a speech
ends, passes the guards in its final form, and is not lost once shown; beliefs lose no influence and
the debate ends for the reason it gives; the record has unique numbers and no report without a
finding; a user who is refused gets in when the refusal says; a client eventually shows what the trial said.

## 2. Plan

1. (done) `TrialPhases`, `CourtTrial`, `TrialLifecycle`, `CourtTrialClaims`, `CourtTrial_proofs`: the
   trial workflow, its promise, the disagreements, the first proofs.
2. (done) `StreamRelay`: one streamed speech. `LLMGateway`: concurrent LLM calls.
3. (done) `Delivery`: hub, WebSocket read loop, `CourtWebSocket`, page and store of two clients.
4. (done) `LawyerSpeech`: the ReAct loop of a speech with its budgets, retries, guards and fallback, on
   top of `StreamRelay`'s outcomes. `Beliefs`: engine, stance steps, rulings, convergence. They say what
   `CourtTrial`'s `Speak`, `SpeakFails` and `DecideRound` choose from.
5. (done) `Casework`: evidence numbers, the reads and writes of beliefs, the three writes of an
   investigation, A2A visibility.
6. (done) `Admission`: tokens, limits and quota in front of `CourtTrial`'s `start`.
7. (done) the proofs: every safety invariant of every passing run, and the refinement of `TrialLifecycle`
   (section 6).
8. (next) abstract specifications of the smaller parts and that they are implemented, beginning with
   the charging of the gateway. After that, if at all: compressor and throttler as operators against
   reference definitions; messages and speech chunks in the page's store.

Abstract specifications worth stating: `TrialLifecycle` (`CourtTrial` implements it: checked in `TrialSerial`,
proved for any constants); "charged at most once per answer" for the gateway.

The set of runs is kept small: a claim whose point another run makes gives way to a new module's run.

## 3. Modules

The modules `*_proofs` hold the theorems about the module they are named after, `LLMGateway_proofs` also
those about `StreamRelay`; see section 6. `Filters` has
the one operator two of the models share: a sequence without some of its elements (the LRU list after
`EvictSession`, the quota's times after pruning).

### Trial workflow

* `TrialPhases`: the phases, the transition table (`statemachine.go`, `CanTransition`), the modes'
  round limits and the phases in which each action is admitted (`ValidateAction`).
* `CourtTrial`: one trial. The row (`phase`, `round`, `status`, and `touched` for "updated_at is
  later than the verdict's created_at", which is all `shouldSkipFinishTrial` wants to know), the
  verdict, the evidence count and the speeches survive a `Crash`; `lock`, `active` (the registered cancel
  function), `sem` (L0 slots of this trial) and the goroutines in `call` do not. Each goroutine keeps
  the copy of the row it read when the action was validated, as the code keeps its `session`
  variable; `WriteRow` is `transitionPhase`: legal by the copy, written unconditionally. Each handler
  is the chain of actions between its writes: `Request`, then e.g. `ContinueCrossExam`,
  `RunCrossExamRound`, `Speak`*, `JudgeAssess`, `DecideRound`, and for the verdict `FinishTrial`,
  `CloseTrial`, `Speak`*, `Deliberate`, `UpsertVerdict`, `PublishVerdict`, `CompleteTrial`, or, when the
  semaphore is full, `FinishTrial` and `ReportRefusal`. `Return`
  is what the deferred calls do together. An LLM answer is merged with the save of the speech; local
  work and queries nobody disturbs are merged with their neighbours.
* `TrialLifecycle`: what a trial promises, over row, verdict and evidence only.
* `CourtTrialClaims`: sentences of comments and tests that `CourtTrial` shows not to hold.

Not in `CourtTrial`: the texts, broadcasts, titles, review and rebuttal after the verdict; the
content of summaries and beliefs (whether the round converged is a free choice from round 2 on;
`Beliefs` says when it does).

### Streamed speech: `StreamRelay`

The provider goroutine sends frames on `src`, the relay goroutine of the gateway passes them to `out`
and settles (charge, audit row, close) when `src` is closed, `streamSpeakContent` listens until it
has the whole content field, an end, an error or a cancelled context. A frame is a piece of text or a
last frame; which piece completes the content is chosen at the start. The gateway's 90 s deadline is
the parent of nothing the relay waits for and the listener's 30 s deadline is shorter, so one
`cancelled` flag stands for both.

### LLM calls: `LLMGateway`

`Complete` of the gateway for concurrent calls: cache lookup, budget check, breaker, attempt with
retries, charge, cache insertion, and `Release` at the verdict. The lookup is what `ResponseCache.Get` does in
two critical sections: `Complete` looks under the read lock; under the write lock, later, `MoveToFront`
moves the list element the call found, or `RemoveExpired` drops what the prompt has by then. In between
the entry can be replaced, evicted or released; `found` holds the calls whose element is still in the list.
The value a hit returns is left out, and with it a data race: `Get` reads `entry.value` after it has given
up the lock (`cache.go:190`) while `Put` may write it, so that a hit can return the newer answer. The breaker library (gobreaker) is
external: closed, open, half-open with its counts, cleared when the state changes; results of calls
that were let in before a state change are ignored. Time is not modelled: an entry may have expired at any
lookup, an open breaker cools down at some point. Compression and throttling only change what the
upstream is asked, so the usage is a free choice.

### From the trial to the page: `Delivery`

`Write` and `Tell` are a phase change of `transitionPhase`: the row is updated, then the event goes to
`Hub.Broadcast`, which visits the members of the room (`todo`) while others join and leave:
`WriteMessage`, `Skip` (the member has left), `DropClient` (the write fails or its 5 s deadline passes),
`SwallowMessage` (a dead connection's buffers still take the frame). `Join` and `Leave` are the
connection's handler. On the browser's side a tab opens the page and hydrates (`OpenPage`,
`HydrateSession`, `MountScene`), and `CourtWebSocket` connects, beats, closes, reconnects and
disconnects (`Connect`, `Opened`, `Hear`, `Beat`, `SocketCloses`, `LeavePage`). `conn[s]` is a connection
with both its ends and the events in between, so that a socket the scene has already forgotten still
exists. The store is reduced to the phase, "the trial waits for you" and "the verdict is there". A ping
is only visible when it is not answered (`Unanswered`); the delay of the back-off is left out.
Not in it: which speech is shown (chunks, messages), the actions a client sends (`CourtTrial`'s
requests), and the trial itself, which goes through the fixed `Script` of events.

### One speech: `LawyerSpeech`

`Begin` is `lawyerSpeakReAct`; `Think`, `Reparse` and `GiveUp` are the loop of `ReActRunner.Run`;
`StreamSpeech`, `ValidateSpeak` and `RebuttalHook` what a speak decision goes through; `StanceJudge`,
`StanceRetry`, `NoveltyGuard` and `RebuttalGuard` the guards in the code's order, each of which may
put another speech in the place of the first, also one of white space, which only `SaveAgentMessage` refuses; `FallbackSpeak` the plain call of `orchestrator.speak`;
`RecordSideEffects` and `SaveAgentMessage` what the trial does with the result. A speech is a record of
what the guards tell apart: whether its text is new, a repetition or blank (empty, or white space only); whether its claims or its form
are flawed; the evidence it cites and rebuts; its stance. The LLM answers anything; past the `Deadline`
every call fails. `run.flags` are the flags on the Speaker that is passed on, `run.cleared`,
`run.later` and `run.blind` remember why a flag may be missing. `wired` is TRUE when the orchestrator has
a repository of rebuttals; the production wiring gives it none (section 7), the tests do. Left out: the memory and
weaken hooks (`Casework` has the notes), the exact wording of the retry prompts.

### What a session records: `Casework`

Goroutines of handlers that take the session lock and write to the same rows: `SubmitEvidence` to
`ApplyEvidence` (count, weigh and insert; load the agents; write them back one by one), `AdvanceRound`
to `EndRound` (a round with its speeches; `ResumeRound` after a restart), `DispatchInvestigator` to
`SearchCompleted` (also as a tool call inside a speech). A belief is the set of influences it is made of, so that an
overwritten influence is visible; `written` is history. A bus message is its type, its two ends and the
keys of its payload; `ContextView` is what a lawyer's prompt gets of the bus, after visibility and the whitelist.
`spinner` are the searches announced and not completed, `lost` those a crash cut short.

### What the agents believe: `Beliefs`

Belief_a in hundredths and log-odds in thousandths; `LogOdds` is the table behind `Logit` and
`Sigmoid`, `Posterior` the step of `UpdateWithDiff` with the anchor and its guard. `SubmitEvidence`
computes all agents in memory, inserts the diffs it can and writes rows until one fails; the
investigator is moved in memory and its row is never written. `NextRound` to `Decide` are a round:
speeches, a snapshot per agent, the judge's assessment, the four signals; any of it may fail and
leaves the rest behind, and `SameRound` runs the round again over it. `FinishRefused` is a
`finishTrial` that fails before it moves the phase, so that the debate goes on, `Rule` one that does not: the judge's decision,
and a verdict, or a trial that stays in closing or deliberation. `Reopen` keeps rounds, beliefs and the counter. The words of two speeches are reduced
to `alike`. `Evaluations` are what an evidence can be found to say: the LLM's answer clamped into range
(`Rated`), or the keyword estimate when there is no usable answer (`Estimated`). Only the newest diff of each agent is kept (`trail`).
The session lock serialises everything here; what happens without it is `Casework`'s question.

### Starting a trial over HTTP: `Admission`

One browser with its JWT and CSRF cookie and the server's middlewares in the order of `main.go`:
`RateLimited`, `Admit` (authentication and CSRF), `Allow` (the quota, which counts before the owner
is checked), `Validate` and `Open` (the start itself, two steps without a lock). `Send`, `Receive`, `Lose` and `Load` are
the page and its user, who may press the button again and come back to the page, by a reload or from another one: its
first GET renews the CSRF token. A refused start shows nothing and asks for nothing (`Receive`). Time is in ticks of the
ages in question; `Gc` is the hourly clean-up of the quota, `Restart` empties all that is in memory. `told` is the
`Retry-After` of a refusal, without its truncation to whole seconds, far below a tick; the `resets_at` beside it, the next UTC midnight, is left out.

## 4. Runs

| Run | Question | Bounds |
|---|---|---|
| `TrialSerial` | With one request at a time, does the trial implement `TrialLifecycle`, whatever fails, and does "give me the verdict" end in a completed trial, again after reopening, when nothing fails and `finishTrial` gets a slot? | 1 goroutine, mode standard, 2 pieces of evidence, 1 crash, 1 fault, a semaphore of 2 slots, both of which others may hold |
| `TrialOverlap` | What still holds when two requests overlap? | 2 goroutines, mode quick, 1 crash, 3 slots of which others may hold one, symmetric calls |
| `StreamEnds` | Does a streamed speech return, and is it charged in full? | channels of 2, up to 6 pieces, so that both channels and the relay fill up |
| `Gateway` | Do concurrent calls keep the cache, the budget and the breaker sound, and come back? | 2 calls, 1 session, 2 prompts in a cache of 1, budget 2, trip at 2 requests, 1 probe, 1 retry, 1 cancelled call |
| `Delivery` | Does a client hear what it should, without holding up the others, and get its connection back? | 2 tabs, 2 connections at a time, the last 3 of 5 events broadcast while they watch, 1 fault (a connection dies silently or is refused, or the server restarts), each tab opens the page once |
| `Speech` | Whatever the LLM answers and whenever the deadline passes, does a speech end, and which guards hold on what is said? | 1 piece of evidence and an invented one, stances pro_a and pro_b, 2 turns, 1 retry per guard, 2 speeches, beliefs from 50 |
| `Casework` | Do overlapping handlers keep numbers, findings, beliefs and secrets, with faults and a crash? | 2 requests of any kind, 1 round, 1 turn before the speech, 1 crash, 2 faults |
| `Admission` | Is the quota kept and honest, and does a user who keeps pressing the button and coming back to the page get an answer? | 2 requests at a time, an own and a foreign session, quota 2, token 1, cookie 3, day 2, week 3 ticks, 3 ticks, 1 loss (of a token or an answer) or restart |
| `Beliefs` | Is evidence never inverted, the trail whole, and the reason of the end true? | mode quick (2 rounds), a piece of evidence for A (an answer out of range) or against it (the keyword estimate), a speech moves 30 points, 1 round run again, 1 fault, any number of reopenings |
| `ClaimStaleStart`, `ClaimDeliberation`, `ClaimDegradedCached` | each one sentence of the repository, found violated | the smallest constants that show it |

The bounds are the smallest at which the interesting case happens: a second goroutine is enough for every
race of a pair of requests, one crash for every point between two writes (a second crash only repeats the
first from a state that is already reachable), 2 slots in a channel are full and have an order, two clients
are enough for one to disturb the other and a second socket of the same scene would be a second connection,
a cache of one entry evicts with every second prompt, and a breaker that trips at 2 failures has calls of
its old state still running. One retry per guard has a retry used up and a retry not taken; two speeches let
the second repeat and cite what the first said. With a quota of 2 a start can be the oldest, the newest and the
one too many. In `Beliefs` a speech moves its speaker by 30 points instead of 5, so that the lawyers can
meet at one extreme and part again within the two rounds that a signal needs; the order of the steps does not
depend on it. Signals that need a fifth round are in the model and not in this run. A trial that
fails between its closing and its verdict stops there, so that this run does not check for deadlock.

What the passing runs show beyond types: rounds are neither repeated nor run defender first under any
overlap, crash and recovery (`NoSpeechTwice`, `DefenderAnswers`); a trial shown as decided has its
verdict row (`VerdictBacked`); semaphore slots equal the open scopes (`SlotsAccounted`); a registered
cancel function belongs to a running call (`RegisteredCallRuns`); nobody waits for a lock it holds
(`LockNotReentered`); sequential use implements the lifecycle, and a verdict that was asked for is delivered unless something
crashed or failed or `finishTrial` was refused a slot (`DirectVerdictDelivers`); streams are charged for
what was produced, heard or not (`ChargedForAll`); a session overshoots its budget by at most one
answer per call in flight (`BudgetOvershoot`); LRU list and map agree, also when an entry goes
between the two locks of a lookup (`CacheConsistent`); probes are
limited and an outage that ends leaves the breaker closed (`ProbesLimited`, `BreakerRecovers`); a client
whose connection works hears every event since it joined, in order and once, whatever happens to the
others (`EveryoneHears`), and no broadcast hangs (`BroadcastEnds`); a scene has one connection or one
coming (`OneConnection`), gets it back whenever it dies (`StaysConnected`), and shows the phase and the
way on if it was a member when the phase last changed (`ViewFollows`; without that condition it does
not hold, section 7). A tab that returns while its old socket is still connecting can have that socket
as a ghost in the room; two visits per tab would exhaust the run's two connections with ghosts, which
says nothing about the code, hence one visit.

A final speech of the ReAct loop that cites rebutted evidence is flagged, whichever guard wrote it last (`RebuttalHonoured`), and one at
odds with its speaker's belief was passed by the judge or is flagged unless a later guard replaced it
(`StanceHonoured`); what was typed out before the user's eyes does not become an empty or blank speech
unless a guard replaced it by white space (`StreamedNeverLost`); calls are bounded and the thinking bubble goes (`CallsBounded`, `SpeechEnds`).
Evidence numbers are unique, a report has its finding and a finding its dispatch, a lawyer sees neither the
other's notes nor its reasoning and all of its own (`RecordSound`); no influence on a belief is overwritten
(`NoLostUpdate`); requests and searches end (`Settles`). The quota lets no more pass in any window of a day and
until its Retry-After the quota stays used up (`AdmissionSound`); an expired token, a full bucket or a lost answer locks
nobody out who presses the button and comes back to the page, again and again (`WritesHeal`; who only presses it stays refused, section 7). Visible beliefs never move against the direction of the evidence, a lawyer's diffs tell its belief while no
write failed, a debate that is being finished, or over, for consensus has both lawyers at one extreme unless
`finishTrial` fails and gives the debate back, and a signal ends a debate only after both lawyers spoke in
the second round or later (`DeliberationSound`).

## 5. Fairness

Goroutines run: LLM and database calls return or time out (90 s per call, 30 s per streamed speech),
`lockSession` polls. So `WF` on a goroutine's own steps. Users, crashes, faults, cancellations and
the upstream are not obliged to do anything. `ClaimDeliberation` adds a user who keeps asking and a
recovery that runs, to show that not even they help. In `StreamRelay` the provider only has to end
once its context is cancelled (the watcher of `client.go` closes the stream), and the listener's deadline
fires. `TrialSerial` checks its liveness under `FairSpec`, where only the handlers' steps are fair. In `LawyerSpeech` and
`Casework` every call of a run returns, with an error if need be (each has a timeout); nobody has to
begin a speech or send a request. In `Admission` the server answers (`WF`), the bucket of the address does not
refuse every start (`SF` on being admitted). Its users owe nothing: what `WritesHeal` needs of them stands in the property,
that they press the button again (`Presses`) and come back to the page until a GET has renewed the token
(`Returns`), both as `SF`, since each may interfere with the other. `Beliefs` states none.
In `LLMGateway` the breaker's timeout passes. In `Delivery` handlers and the browser's event loop
run, timers fire (write deadline, heartbeat, reconnect) and a handshake that meets no fault succeeds; the
trial need not go on and nobody has to open or leave a page.

## 6. Proofs

Each module `X_proofs` is about the module `X` (`LLMGateway_proofs` about `StreamRelay` too), for every value of its constants that satisfies the
assumptions in `X`. `NAME` of `X` below is the property a run checks; the theorem that states it is
`Spec => []NAME` unless something else is said. Each rests on an inductive invariant, because hardly any property is
inductive alone; TLC has checked the larger ones on the runs' configurations before they were proved.

**`CourtTrial_proofs`** (any finite set of goroutines, mode, set of requests, capacity of the semaphore,
evidence, crashes and faults):

* `TypeCorrect` (`TypeOK`). A handler's step writes `round + 1` or gives back the slots its goroutine
  says it holds, so `PlacesOK` adds what a goroutine's place implies for its copy of the row and its
  slots; `TypeInv == TypeOK /\ PlacesOK` is proved action by action in `StepTypeInv`.
* `RoundsDoNotOverlap` (`NoSpeechTwice`), `DefenderSpeaksSecond` (`DefenderAnswers`): by `RoundInv`, a goroutine
  inside a round holds the session lock (`RoundHoldsLock`), so that what it found out about the
  transcript when it began stays true, and whoever is about to let the defender speak has the
  prosecutor's speech in the transcript (`ProsecutorHeard`).
* `SlotsAreAccounted` (`SlotsAccounted`), `RegisteredRuns` (`RegisteredCallRuns`), `NoReentry` (`LockNotReentered`): by `HoldInv`,
  which adds that the holder of the lock is past every place where the lock is waited for. The slots are
  the cardinalities of the calls in one and in two scopes; a step moves one call between them.
* `VerdictIsBacked` (`VerdictBacked`): who is about to publish or to complete has written the verdict.
* `SerialTrialImplementsLifecycle` (`ImplementsLifecycle`) and `SerialCompletion` (`CompletedMeansVerdict`), both under the
  hypothesis `Calls = {solo}`, that is, requests do not overlap. With two, both are false of the code
  (`ClaimStaleStart` shows one way). `SerialInv` says that the copy a handler works with is the row, in which phases it
  can be where it is, and that the verdict being written weighs the evidence there is; then every step
  is one of `TrialLifecycle` or leaves the lifecycle's variables alone.

**`LLMGateway_proofs`** (any finite set of calls, any sessions, prompts, budget, cost, cache size, retries,
trip and probe limits): `TypeCorrect`, `OvershootBounded` (`BudgetOvershoot`), `CacheStaysConsistent` (`CacheConsistent`),
`ProbesAreLimited` (`ProbesLimited`). The overshoot needs `Headroom`: a session is lent one `MaxUsage` for every call that
has not passed its check, so that charging a call pays for itself. The probes need the breaker's
books: half open, its requests are the calls it still counts and the successes it has had. That the
list never outgrows the cache rests on list and map holding the same prompts; that these agree rests on
`HeldInv`, what a call between its look and its write lock knows of the list.

The gateway's streams are in the same module (`StreamRelay`, channels and streams of any length):
`RelayTypeCorrect` (`RelayTypeOK`) and `AllIsCharged` (`ChargedForAll`). The charge is a count over a sequence that
is gone; `RelayInv` says position by position what the channel still holds, so that what was produced
is what was relayed and the length of the channel, less the last frame.

**`Delivery_proofs`** (any tabs, connections, faults, visits): `TypeCorrect`, `BroadcastReaches` (`EveryoneHears`),
`OneSocketPerScene` (`OneConnection`), `PageFollowsTrial` (`ViewFollows`). `Wires` says of every connection, working or not, what
has been put on it; `Links` which scene and socket belong together, also while a socket closes or a
timer is set; `Views` what a scene shows after the events its socket has heard. The properties are
these at connections that work or have nothing left to hear. The script of events is the module's.

**`LawyerSpeech_proofs`** (any evidence, stances, turns, retries and number of speeches): `TypeCorrect`,
`RebuttalIsHonoured` (`RebuttalHonoured`), `StanceIsHonoured` (`StanceHonoured`), `StreamedIsNotLost` (`StreamedNeverLost`), `CallsAreBounded` (`CallsBounded`).
The properties are about the speech that is recorded; what makes them true happens several guards earlier.
`SpeechInv` says for every place of the loop what the speech may have cost (`Cost`), whether what the
user saw is still there or set aside (`Shown`), and what the guards passed so far left (`Judged`, `Checked`).

**`Casework_proofs`** (any finite set of requests, any rounds, turns, crashes and faults): `TypeCorrect`,
`NoUpdateIsLost` (`NoLostUpdate`), `RecordStaysSound` (`RecordSound`). `Own` says what a request may rely on where it is: the lock, the
number it has counted, the beliefs it has loaded, the message or finding behind its next step. A step of
another request keeps it because only the holder of the lock writes rows of evidence and beliefs, a
crash because it forgets what was read. A number is within the requests by the pigeonhole principle: no
request submits twice.

**`Admission_proofs`** (any sessions and requests, quota, ages and clock bound): `TypeCorrect` and `QuotaIsSound` (`AdmissionSound`).
The quota keeps its times in a list it prunes when asked, for a day, and once an hour, for a week. The
invariant relates the list to the history: what of it lies within the last day is exactly what the
quota let pass. Pruning keeps that because filtering twice is filtering once, and the head of the list
is the oldest because the list is in order.

**`Beliefs_proofs`** (any modes, answers, keyword scores, rulings, step of a speech, and bounds):
`DeliberationStaysSound` (`DeliberationSound`). That evidence is never inverted does not depend on a trial: the table
of log-odds rises (`TableRises`, `LogitRises`), `Sigmoid`, a count of the thresholds passed, is its inverse
(`SigmoidInverts`, by the cardinalities of intervals), and a step that keeps its sign on the scale keeps
it on the beliefs (`AnchorNeverInverts`). The rest is `BeliefsInv`: `Rounds` says who has spoken where the
request is, `Rows` that a lawyer's belief is visible (a judge may be certain), `Snapshots` that from
their insertion to the end of the round the newest snapshot of a lawyer is what it believes, so that
old snapshots of a round that failed and was run again do not decide a consensus. A `finishTrial` that gives the
debate back also takes back its reason (`Rounds`), before any evidence can move the lawyers.

**`Filters_proofs`**: what `Kept` returns, for every sequence and set, used by the cache and the
quota. These are inductions over sequences; the library's induction theorems take an operator, which
the provers cannot instantiate, so `SequenceInduction` is stated for the set of the sequences of which a
claim holds and derived from the least element of its complement.

Changes to the models the proofs asked for: finite sets of goroutines, calls and evidence, and bounds that are
natural numbers (assumptions TLC evaluates); `Kept` in place of `SelectSeq`, which is recursive; the
stances of `LawyerSpeech`'s type; and in `Beliefs` the anchor's guard tests the sign of the shift, because the
rounded step is 0 for a small shift whose step in the code is not, and the anchor could then turn it around.

Model-checked only:

* Liveness, which needs fairness and `ENABLED`: `DirectVerdictDelivers`, `ListenerReturns`, `HeardOutSettles`,
  `CallReturns`, `BreakerRecovers`, `BroadcastEnds`, `StaysConnected`, `SpeechEnds`, `Settles`, `WritesHeal`.
* The three disagreements of section 7 that have a run: what is violated has no theorem.

## 7. Disagreements with the repository's own words

Each with a run (see `PROJECT.json`, findings): a `start_cross_exam` that waited undoes a published verdict;
a deliberation that crashed is never resumed; the keyword fallback of an open breaker is cached.

Seen while modelling, without a run of their own:

* `service.go:1776` two continue requests past the last round finish the trial at the same time without a lock:
  both let the parties close and both decide, although the comment promises idempotency.
* `gateway.go:469` the relay's `out <- chunk` watches no context: when the listener has left and the
  channel is full, the goroutine stays and the session is not charged; `gateway.go:394` says the 90 s end it.
* `CourtroomScene.tsx:498` the verdict button is shown by the phase and works by a flag that only the live
  `verdict.ready` sets: after a reload it does nothing.
* `cmd/server/main.go:321` the orchestrator gets no repository of rebuttals (`NewOrchestrator(..., nil, nil)`,
  and nothing calls `WithRebuttalRepository`), so declared rebuttals are not stored and the guard never fires.
* `belief/convergence.go:120` `belief_stable` needs a counter of 2, and `updateStableCounter` only counts
  rounds whose reason was `belief_stable`: it never fires. `MaxRounds` of the signals is 5 in every mode.
* `courtroom/service.go:2609` weaken links are looked up for the evidence that was just created: there are none yet.
* `belief/engine_v06.go:95` "may only damp an evidence step": a pull in the evidence's direction amplifies
  it. `confirmationSign` makes evidence for A lower belief_a of an agent that leans to B.
* `courtroom/service.go:1541` the judge's assessments and the investigator's steps leave no row or no diff: only the
  lawyers' trails are whole. A judge above 0.95 is brought down by evidence in its favour, because
  only the engine clamps. `belief.diff` is broadcast also when its insert failed.
* `agent/react_runner.go:741` a replacement by a guard is not validated again, and the judge does not see
  replacements by the later guards.
* `agent/react_runner.go:769`, `:902`, `rebuttal_check.go:162` the guards' retries take any content but `""`, and
  `saveAgentMessage` (`courtroom/service.go:2480`) refuses what `TrimSpace` leaves nothing of: a retry that answers
  white space costs the user a speech they have watched, and the round. So does a stream of white space
  (`react_runner.go:460`), which skips the retry an empty one gets.
* `idempotency/idempotency.go:5` promises the stored answer for a repeated start; nothing calls `Put`.
* `lib/api.ts:288`, `CourtroomScene.tsx:655`, `:664` and `lib/errorBus.ts:10` say that `fetchJson` shows a refusal as a toast, which
  tells the user to reload the page. It throws a bare `Error` without reading the body (`lib/api.ts:297`), nothing
  calls `handleApiError`, and the scene writes a `console.debug`. Two hours after the token was issued every
  start is refused, for as long as the user only presses the button and no GET renews the token; when its cookie goes, after 24 hours,
  a start is refused for having none.
* `courtroom/service.go:1583` stores `converged` and broadcasts `trial.converged` before `finishTrial`, which may
  find the semaphore full or a query failing. The debate then goes on, evidence may move the lawyers apart, and the
  session still says it converged, also after a later verdict of another kind. Reopening does not clear it either.
* `handler.go:459` sends the next UTC midnight as `resets_at` beside a `Retry-After` that goes by the sliding window.
* `ratelimit` documents trials per UTC day; the window slides over 24 hours. A start is counted before its
  owner is checked and its phase validated.
* `service.go:827` `continue_cross_exam` computes the next round from the row it read before it waited
  for the lock, so a second one still moves the trial; `service_session_lock_test.go:408` says it fails.
* `service.go:972` reopening writes the phase, then the status; a crash in between leaves a reopened
  trial `completed`, which `finishTrial` then skips.
* `handler.go:630` answers a `direct_verdict` with 200 and runs it behind that; when `finishTrial` then finds the
  semaphore full (`service.go:1759`), the user who asked over HTTP is not told (only `slog`), the one who asked
  over the websocket is (`websocket.go:296`). The trial stays where it was and the button works again.
* `service.go:639` `/start` takes no lock: two starts both open the trial.
* `service.go:901` a dispatch validated before the verdict still runs after it.
* `service.go:498` `withCancel` registers one cancel function per session; the second of two
  concurrent calls hides the first from `direct_verdict`.
* `recovery.go:141` a trial recovered in closing lets one side speak and then waits for the user.
* `cmd/server/main.go:494` says recovery runs before HTTP starts; it runs in a goroutine beside it.
* `agent_gateway/cache.go:12` says entries do not hit across trials; the key has no session.
* `agent_gateway/token_budget_memstore.go:157` the sliding window's ratio is capped by the total's, so
  it never decides.
* `agent_gateway` counts a caller's cancellation as a failure of the upstream, and the failures of a
  closed breaker are never cleared.
* `api/hub.go:121` iterates the room's map while `Join` and `Leave` change it: the Go runtime may stop
  the process with "concurrent map iteration and map write".
* `frontend/lib/websocket.ts:264` a socket that is still connecting when the scene goes is not closed:
  the new `onopen` reads a field that the next statement sets to null.
* `CourtroomScene.tsx:1045` in cross-examination the button for the next round comes from live events only;
  after a reload, or when the event fell into a reconnect, it is missing. Nothing is hydrated again
  after a reconnect.
* `courtroomHydrate.ts:20` speaks of a `mounted` guard; the writes into the shared store have none.
* `api/websocket.go:84` `wsMaxConnsPerSession` is not enforced.

## 8. Not modelled

* Texts: prompts, parsing of answers, the words compared for novelty and oscillation, titles, the verdict's
  prose, the adoption of rebuttals in a verdict (`courtroom/rebuttal_*.go`; a function of two texts, over a
  repository production does not set). The modules choose freely among what the texts may make of them.
* `agent_gateway/prompt_compressor.go`, `throttler.go`: functions of a prompt; the gateway's state sees only the usage.
* Pure output: recorder, file logs, metrics, audit rows; `frontend/lib/transport.ts`, the browser's
  telemetry: a bounded queue of log events nothing in a trial reads.
* Signatures of tokens, origin checks, validation of lengths: no state.
* `belief/engine.go`'s `UpdateAgents` and the v0.5 rule of `isConverged`: not reached in production.
* What the page renders besides phase, waiting and verdict; the prompt lab, configuration, deployment.
* Two users or trials at once: they share the semaphore (`CourtTrial` lets others hold slots), the
  breaker and the cache (`LLMGateway` has sessions) and the bucket (`Admission`'s free refusal), nothing else.
