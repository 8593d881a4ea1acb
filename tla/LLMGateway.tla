------------------------------ MODULE LLMGateway -------------------------------
(***************************************************************************)
(* agent_gateway/gateway.go, Complete: the way of one LLM call through the *)
(* response cache, the token budget, the circuit breaker and the retries,  *)
(* with everything the concurrent calls share.  All the options of         *)
(* GatewayConfig are on, and a call names its session.                     *)
(*                                                                         *)
(* Prompt compression and throttling change the text sent upstream and how *)
(* long the answer may be; here that is the upstream's free choice of      *)
(* usage.  Sliding windows do not count: MemStore.Check caps their ratio   *)
(* by that of the total.  Cost is a second total with the same thresholds. *)
(***************************************************************************)
EXTENDS Integers, Sequences, FiniteSets, Filters

CONSTANTS
  Calls,        \* goroutines inside Complete
  Sessions,
  Prompts,      \* what MakeCacheKey tells apart
  Limit,        \* BudgetPerSession
  MaxUsage,     \* most tokens one answer costs
  MinRequests,  \* the breaker trips from so many requests on ...
  MaxProbes,    \* HalfOpenMaxRequests
  MaxRetries,   \* length of the retryer's backoff list
  CacheSize,    \* CacheMaxEntries
  MaxCounted,   \* bound: requests counted while the breaker stays closed
  MaxCancels    \* bound: calls their caller cancels

ASSUME GatewayAssumption ==
  /\ Limit \in Nat \ {0} /\ MaxUsage \in Nat \ {0}
  /\ MinRequests \in Nat \ {0} /\ MaxProbes \in Nat \ {0}
  /\ MaxRetries \in Nat /\ CacheSize \in Nat \ {0}
  /\ MaxCounted \in Nat /\ MaxCancels \in Nat
  /\ IsFiniteSet(Calls)

VARIABLES
  breaker,   \* the state of the breaker and its counts
  used,      \* tokens charged to each session
  entry,     \* cached responses by prompt
  lru,       \* cached prompts, the most recently used first
  found,      \* calls that found an entry whose list element is still in the list
  call,      \* state of each call
  upstream,  \* whether the LLM service answers
  cancels    \* how many calls were cancelled, for the bound

cache == <<entry, lru, found>>
shared == <<breaker, used, cache>>
vars == <<shared, call, upstream, cancels>>

NoEntry == [session |-> "none", kind |-> "none"]

\* A call outside Complete.  current: the breaker has not changed its state
\* since it let the call in; kind: what it is about to return.
Outside == [pc |-> "outside", session |-> "none", prompt |-> "none", current |-> FALSE,
            tries |-> 0, kind |-> "none", usage |-> 0]

Fresh(state) == [state |-> state, requests |-> 0, failures |-> 0, successes |-> 0]

Init ==
  /\ breaker = Fresh("closed")
  /\ used = [s \in Sessions |-> 0]
  /\ entry = [p \in Prompts |-> NoEntry] /\ lru = <<>> /\ found = {}
  /\ call = [c \in Calls |-> Outside]
  /\ upstream = "up" /\ cancels = 0

At(c, pc) == call[c].pc = pc

Goto(c, pc) == call' = [call EXCEPT ![c].pc = pc]

Leave(c) == call' = [call EXCEPT ![c] = Outside]

--------------------------------------------------------------------------------
(* Response cache.  Get looks under the read lock and acts under the write   *)
(* lock, two critical sections; Put and EvictSession are one each.  Time is   *)
(* not modelled: any entry may have expired.  The value a hit returns is not  *)
(* modelled either.                                                           *)

Without(p) == Kept(lru, Prompts \ {p})

Entered(pc, s, p) == [Outside EXCEPT !.pc = pc, !.session = s, !.prompt = p]

Enter(c, pc, s, p) == call' = [call EXCEPT ![c] = Entered(pc, s, p)]

\* Complete begins with the look: a miss, a hit whose list element the call
\* keeps, or an expired entry.
Complete(c, s, p) ==
  /\ At(c, "outside")
  /\ breaker.requests + Cardinality({d \in Calls : ~At(d, "outside")}) < MaxCounted
  /\ \/ entry[p] = NoEntry /\ Enter(c, "budget", s, p) /\ UNCHANGED found
     \/ entry[p] # NoEntry /\ Enter(c, "touch", s, p) /\ found' = found \union {c}
     \/ entry[p] # NoEntry /\ Enter(c, "expire", s, p) /\ UNCHANGED found
  /\ UNCHANGED <<breaker, used, entry, lru, upstream, cancels>>

\* Mutant: the prompt is put in front, whether its element is in the list or not.
PushToFront(c) ==
  /\ At(c, "touch")
  /\ lru' = <<call[c].prompt>> \o Without(call[c].prompt)
  /\ found' = found \ {c}
  /\ Leave(c)
  /\ UNCHANGED <<breaker, used, entry, upstream, cancels>>

\* The hit moves the element it found, which the list ignores when it has been
\* removed meanwhile, also if the prompt has a new one; then Complete returns.
MoveToFront(c) ==
  /\ At(c, "touch")
  /\ IF c \in found THEN lru' = <<call[c].prompt>> \o Without(call[c].prompt)
                    ELSE UNCHANGED lru
  /\ found' = found \ {c}
  /\ Leave(c)
  /\ UNCHANGED <<breaker, used, entry, upstream, cancels>>

\* Drops what the prompt has by now, which may be nothing, or a fresh entry.
RemoveExpired(c) ==
  /\ At(c, "expire")
  /\ entry' = [entry EXCEPT ![call[c].prompt] = NoEntry]
  /\ lru' = Without(call[c].prompt)
  /\ found' = {d \in found : call[d].prompt # call[c].prompt}
  /\ Goto(c, "budget")
  /\ UNCHANGED <<breaker, used, upstream, cancels>>

\* Mutant: no limit on the number of entries.
EvictsNothing(p) == {}

\* The prompt that makes room for p.
EvictedBy(p) == IF entry[p] = NoEntry /\ Len(lru) >= CacheSize THEN {lru[Len(lru)]} ELSE {}

Store(p, e) ==
  /\ entry' = [q \in Prompts |-> IF q = p THEN e
                                ELSE IF q \in EvictedBy(p) THEN NoEntry ELSE entry[q]]
  /\ lru' = <<p>> \o Kept(lru, Prompts \ ({p} \union EvictedBy(p)))
  /\ found' = {d \in found : call[d].prompt \notin EvictedBy(p)}

\* What is cached is whatever Complete returns without an error.
Put(c) ==
  /\ At(c, "put")
  /\ IF call[c].kind = "error" THEN UNCHANGED cache
     ELSE Store(call[c].prompt, [session |-> call[c].session, kind |-> call[c].kind])
  /\ Leave(c)
  /\ UNCHANGED <<breaker, used, upstream, cancels>>

--------------------------------------------------------------------------------
(* Token budget. *)

\* MemStore.Check and classify: the strictest of the three ratios has reached 1.
Exhausted(s) == used[s] >= Limit

\* MemStore.AddUsage: an answer without tokens leaves the session as it is.
Charged(s, usage) == [used EXCEPT ![s] = @ + usage]

\* Mutant: an exhausted session is warned about and goes on.
CheckOnlyWarns(c) ==
  /\ At(c, "budget")
  /\ Goto(c, "admit")
  /\ UNCHANGED <<shared, upstream, cancels>>

\* The snapshot is read here and not looked at again; an exhausted session is
\* rejected.
CheckBudget(c) ==
  /\ At(c, "budget")
  /\ IF Exhausted(call[c].session) THEN Leave(c) ELSE Goto(c, "admit")
  /\ UNCHANGED <<shared, upstream, cancels>>

AddUsage(c) ==
  /\ At(c, "charge")
  /\ used' = Charged(call[c].session, call[c].usage)
  /\ Goto(c, "put")
  /\ UNCHANGED <<breaker, cache, upstream, cancels>>

ResetBudget(s) == used' = [used EXCEPT ![s] = 0]

EvictSession(s) ==
  /\ entry' = [p \in Prompts |-> IF entry[p].session = s THEN NoEntry ELSE entry[p]]
  /\ lru' = Kept(lru, {p \in Prompts : entry[p].session # s})
  /\ found' = {d \in found : entry[call[d].prompt].session # s}

\* Called when the verdict is written: the budget is reset and the session's
\* responses are dropped (two critical sections; what a call does between them
\* it can also do before or after).
Release(s) ==
  /\ used[s] > 0 \/ \E p \in Prompts : entry[p].session = s
  /\ ResetBudget(s) /\ EvictSession(s)
  /\ UNCHANGED <<breaker, call, upstream, cancels>>

--------------------------------------------------------------------------------
(* Circuit breaker, outside the retries.  Its states and counts are those of *)
(* the gobreaker library: counts are cleared when the state changes (never   *)
(* while it stays closed), results of an earlier state are ignored.          *)

\* The failure ratio of 0.5 over at least MinRequests.
ReadyToTrip(b) == b.requests >= MinRequests /\ 2 * b.failures >= b.requests

\* Mutant: half open lets everything through.
LetsEveryoneProbe(b) == b.state # "open"

LetsThrough(b) ==
  b.state = "closed" \/ (b.state = "half-open" /\ b.requests < MaxProbes)

\* Admitted, or answered by the keyword fallback, which is not an error.
Admit(c) ==
  /\ At(c, "admit")
  /\ IF LetsThrough(breaker)
       THEN /\ breaker' = [breaker EXCEPT !.requests = @ + 1]
            /\ call' = [call EXCEPT ![c] = [@ EXCEPT !.pc = "attempt", !.current = TRUE,
                                                     !.tries = 1]]
       ELSE /\ call' = [call EXCEPT ![c] = [@ EXCEPT !.pc = "charge", !.kind = "fallback"]]
            /\ UNCHANGED breaker
  /\ UNCHANGED <<used, cache, upstream, cancels>>

\* The operation ended: what the breaker makes of it.
Succeeded(b) ==
  IF b.state = "half-open"
    THEN IF b.successes + 1 >= MaxProbes THEN Fresh("closed")
         ELSE [b EXCEPT !.successes = @ + 1]
    ELSE b

Failed(b) ==
  LET counted == [b EXCEPT !.failures = @ + 1] IN
  IF b.state = "half-open" \/ ReadyToTrip(counted) THEN Fresh("open") ELSE counted

\* The operation of call c ends with the breaker in b: results that came from
\* an earlier state leave it alone, a new state makes the other calls' stale.
Report(c, b, kind, usage) ==
  LET reported == IF call[c].current THEN b ELSE breaker
      moved == reported.state # breaker.state
  IN /\ breaker' = reported
     /\ call' = [d \in Calls |->
          IF d = c THEN [call[d] EXCEPT !.pc = "charge", !.current = FALSE,
                                        !.kind = kind, !.usage = usage]
          ELSE [call[d] EXCEPT !.current = @ /\ ~moved]]

BreakerCooldown ==
  /\ breaker.state = "open"
  /\ breaker' = Fresh("half-open")
  /\ UNCHANGED <<used, cache, call, upstream, cancels>>

--------------------------------------------------------------------------------
(* The upstream call and its retries. *)

\* Mutant: a success is not reported to the breaker.
AnsweredUnreported(c) ==
  /\ At(c, "attempt") /\ upstream = "up"
  /\ \E usage \in 1..MaxUsage : Report(c, breaker, "answer", usage)
  /\ UNCHANGED <<used, cache, upstream, cancels>>

Answered(c) ==
  /\ At(c, "attempt") /\ upstream = "up"
  /\ \E usage \in 1..MaxUsage : Report(c, Succeeded(breaker), "answer", usage)
  /\ UNCHANGED <<used, cache, upstream, cancels>>

\* Mutant: the retries never run out.
RetryForEver(c) ==
  /\ At(c, "attempt") /\ upstream = "down"
  /\ call' = [call EXCEPT ![c].tries = IF @ > MaxRetries THEN 1 ELSE @ + 1]
  /\ UNCHANGED <<shared, upstream, cancels>>

\* A failure worth retrying, and a backoff left.
Retry(c) ==
  /\ At(c, "attempt") /\ upstream = "down"
  /\ call[c].tries <= MaxRetries
  /\ call' = [call EXCEPT ![c].tries = @ + 1]
  /\ UNCHANGED <<shared, upstream, cancels>>

\* A permanent failure, the last retry, or the end of the call's context,
\* which counts as a failure too.
GiveUp(c) ==
  /\ At(c, "attempt")
  /\ \/ upstream = "down" /\ UNCHANGED cancels
     \/ upstream = "up" /\ cancels < MaxCancels /\ cancels' = cancels + 1
  /\ Report(c, Failed(breaker), "error", 0)
  /\ UNCHANGED <<used, cache, upstream>>

UpstreamChanges ==
  /\ upstream' = IF upstream = "up" THEN "down" ELSE "up"
  /\ UNCHANGED <<shared, call, cancels>>

--------------------------------------------------------------------------------
Step(c) == MoveToFront(c) \/ RemoveExpired(c) \/ CheckBudget(c) \/ Admit(c)
           \/ Answered(c) \/ Retry(c) \/ GiveUp(c) \/ AddUsage(c) \/ Put(c)

Next ==
  \/ \E c \in Calls, s \in Sessions, p \in Prompts : Complete(c, s, p)
  \/ \E c \in Calls : Step(c)
  \/ \E s \in Sessions : Release(s)
  \/ BreakerCooldown \/ UpstreamChanges

Spec == Init /\ [][Next]_vars

\* A call goes on by itself, at the latest when its 90 s are over; the breaker
\* tries again after its timeout.
Fairness ==
  /\ \A c \in Calls : WF_vars(Step(c))
  /\ WF_vars(BreakerCooldown)

FairSpec == Spec /\ Fairness

--------------------------------------------------------------------------------
CallType ==
  [pc : {"outside", "touch", "expire", "budget", "admit", "attempt", "charge", "put"},
   session : Sessions \union {"none"}, prompt : Prompts \union {"none"}, current : BOOLEAN,
   tries : 0..(MaxRetries + 1), kind : {"none", "answer", "fallback", "error"},
   usage : 0..MaxUsage]

TypeOK ==
  /\ breaker \in [state : {"closed", "open", "half-open"}, requests : Nat,
                  failures : Nat, successes : Nat]
  /\ used \in [Sessions -> Nat]
  /\ entry \in [Prompts -> [session : Sessions, kind : {"answer", "fallback"}]
                           \union {NoEntry}]
  /\ lru \in Seq(Prompts) /\ Len(lru) <= CacheSize
  /\ found \subseteq Calls
  /\ call \in [Calls -> CallType]
  /\ upstream \in {"up", "down"}
  /\ cancels \in 0..MaxCancels

\* A session is never charged more than its budget and what the calls that had
\* passed the check before it was exhausted may cost: the check and the charge
\* of a call are minutes apart and nothing is reserved.
BudgetOvershoot ==
  \A s \in Sessions : used[s] <= Limit - 1 + Cardinality(Calls) * MaxUsage

\* The LRU list and the map of entries hold the same prompts, each once,
\* also when the entry a call found is replaced, evicted or released before the
\* call gets the write lock to move it, or to remove it as expired.
CacheConsistent ==
  /\ \A p \in Prompts : entry[p] # NoEntry <=> Occurs(lru, p)
  /\ NoRepeats(lru)

\* While the breaker probes, it has let through no more calls than it may.
ProbesLimited ==
  breaker.state = "half-open" =>
    Cardinality({c \in Calls : At(c, "attempt") /\ call[c].current}) <= MaxProbes

\* Every call returns: rejected, from the cache, by fallback, with an error or
\* an answer, whatever the upstream does (timeout, retries bounded, fallback).
CallReturns == \A c \in Calls : ~At(c, "outside") ~> At(c, "outside")

\* When the upstream has come back for good and calls still arrive, the breaker
\* closes for good: no sequence of stale results, cancelled probes and retries
\* keeps the trial on fallbacks for ever.
BreakerRecovers ==
  <>[](upstream = "up") /\ []<>(\E c \in Calls : At(c, "admit"))
    => <>[](breaker.state = "closed")

\* Only answers of the LLM are cached, so that it answers again when it is back
\* (gateway.go:357-359).
OnlyAnswersCached == \A p \in Prompts : entry[p] # NoEntry => entry[p].kind = "answer"
================================================================================
