--------------------------- MODULE LLMGateway_proofs ---------------------------
(***************************************************************************)
(* What TLAPS proves of the LLM gateway: of its concurrent calls           *)
(* (LLMGateway), for any number of calls, sessions and prompts, any        *)
(* budget, cache size and probe limit, and of the relay of a streamed call *)
(* (StreamRelay), for channels and streams of any length.                  *)
(*                                                                         *)
(* CoreInv is about the calls, the budget and the breaker.                 *)
(* - The overshoot of the budget is not inductive: a charge adds to used   *)
(*   what nothing in the bound takes away.  Headroom lends a session one   *)
(*   MaxUsage for every call that has NOT passed its check, so that        *)
(*   charging a call, which leaves the ones that have, pays for itself.    *)
(* - That probes are limited needs the breaker's own books: half open, its *)
(*   requests are the calls it still counts and the successes it has had.  *)
(*                                                                         *)
(* CacheInv is about the cache.  That its list never outgrows CacheSize    *)
(* rests on the list and the map holding the same prompts: only then does  *)
(* storing under a prompt that has an entry free a place in the list.  And *)
(* HeldInv: a call between its look and its write lock holds an element of *)
(* the list, the one of a prompt that has an entry, or has lost it, so     *)
(* that moving the element never brings back a prompt without an entry.    *)
(*                                                                         *)
(* RelayInv is about the relay.  That it charges for everything the        *)
(* upstream produced is not inductive: it is a count over a sequence it    *)
(* has long forgotten.  The invariant says what src holds, position by     *)
(* position: pieces only while it is open, then pieces and one last frame. *)
(* So the pieces still in src are Len(src), or one less, and no sum over   *)
(* the sequence is needed.                                                 *)
(***************************************************************************)
EXTENDS LLMGateway, StreamRelay, Filters_proofs, FiniteSetTheorems

--------------------------------------------------------------------------------
(* One call. *)

\* What its program counter says of the other fields.

CallOK(r) ==
  /\ r \in CallType
  /\ r.pc # "outside" => r.session \in Sessions /\ r.prompt \in Prompts
  /\ r.pc \in {"charge", "put"} => r.kind \in {"answer", "fallback", "error"}
  /\ r.current => r.pc = "attempt"

\* call is a function on Calls: an EXCEPT of it changes one call.
CallsOK ==
  /\ \A c \in Calls : CallOK(call[c])
  /\ call = [c \in Calls |-> call[c]]

--------------------------------------------------------------------------------
(* How a step changes the calls. *)

\* Only call c moves, to r.
Moves(c, r) == call' = [call EXCEPT ![c] = r]

\* The other calls stay what they were.
LEMMA Moved ==
  ASSUME CallsOK, NEW c \in Calls, NEW r, Moves(c, r)
  PROVE  /\ call' = [d \in Calls |-> call'[d]]
         /\ call'[c] = r
         /\ \A d \in Calls : d # c => call'[d] = call[d]
  BY DEF CallsOK, Moves

\* The types of a call's fields.
LEMMA CallTypes ==
  ASSUME NEW r, CallOK(r)
  PROVE  /\ r.pc \in {"outside", "touch", "expire", "budget", "admit", "attempt", "charge",
                      "put"}
         /\ r.session \in Sessions \union {"none"} /\ r.prompt \in Prompts \union {"none"}
         /\ r.current \in BOOLEAN /\ r.tries \in 0..(MaxRetries + 1)
         /\ r.kind \in {"none", "answer", "fallback", "error"} /\ r.usage \in 0..MaxUsage
  BY DEF CallOK, CallType

\* Goto moves a call the breaker does not count.
LEMMA SetPc ==
  ASSUME NEW r, CallOK(r), ~r.current, r.pc # "outside",
         NEW pc \in {"budget", "admit", "attempt", "put"}, pc = "put" => r.pc = "charge"
  PROVE  /\ CallOK([r EXCEPT !.pc = pc])
         /\ [r EXCEPT !.pc = pc].pc = pc
         /\ [r EXCEPT !.pc = pc].session = r.session
         /\ ~[r EXCEPT !.pc = pc].current
  BY DEF CallOK, CallType

\* A call that has returned.
LEMMA OutsideOK == CallOK(Outside)
<1>1. 0 \in 0..(MaxRetries + 1) /\ 0 \in 0..MaxUsage
  BY GatewayAssumption
<1>2. Outside \in CallType
  BY <1>1 DEF Outside, CallType
<1>3. QED
  BY <1>2 DEF CallOK, Outside

\* A call that has looked into the cache.
LEMMA EnteredOK ==
  ASSUME NEW pc \in {"touch", "expire", "budget"}, NEW s \in Sessions, NEW p \in Prompts
  PROVE  LET r == Entered(pc, s, p)
         IN  CallOK(r) /\ r.pc = pc /\ r.session = s /\ r.prompt = p /\ ~r.current
<1> DEFINE r == Entered(pc, s, p)
<1>1. Outside \in CallType /\ Outside.current = FALSE
  BY OutsideOK DEF CallOK, Outside
<1>2. r \in CallType /\ r.pc = pc /\ r.session = s /\ r.prompt = p /\ r.current = FALSE
  BY <1>1 DEF CallType, Entered
<1>3. QED
  BY <1>2 DEF CallOK

\* A call the breaker lets through.
LEMMA AdmittedOK ==
  ASSUME NEW r, CallOK(r), r.pc = "admit"
  PROVE  LET q == [r EXCEPT !.pc = "attempt", !.current = TRUE, !.tries = 1]
         IN  CallOK(q) /\ q.pc = "attempt" /\ q.session = r.session /\ q.current
<1> DEFINE q == [r EXCEPT !.pc = "attempt", !.current = TRUE, !.tries = 1]
<1>1. 1 \in 0..(MaxRetries + 1)
  BY GatewayAssumption
<1>2. r \in CallType
  BY DEF CallOK
<1>3. q \in CallType /\ q.pc = "attempt" /\ q.session = r.session /\ q.current = TRUE
      /\ q.prompt = r.prompt
  BY <1>1, <1>2 DEF CallType
<1> HIDE DEF q
<1>4. CallOK(q)
  BY <1>3 DEF CallOK
<1>5. QED
  BY <1>3, <1>4 DEF q

\* A call answered by the keyword fallback.
LEMMA FallbackOK ==
  ASSUME NEW r, CallOK(r), r.pc = "admit"
  PROVE  LET q == [r EXCEPT !.pc = "charge", !.kind = "fallback"]
         IN  CallOK(q) /\ q.pc = "charge" /\ q.session = r.session /\ ~q.current
<1> DEFINE q == [r EXCEPT !.pc = "charge", !.kind = "fallback"]
<1>2. r \in CallType
  BY DEF CallOK
<1>3. q \in CallType /\ q.pc = "charge" /\ q.session = r.session /\ q.current = r.current
      /\ q.prompt = r.prompt /\ q.kind = "fallback"
  BY <1>2 DEF CallType
<1> HIDE DEF q
<1>4. CallOK(q) /\ ~q.current
  BY <1>2, <1>3 DEF CallOK
<1>5. QED
  BY <1>3, <1>4 DEF q

\* A call that tries again.
LEMMA RetriedOK ==
  ASSUME NEW r, CallOK(r), r.pc = "attempt", r.tries <= MaxRetries
  PROVE  LET q == [r EXCEPT !.tries = @ + 1]
         IN  CallOK(q) /\ q.pc = "attempt" /\ q.session = r.session /\ q.current = r.current
<1> DEFINE n == r.tries + 1
           q == [r EXCEPT !.tries = n]
<1>1. n \in 0..(MaxRetries + 1)
  BY GatewayAssumption, CallTypes
<1>2. r \in CallType
  BY DEF CallOK
<1> HIDE DEF n
<1>3. q \in CallType /\ q.pc = "attempt" /\ q.session = r.session /\ q.current = r.current
      /\ q.prompt = r.prompt
  BY <1>1, <1>2 DEF CallType
<1> HIDE DEF q
<1>4. CallOK(q)
  BY <1>2, <1>3 DEF CallOK
<1>5. QED
  BY <1>3, <1>4 DEF q, n

\* A call whose result the breaker will ignore, if its state moved.
LEMMA StaleOK ==
  ASSUME NEW r, CallOK(r), NEW b \in BOOLEAN
  PROVE  LET q == [r EXCEPT !.current = @ /\ b]
         IN  CallOK(q) /\ q.pc = r.pc /\ q.session = r.session /\ (q.current <=> r.current /\ b)
<1> DEFINE n == r.current /\ b
           q == [r EXCEPT !.current = n]
<1>1. n \in BOOLEAN
  BY CallTypes
<1>2. r \in CallType
  BY DEF CallOK
<1>6. n => r.current
  OBVIOUS
<1> HIDE DEF n
<1>3. q \in CallType /\ q.pc = r.pc /\ q.session = r.session /\ q.current = n
      /\ q.prompt = r.prompt /\ q.kind = r.kind
  BY <1>1, <1>2 DEF CallType
<1> HIDE DEF q
<1>4. CallOK(q)
  BY <1>2, <1>3, <1>6 DEF CallOK
<1>5. QED
  BY <1>3, <1>4 DEF q, n

--------------------------------------------------------------------------------
(* The budget. *)

\* A call that has passed the budget check and is not charged yet.
Past(c, s) == call[c].pc \in {"admit", "attempt", "charge"} /\ call[c].session = s

\* The calls that may still cost session s one MaxUsage more than is lent.
Waiting(s) == {c \in Calls : ~Past(c, s)}

Headroom ==
  \A s \in Sessions : used[s] <= Limit - 1 + Cardinality(Waiting(s)) * MaxUsage

BudgetOK == used \in [Sessions -> Nat] /\ Headroom

\* Calls are finitely many, so waiting calls can be counted.
LEMMA WaitingFinite ==
  \A s : IsFiniteSet(Waiting(s)) /\ Cardinality(Waiting(s)) \in Nat
         /\ Cardinality(Waiting(s)) <= Cardinality(Calls) /\ Cardinality(Calls) \in Nat
<1> TAKE s
<1>1. Waiting(s) \subseteq Calls /\ IsFiniteSet(Calls)
  BY GatewayAssumption DEF Waiting
<1>2. QED
  BY <1>1, FS_Subset, FS_CardinalityType

\* Nobody passes the check, nobody is charged.
LEMMA SameBudget ==
  ASSUME BudgetOK, UNCHANGED used,
         \A s \in Sessions, c \in Calls : Past(c, s)' <=> Past(c, s)
  PROVE  BudgetOK'
<1>1. ASSUME NEW s \in Sessions PROVE Waiting(s)' = Waiting(s)
  BY DEF Waiting
<1>2. QED
  BY <1>1 DEF BudgetOK, Headroom

\* One more factor.
LEMMA Product == ASSUME NEW n \in Nat, NEW m \in Nat PROVE n * m \in Nat /\ (n + 1) * m = n * m + m
  OBVIOUS

\* A call passes the check of a session that has something left.
LEMMA CheckKeepsBudget ==
  ASSUME BudgetOK, UNCHANGED used, NEW s \in Sessions, used[s] < Limit,
         \A z \in Sessions, c \in Calls : z # s => (Past(c, z)' <=> Past(c, z))
  PROVE  BudgetOK'
<1>1. ASSUME NEW z \in Sessions, z # s PROVE Waiting(z)' = Waiting(z)
  BY <1>1 DEF Waiting
<1>2. Cardinality(Waiting(s)') \in Nat
  <2>1. Waiting(s)' \subseteq Calls /\ IsFiniteSet(Calls)
    BY GatewayAssumption DEF Waiting
  <2>2. QED
    BY <2>1, FS_Subset, FS_CardinalityType
<1>3. used[s] \in Nat /\ Limit \in Nat /\ MaxUsage \in Nat
  BY GatewayAssumption DEF BudgetOK
<1> DEFINE n == Cardinality(Waiting(s)')
           u == used[s]
<1>4. n * MaxUsage \in Nat
  BY <1>2, <1>3, Product
<1>5. u <= Limit - 1 + n * MaxUsage
  <2> DEFINE k == n * MaxUsage
  <2>1. k \in Nat /\ u \in Nat /\ u < Limit
    BY <1>3, <1>4
  <2> HIDE DEF k, u
  <2>2. u <= Limit - 1 + k
    BY <2>1, <1>3
  <2>3. QED
    BY <2>2 DEF k
<1> HIDE DEF n
<1>6. ASSUME NEW z \in Sessions PROVE used[z] <= Limit - 1 + Cardinality(Waiting(z)') * MaxUsage
  <2>1. CASE z = s
    BY <2>1, <1>5 DEF n
  <2>2. CASE z # s
    BY <2>2, <1>1 DEF BudgetOK, Headroom
  <2>3. QED
    BY <2>1, <2>2
<1>7. QED
  BY <1>6 DEF BudgetOK, Headroom

\* A call that passed the check is charged.
LEMMA ChargeKeepsBudget ==
  ASSUME BudgetOK, NEW c \in Calls, NEW s \in Sessions, NEW usage \in 0..MaxUsage,
         used' = Charged(s, usage), Past(c, s), ~Past(c, s)',
         \A z \in Sessions, d \in Calls : z # s \/ d # c => (Past(d, z)' <=> Past(d, z))
  PROVE  BudgetOK'
<1>1. ASSUME NEW z \in Sessions, z # s PROVE Waiting(z)' = Waiting(z)
  BY <1>1 DEF Waiting
<1>2. Waiting(s)' = Waiting(s) \cup {c} /\ c \notin Waiting(s)
  BY DEF Waiting
<1>3. Cardinality(Waiting(s)') = Cardinality(Waiting(s)) + 1
  BY <1>2, WaitingFinite, FS_AddElement
<1>4. used[s] \in Nat /\ Limit \in Nat /\ MaxUsage \in Nat /\ used \in [Sessions -> Nat]
  BY GatewayAssumption DEF BudgetOK
<1> DEFINE n == Cardinality(Waiting(s))
           u == used[s]
           k == n * MaxUsage
           w == u + usage
<1>5. n \in Nat /\ u \in Nat
  BY WaitingFinite, <1>4
<1>6. k \in Nat /\ (n + 1) * MaxUsage = k + MaxUsage
  BY <1>4, <1>5, Product
<1>7. u <= Limit - 1 + k
  BY DEF BudgetOK, Headroom
<1>8. w \in Nat /\ used' = [used EXCEPT ![s] = w]
  BY <1>4, <1>5 DEF Charged
<1> HIDE DEF k, u
<1>9. w <= Limit - 1 + (k + MaxUsage)
  BY <1>4, <1>5, <1>6, <1>7
<1> HIDE DEF w, n
<1>10. used' \in [Sessions -> Nat] /\ used'[s] = w
       /\ \A z \in Sessions : z # s => used'[z] = used[z]
  BY <1>4, <1>8
<1>11. ASSUME NEW z \in Sessions
       PROVE  used'[z] <= Limit - 1 + Cardinality(Waiting(z)') * MaxUsage
  <2>1. CASE z = s
    BY <2>1, <1>3, <1>6, <1>9, <1>10 DEF n
  <2>2. CASE z # s
    BY <2>2, <1>1, <1>10 DEF BudgetOK, Headroom
  <2>3. QED
    BY <2>1, <2>2
<1>12. QED
  BY <1>10, <1>11 DEF BudgetOK, Headroom

\* A session starts anew.
LEMMA ReleaseKeepsBudget ==
  ASSUME BudgetOK, NEW s \in Sessions, ResetBudget(s), UNCHANGED call
  PROVE  BudgetOK'
<1>1. ASSUME NEW z \in Sessions PROVE Waiting(z)' = Waiting(z)
  BY DEF Waiting, Past
<1>2. used' \in [Sessions -> Nat] /\ used'[s] = 0
      /\ \A z \in Sessions : z # s => used'[z] = used[z]
  BY DEF BudgetOK, ResetBudget
<1>3. ASSUME NEW z \in Sessions
      PROVE  used'[z] <= Limit - 1 + Cardinality(Waiting(z)) * MaxUsage
  <2> DEFINE k == Cardinality(Waiting(z)) * MaxUsage
  <2>1. k \in Nat /\ Limit \in Nat \ {0}
    BY WaitingFinite, GatewayAssumption, Product
  <2> HIDE DEF k
  <2>2. 0 <= Limit - 1 + k
    BY <2>1
  <2>3. used[z] <= Limit - 1 + k
    BY DEF BudgetOK, Headroom, k
  <2>4. QED
    BY <1>2, <2>2, <2>3 DEF k
<1>4. QED
  BY <1>1, <1>2, <1>3 DEF BudgetOK, Headroom

--------------------------------------------------------------------------------
(* The breaker and the calls it lets through. *)

\* The calls the breaker counts.
Probing == {c \in Calls : call[c].current}

BreakerType ==
  [state : {"closed", "open", "half-open"}, requests : Nat, failures : Nat, successes : Nat]

BreakerOK ==
  /\ breaker \in BreakerType
  /\ breaker.state = "open" => Probing = {}
  /\ breaker.state = "half-open" =>
       /\ breaker.requests <= MaxProbes
       /\ breaker.requests = Cardinality(Probing) + breaker.successes

\* The breaker after a change of state.
LEMMA FreshType ==
  ASSUME NEW state \in {"closed", "open", "half-open"}
  PROVE  /\ Fresh(state) \in BreakerType
         /\ Fresh(state).state = state
         /\ Fresh(state).requests = 0 /\ Fresh(state).successes = 0
  BY DEF Fresh, BreakerType

\* The calls it counts are finitely many.
LEMMA ProbingFinite == IsFiniteSet(Probing) /\ Cardinality(Probing) \in Nat
<1>1. Probing \subseteq Calls /\ IsFiniteSet(Calls)
  BY GatewayAssumption DEF Probing
<1>2. QED
  BY <1>1, FS_Subset, FS_CardinalityType

\* The books stay in order when the breaker neither lets a call in nor hears
\* from one it counts.
LEMMA SameBreaker ==
  ASSUME BreakerOK, UNCHANGED breaker, \A c \in Calls : call'[c].current <=> call[c].current
  PROVE  BreakerOK'
<1>1. Probing' = Probing
  BY DEF Probing
<1>2. QED
  BY <1>1 DEF BreakerOK

\* It lets a call in: one more request, one more call it counts.
LEMMA AdmitKeepsBreaker ==
  ASSUME BreakerOK, NEW c \in Calls, LetsThrough(breaker), ~call[c].current, call'[c].current,
         breaker' = [breaker EXCEPT !.requests = @ + 1],
         \A d \in Calls : d # c => (call'[d].current <=> call[d].current)
  PROVE  BreakerOK'
<1>1. Probing' = Probing \cup {c} /\ c \notin Probing
  BY DEF Probing
<1>2. Cardinality(Probing') = Cardinality(Probing) + 1 /\ Cardinality(Probing) \in Nat
  BY <1>1, ProbingFinite, FS_AddElement
<1> DEFINE n == breaker.requests + 1
<1>3. breaker.requests \in Nat /\ breaker.successes \in Nat /\ n \in Nat
      /\ breaker.state \in {"closed", "open", "half-open"} /\ breaker \in BreakerType
  BY DEF BreakerOK, BreakerType
<1>4. breaker.state # "open" /\ (breaker.state = "half-open" => breaker.requests < MaxProbes)
  BY DEF LetsThrough
<1>5. n = breaker.requests + 1
  OBVIOUS
<1> HIDE DEF n
<1>6. breaker' = [breaker EXCEPT !.requests = n]
  BY <1>5
<1>7. /\ breaker' \in BreakerType /\ breaker'.state = breaker.state
      /\ breaker'.requests = n /\ breaker'.successes = breaker.successes
  BY <1>3, <1>6 DEF BreakerType
<1>8. breaker.state = "half-open" =>
        n <= MaxProbes /\ n = (Cardinality(Probing) + 1) + breaker.successes
  <2>1. SUFFICES ASSUME breaker.state = "half-open"
                 PROVE  n <= MaxProbes /\ n = (Cardinality(Probing) + 1) + breaker.successes
    OBVIOUS
  <2>2. breaker.requests = Cardinality(Probing) + breaker.successes
    BY <2>1 DEF BreakerOK
  <2>3. MaxProbes \in Nat
    BY GatewayAssumption
  <2>4. QED
    BY <1>2, <1>3, <1>4, <1>5, <2>1, <2>2, <2>3
<1>9. QED
  BY <1>2, <1>4, <1>7, <1>8 DEF BreakerOK

\* What the breaker makes of the end of a call it counts: it changes its state,
\* or it is one call lighter and, half open, one success richer.
LEMMA VerdictOnCall ==
  ASSUME BreakerOK, NEW b, b \in {Succeeded(breaker), Failed(breaker)},
         Probing # {}
  PROVE  /\ b \in BreakerType
         /\ b.state # breaker.state => b.successes = 0 /\ b.requests = 0 /\ b.state # "half-open"
         /\ b.state = breaker.state /\ b.state = "half-open" =>
              b.requests = breaker.requests /\ b.successes = breaker.successes + 1
<1>1. breaker \in BreakerType /\ breaker.state # "open"
  BY DEF BreakerOK
<1>2. /\ breaker.state \in {"closed", "half-open"}
      /\ breaker.failures \in Nat /\ breaker.successes \in Nat
  BY <1>1 DEF BreakerType
<1> DEFINE f == breaker.failures + 1
           g == breaker.successes + 1
           F == [breaker EXCEPT !.failures = f]
           G == [breaker EXCEPT !.successes = g]
<1>3. f \in Nat /\ g \in Nat
  BY <1>2
<1>4. g = breaker.successes + 1
  OBVIOUS
<1>5. Failed(breaker) \in {F, Fresh("open")}
      /\ (breaker.state = "half-open" => Failed(breaker) = Fresh("open"))
  BY DEF Failed
<1>6. IF breaker.state = "half-open" THEN Succeeded(breaker) \in {G, Fresh("closed")}
                                     ELSE Succeeded(breaker) = breaker
  BY DEF Succeeded
<1> HIDE DEF f, g
<1>7. F \in BreakerType /\ F.state = breaker.state
  BY <1>1, <1>3 DEF BreakerType
<1>8. /\ G \in BreakerType /\ G.state = breaker.state /\ G.requests = breaker.requests
      /\ G.successes = g
  BY <1>1, <1>3 DEF BreakerType
<1> HIDE DEF F, G
<1>9. CASE b = Failed(breaker)
  BY <1>1, <1>2, <1>5, <1>7, <1>9, FreshType
<1>10. CASE b = Succeeded(breaker)
  BY <1>1, <1>2, <1>4, <1>6, <1>8, <1>10, FreshType
<1>11. QED
  BY <1>9, <1>10

\* It hears from a call, counted or not; a change of state makes all stale.
LEMMA ReportKeepsBreaker ==
  ASSUME BreakerOK, NEW c \in Calls, NEW b \in {Succeeded(breaker), Failed(breaker)},
         breaker' = IF call[c].current THEN b ELSE breaker,
         ~call'[c].current,
         \A d \in Calls : d # c =>
           (call'[d].current <=> call[d].current /\ breaker'.state = breaker.state)
  PROVE  BreakerOK'
<1>1. CASE ~call[c].current
  <2>1. breaker' = breaker /\ \A d \in Calls : call'[d].current <=> call[d].current
    BY <1>1
  <2>2. QED
    BY <2>1, SameBreaker
<1>2. CASE call[c].current
  <2>1. breaker' = b /\ c \in Probing
    BY <1>2 DEF Probing
  <2>2. /\ b \in BreakerType
        /\ b.state # breaker.state => b.successes = 0 /\ b.requests = 0 /\ b.state # "half-open"
        /\ b.state = breaker.state /\ b.state = "half-open" =>
             b.requests = breaker.requests /\ b.successes = breaker.successes + 1
    BY <2>1, VerdictOnCall
  <2>3. CASE b.state # breaker.state
    <3>1. Probing' = {}
      BY <2>1, <2>3 DEF Probing
    <3>2. QED
      BY <2>1, <2>2, <2>3, <3>1 DEF BreakerOK
  <2>4. CASE b.state = breaker.state
    <3>1. Probing' = Probing \ {c}
      BY <2>1, <2>4 DEF Probing
    <3>2. Cardinality(Probing') = Cardinality(Probing) - 1 /\ Cardinality(Probing) \in Nat
      BY <2>1, <3>1, ProbingFinite, FS_RemoveElement
    <3>3. breaker.state # "open"
      BY <2>1 DEF BreakerOK
    <3>4. breaker.state = "half-open" =>
            /\ b.requests <= MaxProbes
            /\ b.requests = (Cardinality(Probing) - 1) + b.successes
      <4> DEFINE n == Cardinality(Probing)
      <4>1. breaker.state = "half-open" =>
              breaker.requests <= MaxProbes /\ breaker.requests = n + breaker.successes
        BY DEF BreakerOK
      <4>2. n \in Nat /\ breaker.successes \in Nat
        BY <3>2 DEF BreakerOK, BreakerType
      <4> HIDE DEF n
      <4>3. breaker.state = "half-open" =>
              b.requests <= MaxProbes /\ b.requests = (n - 1) + b.successes
        BY <2>2, <2>4, <4>1, <4>2
      <4>4. QED
        BY <4>3 DEF n
    <3>5. QED
      BY <2>1, <2>2, <2>4, <3>2, <3>3, <3>4 DEF BreakerOK
  <2>5. QED
    BY <2>3, <2>4
<1>3. QED
  BY <1>1, <1>2

\* An open breaker counts no call, so it may begin to probe with clean books.
LEMMA CooldownKeepsBreaker == ASSUME BreakerOK, BreakerCooldown PROVE BreakerOK'
<1>1. breaker.state = "open" /\ breaker' = Fresh("half-open") /\ call' = call
  BY DEF BreakerCooldown
<1>2. Probing' = {}
  BY <1>1 DEF BreakerOK, Probing
<1>3. Cardinality(Probing') = 0 /\ MaxProbes \in Nat
  BY <1>2, FS_EmptySet, GatewayAssumption
<1>4. QED
  BY <1>1, <1>2, <1>3, FreshType DEF BreakerOK

--------------------------------------------------------------------------------
(* The calls, the budget and the breaker, step by step. *)

CoreInv ==
  /\ CallsOK /\ BudgetOK /\ BreakerOK
  /\ upstream \in {"up", "down"} /\ cancels \in 0..MaxCancels

\* A call that moves without passing the check, being charged, or being let in.
LEMMA QuietMove ==
  ASSUME CoreInv, NEW c \in Calls, NEW r, Moves(c, r), CallOK(r),
         r.current <=> call[c].current,
         \A s \in Sessions : Past(c, s) <=>
           r.pc \in {"admit", "attempt", "charge"} /\ r.session = s,
         UNCHANGED <<used, breaker, upstream, cancels>>
  PROVE  CoreInv'
<1>1. /\ call' = [d \in Calls |-> call'[d]] /\ call'[c] = r
      /\ \A d \in Calls : d # c => call'[d] = call[d]
  BY Moved DEF CoreInv
<1>2. CallsOK'
  BY <1>1 DEF CoreInv, CallsOK
<1>3. ASSUME NEW s \in Sessions, NEW d \in Calls PROVE Past(d, s)' <=> Past(d, s)
  <2>1. CASE d = c
    BY <2>1, <1>1 DEF Past
  <2>2. CASE d # c
    BY <2>2, <1>1 DEF Past
  <2>3. QED
    BY <2>1, <2>2
<1>4. BudgetOK'
  BY <1>3, SameBudget DEF CoreInv
<1>5. \A d \in Calls : call'[d].current <=> call[d].current
  BY <1>1
<1>6. BreakerOK'
  BY <1>5, SameBreaker DEF CoreInv
<1>7. QED
  BY <1>2, <1>4, <1>6 DEF CoreInv

\* Steps that touch neither calls nor budget nor breaker.
LEMMA StillCore ==
  ASSUME CoreInv, UNCHANGED <<used, breaker, call>>, upstream' \in {"up", "down"},
         UNCHANGED cancels
  PROVE  CoreInv'
<1>1. CallsOK' /\ BudgetOK' /\ BreakerOK'
  BY DEF CoreInv, CallsOK, BudgetOK, BreakerOK, Headroom, Waiting, Past, Probing
<1>2. QED
  BY <1>1 DEF CoreInv

\* Complete: the call has looked, and gone on to move, to remove, or to the check.
LEMMA CompleteCore ==
  ASSUME CoreInv, NEW c \in Calls, NEW s \in Sessions, NEW p \in Prompts, Complete(c, s, p)
  PROVE  CoreInv'
<1>1. At(c, "outside") /\ UNCHANGED <<breaker, used, upstream, cancels>>
  BY DEF Complete
<1>2. PICK pc \in {"touch", "expire", "budget"} : Enter(c, pc, s, p)
  BY DEF Complete
<1> DEFINE r == Entered(pc, s, p)
<1>3. Moves(c, r)
  BY <1>2 DEF Enter, Moves
<1>4. CallOK(r) /\ r.pc = pc /\ ~r.current
  BY <1>2, EnteredOK
<1>5. ~call[c].current /\ call[c].pc = "outside"
  BY <1>1 DEF CoreInv, CallsOK, CallOK, At
<1>6. \A z \in Sessions : Past(c, z) <=>
        r.pc \in {"admit", "attempt", "charge"} /\ r.session = z
  BY <1>4, <1>5 DEF Past
<1>7. QED
  BY <1>1, <1>3, <1>4, <1>5, <1>6, QuietMove

\* MoveToFront: the call returns.
LEMMA MoveCore == ASSUME CoreInv, NEW c \in Calls, MoveToFront(c) PROVE CoreInv'
<1>1. At(c, "touch") /\ Moves(c, Outside) /\ UNCHANGED <<breaker, used, upstream, cancels>>
  BY DEF MoveToFront, Leave, Moves
<1>2. CallOK(Outside) /\ Outside.pc = "outside" /\ ~Outside.current
  BY OutsideOK DEF Outside
<1>3. ~call[c].current /\ call[c].pc = "touch"
  BY <1>1 DEF CoreInv, CallsOK, CallOK, At
<1>4. \A z \in Sessions : Past(c, z) <=>
        Outside.pc \in {"admit", "attempt", "charge"} /\ Outside.session = z
  BY <1>2, <1>3 DEF Past
<1>5. QED
  BY <1>1, <1>2, <1>3, <1>4, QuietMove

\* RemoveExpired: the call goes on to the check.
LEMMA ExpireCore == ASSUME CoreInv, NEW c \in Calls, RemoveExpired(c) PROVE CoreInv'
<1> DEFINE r == [call[c] EXCEPT !.pc = "budget"]
<1>1. At(c, "expire") /\ Moves(c, r) /\ UNCHANGED <<breaker, used, upstream, cancels>>
  BY DEF RemoveExpired, Goto, Moves
<1>2. CallOK(call[c]) /\ ~call[c].current /\ call[c].pc = "expire"
  BY <1>1 DEF CoreInv, CallsOK, CallOK, At
<1>3. CallOK(r) /\ r.pc = "budget" /\ ~r.current
  BY <1>2, SetPc
<1> HIDE DEF r
<1>4. \A z \in Sessions : Past(c, z) <=>
        r.pc \in {"admit", "attempt", "charge"} /\ r.session = z
  BY <1>2, <1>3 DEF Past
<1>5. QED
  BY <1>1, <1>2, <1>3, <1>4, QuietMove

\* Put: the call returns.
LEMMA PutCore == ASSUME CoreInv, NEW c \in Calls, Put(c) PROVE CoreInv'
<1>1. At(c, "put") /\ Moves(c, Outside) /\ UNCHANGED <<breaker, used, upstream, cancels>>
  BY DEF Put, Leave, Moves
<1>2. CallOK(Outside) /\ Outside.pc = "outside" /\ ~Outside.current
  BY OutsideOK DEF Outside
<1>3. ~call[c].current /\ call[c].pc = "put"
  BY <1>1 DEF CoreInv, CallsOK, CallOK, At
<1>4. \A z \in Sessions : Past(c, z) <=>
        Outside.pc \in {"admit", "attempt", "charge"} /\ Outside.session = z
  BY <1>2, <1>3 DEF Past
<1>5. QED
  BY <1>1, <1>2, <1>3, <1>4, QuietMove

\* CheckBudget: an exhausted session's call returns, another passes.
LEMMA CheckBudgetCore == ASSUME CoreInv, NEW c \in Calls, CheckBudget(c) PROVE CoreInv'
<1> DEFINE s == call[c].session
<1>1. At(c, "budget") /\ UNCHANGED <<breaker, used, upstream, cancels>>
  BY DEF CheckBudget, shared
<1>2. CallOK(call[c]) /\ ~call[c].current /\ call[c].pc = "budget" /\ s \in Sessions
  BY <1>1 DEF CoreInv, CallsOK, CallOK, At
<1>3. CASE Exhausted(s)
  <2>1. Moves(c, Outside)
    BY <1>3 DEF CheckBudget, Leave, Moves
  <2>2. CallOK(Outside) /\ Outside.pc = "outside" /\ ~Outside.current
    BY OutsideOK DEF Outside
  <2>3. \A z \in Sessions : Past(c, z) <=>
          Outside.pc \in {"admit", "attempt", "charge"} /\ Outside.session = z
    BY <1>2, <2>2 DEF Past
  <2>4. QED
    BY <1>1, <1>2, <2>1, <2>2, <2>3, QuietMove
<1>4. CASE ~Exhausted(s)
  <2> DEFINE r == [call[c] EXCEPT !.pc = "admit"]
  <2>1. Moves(c, r)
    BY <1>4 DEF CheckBudget, Goto, Moves
  <2>2. CallOK(r) /\ r.pc = "admit" /\ r.session = s /\ ~r.current
    BY <1>2, SetPc
  <2> HIDE DEF r
  <2>3. /\ call' = [d \in Calls |-> call'[d]] /\ call'[c] = r
        /\ \A d \in Calls : d # c => call'[d] = call[d]
    BY <2>1, Moved DEF CoreInv
  <2>4. CallsOK'
    BY <2>2, <2>3 DEF CoreInv, CallsOK
  <2>5. used[s] < Limit
    <3>1. used[s] \in Nat /\ Limit \in Nat /\ ~(used[s] >= Limit)
      BY <1>2, <1>4, GatewayAssumption DEF CoreInv, BudgetOK, Exhausted
    <3>2. QED
      BY <3>1
  <2>6. ASSUME NEW z \in Sessions, NEW d \in Calls, z # s PROVE Past(d, z)' <=> Past(d, z)
    <3>1. CASE d = c
      BY <3>1, <2>6, <2>2, <2>3 DEF Past
    <3>2. CASE d # c
      BY <3>2, <2>3 DEF Past
    <3>3. QED
      BY <3>1, <3>2
  <2>7. BudgetOK'
    BY <1>1, <1>2, <2>5, <2>6, CheckKeepsBudget DEF CoreInv
  <2>8. \A d \in Calls : call'[d].current <=> call[d].current
    BY <1>2, <2>2, <2>3
  <2>9. BreakerOK'
    BY <1>1, <2>8, SameBreaker DEF CoreInv
  <2>10. QED
    BY <1>1, <2>4, <2>7, <2>9 DEF CoreInv
<1>5. QED
  BY <1>3, <1>4

\* Admit: the call goes upstream or falls back.
LEMMA AdmitCore == ASSUME CoreInv, NEW c \in Calls, Admit(c) PROVE CoreInv'
<1>1. At(c, "admit") /\ UNCHANGED <<used, upstream, cancels>>
  BY DEF Admit
<1>2. CallOK(call[c]) /\ ~call[c].current /\ call[c].pc = "admit"
  BY <1>1 DEF CoreInv, CallsOK, CallOK, At
<1>3. CASE LetsThrough(breaker)
  <2> DEFINE r == [call[c] EXCEPT !.pc = "attempt", !.current = TRUE, !.tries = 1]
  <2>1. Moves(c, r) /\ breaker' = [breaker EXCEPT !.requests = @ + 1]
    BY <1>3 DEF Admit, Moves
  <2>2. CallOK(r) /\ r.pc = "attempt" /\ r.session = call[c].session /\ r.current
    BY <1>2, AdmittedOK
  <2> HIDE DEF r
  <2>3. /\ call' = [d \in Calls |-> call'[d]] /\ call'[c] = r
        /\ \A d \in Calls : d # c => call'[d] = call[d]
    BY <2>1, Moved DEF CoreInv
  <2>4. CallsOK'
    BY <2>2, <2>3 DEF CoreInv, CallsOK
  <2>5. ASSUME NEW z \in Sessions, NEW d \in Calls PROVE Past(d, z)' <=> Past(d, z)
    <3>1. CASE d = c
      BY <3>1, <1>2, <2>2, <2>3 DEF Past
    <3>2. CASE d # c
      BY <3>2, <2>3 DEF Past
    <3>3. QED
      BY <3>1, <3>2
  <2>6. BudgetOK'
    BY <1>1, <2>5, SameBudget DEF CoreInv
  <2>7. call'[c].current /\ \A d \in Calls : d # c => (call'[d].current <=> call[d].current)
    BY <2>2, <2>3
  <2>8. BreakerOK'
    BY <1>2, <1>3, <2>1, <2>7, AdmitKeepsBreaker DEF CoreInv
  <2>9. QED
    BY <1>1, <2>4, <2>6, <2>8 DEF CoreInv
<1>4. CASE ~LetsThrough(breaker)
  <2> DEFINE r == [call[c] EXCEPT !.pc = "charge", !.kind = "fallback"]
  <2>1. Moves(c, r) /\ UNCHANGED breaker
    BY <1>4 DEF Admit, Moves
  <2>2. CallOK(r) /\ r.pc = "charge" /\ r.session = call[c].session /\ ~r.current
    BY <1>2, FallbackOK
  <2> HIDE DEF r
  <2>3. \A z \in Sessions : Past(c, z) <=>
          r.pc \in {"admit", "attempt", "charge"} /\ r.session = z
    BY <1>2, <2>2 DEF Past
  <2>4. QED
    BY <1>1, <1>2, <2>1, <2>2, <2>3, QuietMove
<1>5. QED
  BY <1>3, <1>4

\* Retry: the call stays what it is.
LEMMA RetryCore == ASSUME CoreInv, NEW c \in Calls, Retry(c) PROVE CoreInv'
<1>1. At(c, "attempt") /\ call[c].tries <= MaxRetries
      /\ UNCHANGED <<breaker, used, upstream, cancels>>
  BY DEF Retry, shared
<1>2. CallOK(call[c]) /\ call[c].pc = "attempt"
  BY <1>1 DEF CoreInv, CallsOK, At
<1> DEFINE r == [call[c] EXCEPT !.tries = @ + 1]
<1>3. Moves(c, r)
  BY DEF Retry, Moves
<1>4. CallOK(r) /\ r.pc = "attempt" /\ r.session = call[c].session
      /\ r.current = call[c].current
  BY <1>1, <1>2, RetriedOK
<1> HIDE DEF r
<1>5. \A z \in Sessions : Past(c, z) <=>
        r.pc \in {"admit", "attempt", "charge"} /\ r.session = z
  BY <1>2, <1>4 DEF Past
<1>6. QED
  BY <1>1, <1>3, <1>4, <1>5, QuietMove

\* The end of an operation: the call goes on to be charged.
LEMMA ReportCore ==
  ASSUME CoreInv, NEW c \in Calls, At(c, "attempt"),
         NEW b \in {Succeeded(breaker), Failed(breaker)},
         NEW kind \in {"answer", "error"}, NEW usage \in 0..MaxUsage,
         Report(c, b, kind, usage), UNCHANGED <<used, upstream>>, cancels' \in 0..MaxCancels
  PROVE  CoreInv'
<1> DEFINE r == [call[c] EXCEPT !.pc = "charge", !.current = FALSE, !.kind = kind,
                                !.usage = usage]
<1>2. CallOK(call[c]) /\ call[c].pc = "attempt" /\ \A d \in Calls : CallOK(call[d])
  BY DEF CoreInv, CallsOK, At
<1>3. CallOK(r) /\ r.pc = "charge" /\ r.session = call[c].session /\ ~r.current
  <2>1. call[c] \in CallType /\ call[c].session \in Sessions /\ call[c].prompt \in Prompts
    BY <1>2 DEF CallOK
  <2>2. /\ r \in CallType /\ r.pc = "charge" /\ r.session = call[c].session
        /\ r.current = FALSE /\ r.prompt = call[c].prompt /\ r.kind = kind
    BY <2>1 DEF CallType
  <2> HIDE DEF r
  <2>3. CallOK(r)
    BY <2>1, <2>2 DEF CallOK
  <2>4. QED
    BY <2>2, <2>3
<1> DEFINE same == ~((IF call[c].current THEN b ELSE breaker).state # breaker.state)
           q(d) == [call[d] EXCEPT !.current = @ /\ same]
<1>1. /\ breaker' = IF call[c].current THEN b ELSE breaker
      /\ call' = [d \in Calls |-> IF d = c THEN r ELSE q(d)]
  BY DEF Report
<1>s. same <=> breaker'.state = breaker.state
  BY <1>1
<1>4. ASSUME NEW d \in Calls
      PROVE  CallOK(q(d)) /\ q(d).pc = call[d].pc /\ q(d).session = call[d].session
             /\ (q(d).current <=> call[d].current /\ same)
  <2>1. same \in BOOLEAN
    OBVIOUS
  <2> HIDE DEF same
  <2>2. QED
    BY <1>2, <2>1, StaleOK
<1> HIDE DEF r, q, same
<1>5. call' = [d \in Calls |-> call'[d]] /\ call'[c] = r
      /\ \A d \in Calls : d # c => call'[d] = q(d)
  BY <1>1
<1>6. CallsOK'
  BY <1>3, <1>4, <1>5 DEF CallsOK
<1>7. ASSUME NEW z \in Sessions, NEW d \in Calls PROVE Past(d, z)' <=> Past(d, z)
  <2>1. CASE d = c
    BY <2>1, <1>2, <1>3, <1>5 DEF Past
  <2>2. CASE d # c
    BY <2>2, <1>4, <1>5 DEF Past
  <2>3. QED
    BY <2>1, <2>2
<1>8. BudgetOK'
  BY <1>7, SameBudget DEF CoreInv
<1>9. BreakerOK'
  <2>1. ~call'[c].current
    BY <1>3, <1>5
  <2>2. \A d \in Calls : d # c =>
          (call'[d].current <=> call[d].current /\ breaker'.state = breaker.state)
    BY <1>4, <1>5, <1>s
  <2>3. QED
    BY <1>1, <2>1, <2>2, ReportKeepsBreaker DEF CoreInv
<1>10. QED
  BY <1>6, <1>8, <1>9 DEF CoreInv

\* Answered and GiveUp are such ends.
LEMMA EndCore ==
  ASSUME CoreInv, NEW c \in Calls, Answered(c) \/ GiveUp(c)
  PROVE  CoreInv'
<1>1. CASE Answered(c)
  <2>1. PICK usage \in 1..MaxUsage : Report(c, Succeeded(breaker), "answer", usage)
    BY <1>1 DEF Answered
  <2>2. usage \in 0..MaxUsage /\ MaxUsage \in Nat
    BY GatewayAssumption
  <2>3. At(c, "attempt") /\ UNCHANGED <<used, upstream, cancels>>
    BY <1>1 DEF Answered
  <2>4. cancels' \in 0..MaxCancels
    BY <2>3 DEF CoreInv
  <2>5. QED
    BY <2>1, <2>2, <2>3, <2>4, ReportCore
<1>2. CASE GiveUp(c)
  <2>1. At(c, "attempt") /\ Report(c, Failed(breaker), "error", 0) /\ UNCHANGED <<used, upstream>>
    BY <1>2 DEF GiveUp
  <2>2. cancels' \in 0..MaxCancels
    BY <1>2, GatewayAssumption DEF GiveUp, CoreInv
  <2>3. 0 \in 0..MaxUsage
    BY GatewayAssumption
  <2>4. QED
    BY <2>1, <2>2, <2>3, ReportCore
<1>3. QED
  BY <1>1, <1>2

\* AddUsage: the call is charged.
LEMMA AddUsageCore == ASSUME CoreInv, NEW c \in Calls, AddUsage(c) PROVE CoreInv'
<1>s. PICK s : s = call[c].session
  OBVIOUS
<1>u. PICK usage : usage = call[c].usage
  OBVIOUS
<1> DEFINE r == [call[c] EXCEPT !.pc = "put"]
<1>1. At(c, "charge") /\ used' = Charged(s, usage) /\ Moves(c, r)
      /\ UNCHANGED <<breaker, upstream, cancels>>
  BY <1>s, <1>u DEF AddUsage, Goto, Moves
<1>2. /\ CallOK(call[c]) /\ ~call[c].current /\ call[c].pc = "charge" /\ s \in Sessions
      /\ usage \in 0..MaxUsage
  BY <1>1, <1>s, <1>u, CallTypes DEF CoreInv, CallsOK, CallOK, At
<1>3. CallOK(r) /\ r.pc = "put" /\ r.session = s /\ ~r.current
  BY <1>2, <1>s, SetPc
<1> HIDE DEF r
<1>4. /\ call' = [d \in Calls |-> call'[d]] /\ call'[c] = r
      /\ \A d \in Calls : d # c => call'[d] = call[d]
  BY <1>1, Moved DEF CoreInv
<1>5. CallsOK'
  BY <1>3, <1>4 DEF CoreInv, CallsOK
<1>6. Past(c, s) /\ ~Past(c, s)'
  BY <1>2, <1>3, <1>4, <1>s DEF Past
<1>7. ASSUME NEW z \in Sessions, NEW d \in Calls, z # s \/ d # c PROVE Past(d, z)' <=> Past(d, z)
  <2>1. CASE d = c
    BY <2>1, <1>2, <1>3, <1>4, <1>7, <1>s DEF Past
  <2>2. CASE d # c
    BY <2>2, <1>4 DEF Past
  <2>3. QED
    BY <2>1, <2>2
<1>8. BudgetOK'
  <2>1. BudgetOK
    BY DEF CoreInv
  <2>2. QED
    BY <1>1, <1>2, <1>6, <1>7, <2>1, ChargeKeepsBudget
<1>9. \A d \in Calls : call'[d].current <=> call[d].current
  BY <1>2, <1>3, <1>4
<1>10. BreakerOK'
  BY <1>1, <1>9, SameBreaker DEF CoreInv
<1>11. QED
  BY <1>1, <1>5, <1>8, <1>10 DEF CoreInv

\* Release: the budget is reset.
LEMMA ReleaseCore == ASSUME CoreInv, NEW s \in Sessions, Release(s) PROVE CoreInv'
<1>1. ResetBudget(s) /\ UNCHANGED <<breaker, call, upstream, cancels>>
  BY DEF Release
<1>2. BudgetOK'
  BY <1>1, ReleaseKeepsBudget DEF CoreInv
<1>3. CallsOK' /\ BreakerOK'
  BY <1>1 DEF CoreInv, CallsOK, BreakerOK, Probing
<1>4. QED
  BY <1>1, <1>2, <1>3 DEF CoreInv

\* Every step keeps calls, budget and breaker in order.
LEMMA NextCore == CoreInv /\ [Next]_vars => CoreInv'
<1> SUFFICES ASSUME CoreInv, [Next]_vars PROVE CoreInv'
  OBVIOUS
<1>1. ASSUME NEW c \in Calls, NEW s \in Sessions, NEW p \in Prompts, Complete(c, s, p)
      PROVE  CoreInv'
  BY <1>1, CompleteCore
<1>2. ASSUME NEW c \in Calls, Step(c) PROVE CoreInv'
  BY <1>2, MoveCore, ExpireCore, CheckBudgetCore, AdmitCore, EndCore, RetryCore, AddUsageCore, PutCore DEF Step
<1>3. ASSUME NEW s \in Sessions, Release(s) PROVE CoreInv'
  BY <1>3, ReleaseCore
<1>4. CASE BreakerCooldown
  <2>1. BreakerOK' /\ UNCHANGED <<used, call, upstream, cancels>>
    BY <1>4, CooldownKeepsBreaker DEF CoreInv, BreakerCooldown
  <2>2. CallsOK' /\ BudgetOK'
    BY <2>1 DEF CoreInv, CallsOK, BudgetOK, Headroom, Waiting, Past
  <2>3. QED
    BY <2>1, <2>2 DEF CoreInv
<1>5. CASE UpstreamChanges
  BY <1>5, StillCore DEF UpstreamChanges, shared
<1>6. CASE UNCHANGED vars
  <2>1. UNCHANGED <<used, breaker, call, upstream, cancels>>
    BY <1>6 DEF vars, shared
  <2>2. QED
    BY <2>1, StillCore DEF CoreInv
<1>7. QED
  BY <1>1, <1>2, <1>3, <1>4, <1>5, <1>6 DEF Next

\* They are in order at the start.
LEMMA InitCore == Init => CoreInv
<1> SUFFICES ASSUME Init PROVE CoreInv
  OBVIOUS
<1>1. /\ breaker = Fresh("closed") /\ used = [s \in Sessions |-> 0]
      /\ call = [c \in Calls |-> Outside] /\ upstream = "up" /\ cancels = 0
  BY DEF Init
<1>2. CallsOK
  BY <1>1, OutsideOK DEF CallsOK
<1>3. used \in [Sessions -> Nat]
  BY <1>1
<1>4. ASSUME NEW s \in Sessions PROVE used[s] <= Limit - 1 + Cardinality(Waiting(s)) * MaxUsage
  <2> DEFINE k == Cardinality(Waiting(s)) * MaxUsage
  <2>1. k \in Nat /\ Limit \in Nat \ {0}
    BY WaitingFinite, GatewayAssumption, Product
  <2> HIDE DEF k
  <2>2. 0 <= Limit - 1 + k
    BY <2>1
  <2>3. QED
    BY <1>1, <2>2 DEF k
<1>5. BudgetOK
  BY <1>3, <1>4 DEF BudgetOK, Headroom
<1>6. BreakerOK
  BY <1>1, FreshType DEF BreakerOK
<1>7. QED
  BY <1>1, <1>2, <1>5, <1>6, GatewayAssumption DEF CoreInv

--------------------------------------------------------------------------------
(* The response cache: the list and the map. *)

Entries == [session : Sessions, kind : {"answer", "fallback"}]

CacheInv ==
  /\ entry \in [Prompts -> Entries \union {NoEntry}]
  /\ lru \in Seq(Prompts) /\ Len(lru) <= CacheSize
  /\ CacheConsistent

\* The element a call holds is its prompt's, and it is in the list.
HeldInv ==
  /\ found \subseteq Calls
  /\ \A d \in found : call[d].pc = "touch" /\ entry[call[d].prompt] # NoEntry

\* An entry is never mistaken for none.
LEMMA EntryIsEntry == NoEntry \notin Entries
  BY DEF NoEntry, Entries

\* What is known of a list from which prompts were dropped.
LEMMA KeptLru ==
  ASSUME CacheInv, NEW K
  PROVE  /\ Kept(lru, K) \in Seq(Prompts)
         /\ Len(Kept(lru, K)) \in Nat /\ Len(lru) \in Nat /\ Len(Kept(lru, K)) <= Len(lru)
         /\ \A p : Occurs(Kept(lru, K), p) <=> p \in K /\ Occurs(lru, p)
         /\ NoRepeats(Kept(lru, K))
         /\ (\E p : Occurs(lru, p) /\ p \notin K) => Len(Kept(lru, K)) < Len(lru)
<1>1. lru \in Seq(Prompts) /\ NoRepeats(lru)
  BY DEF CacheInv, CacheConsistent
<1>2. Kept(lru, K) \in Seq(Prompts) /\ Len(Kept(lru, K)) <= Len(lru)
  BY <1>1, KeptType
<1>3. \A p : Occurs(Kept(lru, K), p) <=> p \in K /\ Occurs(lru, p)
  BY <1>1, KeptElements
<1>4. NoRepeats(Kept(lru, K))
  BY <1>1, KeptNoRepeats
<1>5. (\E p : Occurs(lru, p) /\ p \notin K) => Len(Kept(lru, K)) < Len(lru)
  BY <1>1, KeptShorter
<1>6. QED
  BY <1>1, <1>2, <1>3, <1>4, <1>5, LenProperties

\* A prompt is put in front of a list that does not hold it.
LEMMA InFront ==
  ASSUME NEW S, NEW s \in Seq(S), NEW e \in S
  PROVE  /\ <<e>> \o s \in Seq(S)
         /\ Len(<<e>> \o s) = Len(s) + 1
         /\ \A x : Occurs(<<e>> \o s, x) <=> x = e \/ Occurs(s, x)
         /\ NoRepeats(s) /\ ~Occurs(s, e) => NoRepeats(<<e>> \o s)
<1> DEFINE o == <<e>>
           t == o \o s
           n == Len(s)
<1>1. o \in Seq(S) /\ Len(o) = 1 /\ o[1] = e /\ n \in Nat
  BY LenProperties
<1> HIDE DEF o
<1>2. /\ t \in Seq(S) /\ Len(t) = Len(o) + n
      /\ \A i \in 1..(Len(o) + n) : t[i] = IF i <= Len(o) THEN o[i] ELSE s[i - Len(o)]
  BY <1>1, ConcatProperties
<1> HIDE DEF t, n
<1>3. Len(t) = n + 1
  BY <1>1, <1>2
<1>4. t[1] = e
  BY <1>1, <1>2
<1>5. \A i \in 1..n : t[i + 1] = s[i]
  <2> TAKE i \in 1..n
  <2>1. i + 1 \in 1..(1 + n) /\ ~(i + 1 <= 1) /\ (i + 1) - 1 = i
    BY <1>1
  <2> DEFINE j == i + 1
  <2>2. t[j] = IF j <= 1 THEN o[j] ELSE s[j - 1]
    BY <1>1, <1>2, <2>1
  <2>3. QED
    BY <2>1, <2>2
<1>6. \A i \in 1..(n + 1) : i = 1 \/ \E j \in 1..n : i = j + 1
  <2> TAKE i \in 1..(n + 1)
  <2>1. i = 1 \/ (i - 1 \in 1..n /\ i = (i - 1) + 1)
    BY <1>1
  <2>2. QED
    BY <2>1
<1>7. ASSUME NEW x, Occurs(t, x) PROVE x = e \/ Occurs(s, x)
  <2>1. PICK i \in 1..(n + 1) : t[i] = x
    BY <1>3, <1>7 DEF Occurs
  <2>2. QED
    BY <1>4, <1>5, <1>6, <2>1 DEF Occurs, n
<1>8. ASSUME NEW x, Occurs(s, x) PROVE Occurs(t, x)
  <2>1. PICK i \in 1..n : s[i] = x
    BY <1>8 DEF Occurs, n
  <2>2. t[i + 1] = x /\ i + 1 \in 1..(n + 1)
    BY <1>1, <1>5, <2>1
  <2>3. QED
    BY <1>3, <2>2 DEF Occurs
<1>9. Occurs(t, e)
  <2>1. 1 \in 1..(n + 1)
    BY <1>1
  <2>2. QED
    BY <1>3, <1>4, <2>1 DEF Occurs
<1>10. ASSUME NoRepeats(s), ~Occurs(s, e) PROVE NoRepeats(t)
  <2> SUFFICES ASSUME NEW i \in 1..(n + 1), NEW j \in 1..(n + 1), t[i] = t[j] PROVE i = j
    BY <1>3 DEF NoRepeats
  <2>1. \A k \in 1..n : t[k + 1] # e
    BY <1>5, <1>10 DEF Occurs, n
  <2>2. CASE i = 1 \/ j = 1
    BY <2>1, <2>2, <1>4, <1>6
  <2>3. CASE i # 1 /\ j # 1
    <3>1. PICK k \in 1..n, l \in 1..n : i = k + 1 /\ j = l + 1
      BY <2>3, <1>6
    <3>2. s[k] = s[l]
      BY <3>1, <1>5
    <3>3. k = l
      BY <3>2, <1>10 DEF NoRepeats, n
    <3>4. QED
      BY <3>1, <3>3
  <2>4. QED
    BY <2>2, <2>3
<1>11. QED
  BY <1>2, <1>3, <1>7, <1>8, <1>9, <1>10 DEF t, o, n

\* The list without one prompt.
LEMMA WithoutLru ==
  ASSUME CacheInv, NEW p \in Prompts
  PROVE  /\ Without(p) \in Seq(Prompts) /\ Len(Without(p)) \in Nat /\ Len(lru) \in Nat
         /\ Len(Without(p)) <= Len(lru)
         /\ \A q : Occurs(Without(p), q) <=> q \in Prompts \ {p} /\ Occurs(lru, q)
         /\ NoRepeats(Without(p))
         /\ Occurs(lru, p) => Len(Without(p)) < Len(lru)
<1>1. p \notin Prompts \ {p}
  OBVIOUS
<1>2. QED
  BY <1>1, KeptLru DEF Without

\* A hit moves the prompt whose element it holds to the front.
LEMMA MoveCache ==
  ASSUME CallsOK, CacheInv, HeldInv, NEW c \in Calls, MoveToFront(c)
  PROVE  CacheInv'
<1>1. PICK p \in Prompts : p = call[c].prompt
  BY DEF MoveToFront, At, CallsOK, CallOK
<1> DEFINE k == Without(p)
<1>2. /\ k \in Seq(Prompts) /\ Len(k) \in Nat /\ Len(lru) \in Nat
      /\ \A q : Occurs(k, q) <=> q \in Prompts \ {p} /\ Occurs(lru, q)
      /\ NoRepeats(k)
      /\ Occurs(lru, p) => Len(k) < Len(lru)
  BY WithoutLru
<1>3. /\ entry \in [Prompts -> Entries \union {NoEntry}] /\ CacheSize \in Nat
      /\ Len(lru) <= CacheSize
      /\ \A q \in Prompts : entry[q] # NoEntry <=> Occurs(lru, q)
  BY GatewayAssumption DEF CacheInv, CacheConsistent
<1>4. CASE c \in found
  <2>1. entry[p] # NoEntry
    BY <1>1, <1>4 DEF HeldInv
  <2>2. Occurs(lru, p) /\ Len(k) < Len(lru)
    BY <1>2, <1>3, <2>1
  <2>3. lru' = <<p>> \o k /\ UNCHANGED entry
    BY <1>1, <1>4 DEF MoveToFront
  <2> HIDE DEF k
  <2>4. /\ lru' \in Seq(Prompts) /\ Len(lru') = Len(k) + 1 /\ NoRepeats(lru')
        /\ \A q : Occurs(lru', q) <=> q = p \/ Occurs(k, q)
    BY <1>2, <2>3, InFront
  <2>5. Len(lru') <= CacheSize
    BY <1>2, <1>3, <2>2, <2>4
  <2>6. \A q \in Prompts : entry'[q] # NoEntry <=> Occurs(lru', q)
    BY <1>2, <1>3, <2>2, <2>3, <2>4
  <2>7. QED
    BY <1>3, <2>3, <2>4, <2>5, <2>6 DEF CacheInv, CacheConsistent
<1>5. CASE c \notin found
  BY <1>5 DEF MoveToFront, CacheInv, CacheConsistent
<1>6. QED
  BY <1>4, <1>5

\* A call that found an expired entry removes the prompt from both.
LEMMA ExpireCache ==
  ASSUME CallsOK, CacheInv, NEW c \in Calls, RemoveExpired(c)
  PROVE  CacheInv'
<1>1. PICK p \in Prompts : p = call[c].prompt
  BY DEF RemoveExpired, At, CallsOK, CallOK
<1> DEFINE k == Without(p)
<1>2. /\ k \in Seq(Prompts) /\ Len(k) \in Nat /\ Len(lru) \in Nat /\ Len(k) <= Len(lru)
      /\ \A q : Occurs(k, q) <=> q \in Prompts \ {p} /\ Occurs(lru, q)
      /\ NoRepeats(k)
  BY WithoutLru
<1>3. /\ entry \in [Prompts -> Entries \union {NoEntry}] /\ CacheSize \in Nat
      /\ Len(lru) <= CacheSize
      /\ \A q \in Prompts : entry[q] # NoEntry <=> Occurs(lru, q)
  BY GatewayAssumption DEF CacheInv, CacheConsistent
<1>4. entry' = [entry EXCEPT ![p] = NoEntry] /\ lru' = k
  BY <1>1 DEF RemoveExpired
<1> HIDE DEF k
<1>5. /\ entry' \in [Prompts -> Entries \union {NoEntry}] /\ entry'[p] = NoEntry
      /\ \A q \in Prompts : q # p => entry'[q] = entry[q]
  BY <1>3, <1>4
<1>6. \A q \in Prompts : entry'[q] # NoEntry <=> Occurs(lru', q)
  BY <1>2, <1>3, <1>4, <1>5
<1>7. Len(lru') <= CacheSize
  BY <1>2, <1>3, <1>4
<1>8. QED
  BY <1>2, <1>4, <1>5, <1>6, <1>7 DEF CacheInv, CacheConsistent

\* An entry is stored in a place that is free or made free.
LEMMA StoreCache ==
  ASSUME CacheInv, NEW p \in Prompts, NEW e \in Entries, Store(p, e)
  PROVE  CacheInv'
<1> DEFINE gone == {p} \union EvictedBy(p)
           k == Kept(lru, Prompts \ gone)
<1>1. /\ k \in Seq(Prompts) /\ Len(k) \in Nat /\ Len(lru) \in Nat /\ Len(k) <= Len(lru)
      /\ \A q : Occurs(k, q) <=> q \in Prompts \ gone /\ Occurs(lru, q)
      /\ NoRepeats(k)
      /\ (\E q : Occurs(lru, q) /\ q \notin Prompts \ gone) => Len(k) < Len(lru)
  BY KeptLru
<1>2. /\ entry \in [Prompts -> Entries \union {NoEntry}] /\ CacheSize \in Nat \ {0}
      /\ Len(lru) <= CacheSize /\ lru \in Seq(Prompts)
      /\ \A q \in Prompts : entry[q] # NoEntry <=> Occurs(lru, q)
  BY GatewayAssumption DEF CacheInv, CacheConsistent
<1>3. /\ entry' = [q \in Prompts |-> IF q = p THEN e
                                    ELSE IF q \in EvictedBy(p) THEN NoEntry ELSE entry[q]]
      /\ lru' = <<p>> \o k
  BY DEF Store
<1>4. p \in gone /\ \A q : q \in gone <=> q = p \/ q \in EvictedBy(p)
  OBVIOUS
<1> HIDE DEF k, gone
<1>5. /\ lru' \in Seq(Prompts) /\ Len(lru') = Len(k) + 1 /\ NoRepeats(lru')
      /\ \A q : Occurs(lru', q) <=> q = p \/ Occurs(k, q)
  BY <1>1, <1>3, <1>4, InFront
<1>6. Len(lru') <= CacheSize
  <2>1. CASE entry[p] # NoEntry
    <3>1. Occurs(lru, p) /\ p \notin Prompts \ gone
      BY <1>2, <1>4, <2>1
    <3>2. QED
      BY <1>1, <1>2, <1>5, <3>1
  <2>2. CASE Len(lru) < CacheSize
    BY <1>1, <1>2, <1>5, <2>2
  <2>3. CASE entry[p] = NoEntry /\ ~(Len(lru) < CacheSize)
    <3>1. lru[Len(lru)] \in EvictedBy(p)
      BY <1>1, <1>2, <2>3 DEF EvictedBy
    <3>2. Len(lru) \in 1..Len(lru)
      BY <1>1, <1>2, <2>3
    <3>3. Occurs(lru, lru[Len(lru)])
      BY <3>2 DEF Occurs
    <3>4. Len(k) < Len(lru)
      BY <1>1, <1>4, <3>1, <3>3
    <3>5. QED
      BY <1>1, <1>2, <1>5, <3>4
  <2>4. QED
    BY <2>1, <2>2, <2>3
<1>7. entry' \in [Prompts -> Entries \union {NoEntry}]
  BY <1>2, <1>3
<1>8. ASSUME NEW q \in Prompts PROVE entry'[q] # NoEntry <=> Occurs(lru', q)
  <2>1. CASE q = p
    BY <1>3, <1>5, <2>1, EntryIsEntry
  <2>2. CASE q # p /\ q \in EvictedBy(p)
    BY <1>1, <1>3, <1>4, <1>5, <2>2
  <2>3. CASE q # p /\ q \notin EvictedBy(p)
    BY <1>1, <1>2, <1>3, <1>4, <1>5, <2>3
  <2>4. QED
    BY <2>1, <2>2, <2>3
<1>9. QED
  BY <1>5, <1>6, <1>7, <1>8 DEF CacheInv, CacheConsistent

\* A session's entries leave the list and the map.
LEMMA ReleaseCache ==
  ASSUME CacheInv, NEW s \in Sessions, EvictSession(s)
  PROVE  CacheInv'
<1> DEFINE rest == {p \in Prompts : entry[p].session # s}
           k == Kept(lru, rest)
<1>1. /\ k \in Seq(Prompts) /\ Len(k) \in Nat /\ Len(lru) \in Nat /\ Len(k) <= Len(lru)
      /\ \A q : Occurs(k, q) <=> q \in rest /\ Occurs(lru, q)
      /\ NoRepeats(k)
  BY KeptLru
<1>2. /\ entry \in [Prompts -> Entries \union {NoEntry}] /\ CacheSize \in Nat
      /\ Len(lru) <= CacheSize
      /\ \A q \in Prompts : entry[q] # NoEntry <=> Occurs(lru, q)
  BY GatewayAssumption DEF CacheInv, CacheConsistent
<1>3. /\ entry' = [p \in Prompts |-> IF entry[p].session = s THEN NoEntry ELSE entry[p]]
      /\ lru' = k
  BY DEF EvictSession
<1> HIDE DEF k
<1>4. entry' \in [Prompts -> Entries \union {NoEntry}]
  BY <1>2, <1>3
<1>5. \A q \in Prompts : entry'[q] # NoEntry <=> Occurs(lru', q)
  BY <1>1, <1>2, <1>3
<1>6. Len(lru') <= CacheSize
  BY <1>1, <1>2, <1>3
<1>7. QED
  BY <1>1, <1>3, <1>4, <1>5, <1>6 DEF CacheInv, CacheConsistent

\* What Put stores.
LEMMA PutStores ==
  ASSUME CallsOK, NEW c \in Calls, Put(c), call[c].kind # "error"
  PROVE  /\ call[c].prompt \in Prompts
         /\ \E e \in Entries : Store(call[c].prompt, e)
<1> DEFINE e == [session |-> call[c].session, kind |-> call[c].kind]
<1>1. /\ call[c].session \in Sessions /\ call[c].prompt \in Prompts
      /\ call[c].kind \in {"answer", "fallback"}
  BY DEF Put, At, CallsOK, CallOK
<1>2. e \in Entries
  BY <1>1 DEF Entries
<1>3. Store(call[c].prompt, e)
  BY DEF Put
<1> HIDE DEF e
<1>4. QED
  BY <1>1, <1>2, <1>3

\* Calls that hold an element stay where they are when another call moves.
LEMMA HeldStay ==
  ASSUME CallsOK, HeldInv, NEW c \in Calls, call[c].pc # "touch", NEW r, Moves(c, r)
  PROVE  \A d \in found : call'[d] = call[d]
BY Moved DEF HeldInv

\* No element found leaves the list.
LEMMA StillHeld ==
  ASSUME HeldInv, found' \subseteq found,
         \A d \in found' : call'[d].pc = call[d].pc /\ call'[d].prompt = call[d].prompt
                          /\ entry'[call[d].prompt] # NoEntry
  PROVE  HeldInv'
BY DEF HeldInv

\* Steps of a call that are not about the cache.
LEMMA OtherHeld ==
  ASSUME CallsOK, HeldInv, NEW c \in Calls,
         CheckBudget(c) \/ Admit(c) \/ Answered(c) \/ Retry(c) \/ GiveUp(c) \/ AddUsage(c)
  PROVE  HeldInv' /\ UNCHANGED <<entry, lru>>
<1>1. UNCHANGED <<entry, lru, found>>
  BY DEF CheckBudget, Admit, Answered, Retry, GiveUp, AddUsage, shared, cache
<1>2. call[c].pc # "touch"
  BY DEF CheckBudget, Admit, Answered, Retry, GiveUp, AddUsage, At
<1>3. CASE CheckBudget(c) \/ Admit(c) \/ Retry(c) \/ AddUsage(c)
  <2>1. \E r : Moves(c, r)
    BY <1>3 DEF CheckBudget, Admit, Retry, AddUsage, Goto, Leave, Moves
  <2>2. \A d \in found : call'[d] = call[d]
    BY <1>2, <2>1, HeldStay
  <2>3. QED
    BY <1>1, <2>2, StillHeld DEF HeldInv
<1>4. CASE Answered(c) \/ GiveUp(c)
  <2>1. PICK b, kind, usage : Report(c, b, kind, usage)
    BY <1>4 DEF Answered, GiveUp
  <2>2. ASSUME NEW d \in found
        PROVE  call'[d].pc = call[d].pc /\ call'[d].prompt = call[d].prompt
    <3>1. d \in Calls /\ d # c /\ call[d] \in CallType
      BY <1>2, <2>2 DEF HeldInv, CallsOK, CallOK
    <3>2. \E b1 : call'[d] = [call[d] EXCEPT !.current = b1]
      BY <2>1, <3>1 DEF Report
    <3>3. QED
      BY <3>1, <3>2 DEF CallType
  <2>3. QED
    BY <1>1, <2>2, StillHeld DEF HeldInv
<1>5. QED
  BY <1>1, <1>3, <1>4

\* The look: a hit holds an element that is there.
LEMMA CompleteHeld ==
  ASSUME CallsOK, HeldInv, NEW c \in Calls, NEW s \in Sessions, NEW p \in Prompts,
         Complete(c, s, p)
  PROVE  HeldInv' /\ UNCHANGED <<entry, lru>>
<1>1. PICK pc \in {"touch", "expire", "budget"} :
        /\ Enter(c, pc, s, p) /\ UNCHANGED <<entry, lru>>
        /\ found' = found \/ (found' = found \union {c} /\ pc = "touch" /\ entry[p] # NoEntry)
  BY DEF Complete
<1> DEFINE r == Entered(pc, s, p)
<1>2. r.pc = pc /\ r.prompt = p
  BY <1>1, EnteredOK
<1>3. Moves(c, r)
  BY <1>1 DEF Enter, Moves
<1>4. call[c].pc # "touch"
  BY DEF Complete, At
<1>5. call'[c] = r /\ \A d \in found : call'[d] = call[d]
  BY <1>3, <1>4, Moved, HeldStay
<1>6. QED
  BY <1>1, <1>2, <1>5 DEF HeldInv

\* Whoever changes the cache takes the element from the calls that found it.
LEMMA CacheHeld ==
  ASSUME CallsOK, CacheInv, HeldInv, NEW c \in Calls,
         MoveToFront(c) \/ RemoveExpired(c) \/ Put(c)
  PROVE  HeldInv'
<1>0. entry \in [Prompts -> Entries \union {NoEntry}]
      /\ \A d \in found : d \in Calls /\ call[d].prompt \in Prompts
                       /\ call[d].pc = "touch" /\ entry[call[d].prompt] # NoEntry
  BY DEF CacheInv, HeldInv, CallsOK, CallOK
<1>1. CASE MoveToFront(c)
  <2>1. Moves(c, Outside) /\ found' = found \ {c} /\ UNCHANGED entry
    BY <1>1 DEF MoveToFront, Leave, Moves
  <2>2. \A d \in found' : call'[d] = call[d]
    BY <1>0, <2>1, Moved
  <2>3. QED
    BY <1>0, <2>1, <2>2, StillHeld
<1>2. CASE RemoveExpired(c)
  <2>1. PICK p \in Prompts : p = call[c].prompt
    BY <1>2 DEF RemoveExpired, At, CallsOK, CallOK
  <2>2. /\ entry' = [entry EXCEPT ![p] = NoEntry]
        /\ found' = {d \in found : call[d].prompt # p}
        /\ call[c].pc # "touch" /\ \E r : Moves(c, r)
    BY <1>2, <2>1 DEF RemoveExpired, Goto, Moves, At
  <2>3. \A d \in found : call'[d] = call[d]
    BY <2>2, HeldStay
  <2>4. QED
    BY <1>0, <2>2, <2>3, StillHeld
<1>3. CASE Put(c)
  <2>1. call[c].pc # "touch" /\ Moves(c, Outside)
    BY <1>3 DEF Put, At, Leave, Moves
  <2>2. \A d \in found : call'[d] = call[d]
    BY <2>1, HeldStay
  <2>3. CASE call[c].kind = "error"
    <3>1. UNCHANGED <<entry, found>>
      BY <1>3, <2>3 DEF Put, cache
    <3>2. QED
      BY <1>0, <2>2, <3>1, StillHeld
  <2>4. CASE call[c].kind # "error"
    <3>1. PICK p \in Prompts, e \in Entries : Store(p, e)
      BY <1>3, <2>4, PutStores
    <3>2. /\ entry' = [q \in Prompts |-> IF q = p THEN e
                              ELSE IF q \in EvictedBy(p) THEN NoEntry ELSE entry[q]]
          /\ found' = {d \in found : call[d].prompt \notin EvictedBy(p)}
      BY <3>1 DEF Store
    <3>3. QED
      BY <1>0, <2>2, <3>2, EntryIsEntry, StillHeld
  <2>5. QED
    BY <2>3, <2>4
<1>4. QED
  BY <1>1, <1>2, <1>3

\* Release: the elements of the session leave, those still found are others'.
LEMMA ReleaseHeld ==
  ASSUME CallsOK, CacheInv, HeldInv, NEW s \in Sessions, Release(s)
  PROVE  HeldInv'
<1>1. /\ entry' = [p \in Prompts |-> IF entry[p].session = s THEN NoEntry ELSE entry[p]]
      /\ found' = {d \in found : entry[call[d].prompt].session # s} /\ UNCHANGED call
  BY DEF Release, EvictSession
<1>2. \A d \in found : call[d].prompt \in Prompts /\ entry[call[d].prompt] # NoEntry
  BY DEF HeldInv, CallsOK, CallOK
<1>3. QED
  BY <1>1, <1>2, StillHeld

\* Every step keeps list and map together, and the found elements in the list.
LEMMA NextCache == CoreInv /\ CacheInv /\ HeldInv /\ [Next]_vars => CacheInv' /\ HeldInv'
<1> SUFFICES ASSUME CoreInv, CacheInv, HeldInv, [Next]_vars PROVE CacheInv' /\ HeldInv'
  OBVIOUS
<1>0. CallsOK
  BY DEF CoreInv
<1>1. ASSUME UNCHANGED <<entry, lru>> PROVE CacheInv'
  BY <1>1 DEF CacheInv, CacheConsistent
<1>2. ASSUME NEW c \in Calls, NEW s \in Sessions, NEW p \in Prompts, Complete(c, s, p)
      PROVE  CacheInv' /\ HeldInv'
  BY <1>0, <1>1, <1>2, CompleteHeld
<1>3. ASSUME NEW c \in Calls, Put(c) PROVE CacheInv' /\ HeldInv'
  <2>1. CASE call[c].kind = "error"
    BY <1>0, <1>1, <1>3, <2>1, CacheHeld DEF Put, cache
  <2>2. CASE call[c].kind # "error"
    BY <1>0, <1>3, <2>2, PutStores, StoreCache, CacheHeld
  <2>3. QED
    BY <2>1, <2>2
<1>4. ASSUME NEW s \in Sessions, Release(s) PROVE CacheInv' /\ HeldInv'
  BY <1>0, <1>4, ReleaseCache, ReleaseHeld DEF Release
<1>5. ASSUME NEW c \in Calls, MoveToFront(c) \/ RemoveExpired(c) PROVE CacheInv' /\ HeldInv'
  BY <1>0, <1>5, MoveCache, ExpireCache, CacheHeld
<1>6. ASSUME NEW c \in Calls, CheckBudget(c) \/ Admit(c) \/ Answered(c) \/ Retry(c)
                              \/ GiveUp(c) \/ AddUsage(c)
      PROVE  CacheInv' /\ HeldInv'
  BY <1>0, <1>1, <1>6, OtherHeld
<1>7. CASE BreakerCooldown \/ UpstreamChanges \/ UNCHANGED vars
  <2>1. UNCHANGED <<entry, lru, found, call>>
    BY <1>7 DEF BreakerCooldown, UpstreamChanges, vars, shared, cache
  <2>2. QED
    BY <1>1, <2>1 DEF HeldInv
<1>8. QED
  BY <1>2, <1>3, <1>4, <1>5, <1>6, <1>7 DEF Next, Step

\* The cache is empty at the start.
LEMMA InitCache == Init => CacheInv /\ HeldInv
<1> SUFFICES ASSUME Init PROVE CacheInv /\ HeldInv
  OBVIOUS
<1>1. entry = [p \in Prompts |-> NoEntry] /\ lru = <<>> /\ found = {}
  BY DEF Init
<1>2. lru \in Seq(Prompts) /\ Len(lru) = 0 /\ CacheSize \in Nat
  BY <1>1, EmptySeq, GatewayAssumption
<1>3. NoRepeats(lru) /\ \A p : ~Occurs(lru, p)
  BY <1>2 DEF NoRepeats, Occurs
<1>4. QED
  BY <1>1, <1>2, <1>3 DEF CacheInv, CacheConsistent, HeldInv

--------------------------------------------------------------------------------
\* The inductive invariant of calls, budget, breaker and cache holds in every
\* behaviour.
THEOREM GatewayInvariant == Spec => [](CoreInv /\ CacheInv /\ HeldInv)
  BY InitCore, InitCache, NextCore, NextCache, PTL DEF Spec

\* Types; and the cache never holds more prompts than CacheMaxEntries, nor the
\* calls more retries than the backoff list has (cache.go, Put; gateway.go).
THEOREM TypeCorrect == Spec => []TypeOK
<1>1. CoreInv /\ CacheInv /\ HeldInv => TypeOK
  BY DEF CoreInv, CacheInv, HeldInv, BudgetOK, BreakerOK, BreakerType, CallsOK, CallOK, Entries,
         TypeOK
<1>2. QED
  BY <1>1, GatewayInvariant, PTL

\* However many calls of a session race past its check, it is charged at most
\* its budget and what these calls may cost (gateway.go, Check and AddUsage are
\* minutes apart and nothing is reserved in between).
THEOREM OvershootBounded == Spec => []BudgetOvershoot
<1>1. CoreInv => BudgetOvershoot
  <2> SUFFICES ASSUME CoreInv, NEW s \in Sessions
               PROVE  used[s] <= Limit - 1 + Cardinality(Calls) * MaxUsage
    BY DEF BudgetOvershoot
  <2> DEFINE n == Cardinality(Waiting(s))
             m == Cardinality(Calls)
  <2>1. n \in Nat /\ m \in Nat /\ n <= m /\ MaxUsage \in Nat /\ Limit \in Nat
    BY WaitingFinite, GatewayAssumption
  <2>2. used[s] \in Nat /\ used[s] <= Limit - 1 + n * MaxUsage
    BY DEF CoreInv, BudgetOK, Headroom
  <2> HIDE DEF n, m
  <2>3. PICK k \in Nat : m = n + k
    <3>1. m - n \in Nat /\ m = n + (m - n)
      BY <2>1
    <3>2. QED
      BY <3>1
  <2>4. m * MaxUsage = n * MaxUsage + k * MaxUsage /\ k * MaxUsage \in Nat /\ n * MaxUsage \in Nat
    BY <2>1, <2>3
  <2> DEFINE a == n * MaxUsage
             b == k * MaxUsage
             u == used[s]
  <2>5. u \in Nat /\ a \in Nat /\ b \in Nat /\ u <= Limit - 1 + a
    BY <2>2, <2>4
  <2> HIDE DEF a, b, u
  <2>6. u <= Limit - 1 + (a + b)
    BY <2>1, <2>5
  <2>7. QED
    BY <2>4, <2>6 DEF a, b, u, m
<1>2. QED
  BY <1>1, GatewayInvariant, PTL

\* The LRU list and the map of entries never come apart, and the list holds no
\* prompt twice (cache.go).
THEOREM CacheStaysConsistent == Spec => []CacheConsistent
<1>1. CacheInv => CacheConsistent
  BY DEF CacheInv
<1>2. QED
  BY <1>1, GatewayInvariant, PTL

\* A probing breaker never has more calls under way than HalfOpenMaxRequests,
\* whatever stale results of earlier states still come in (gateway.go, the
\* breaker around the retries).
THEOREM ProbesAreLimited == Spec => []ProbesLimited
<1>1. CoreInv => ProbesLimited
  <2> SUFFICES ASSUME CoreInv, breaker.state = "half-open"
               PROVE  Cardinality({c \in Calls : At(c, "attempt") /\ call[c].current}) <= MaxProbes
    BY DEF ProbesLimited
  <2>1. {c \in Calls : At(c, "attempt") /\ call[c].current} = Probing
    BY DEF CoreInv, CallsOK, CallOK, At, Probing
  <2> DEFINE n == Cardinality(Probing)
  <2>2. /\ breaker.requests <= MaxProbes /\ breaker.requests = n + breaker.successes
        /\ n \in Nat /\ breaker.successes \in Nat /\ MaxProbes \in Nat
    BY ProbingFinite, GatewayAssumption DEF CoreInv, BreakerOK, BreakerType
  <2> HIDE DEF n
  <2>3. n <= MaxProbes
    BY <2>2
  <2>4. QED
    BY <2>1, <2>3 DEF n
<1>2. QED
  BY <1>1, GatewayInvariant, PTL

--------------------------------------------------------------------------------
(* The relay of one streamed call. *)

Pieces(s) == \A i \in 1..Len(s) : s[i] = "text"

\* A stream that has ended: pieces, then the one frame that is none.
Ended(s) ==
  /\ s[Len(s)] # "text"
  /\ \A i \in 1..(Len(s) - 1) : s[i] = "text"

\* What the provider has sent is what the relay has taken and what is in src.
SourceCounted ==
  /\ srcOpen => Pieces(src) /\ produced = relayed + Len(src)
  /\ ~srcOpen /\ src # <<>> => Ended(src) /\ produced = relayed + Len(src) - 1
  /\ ~srcOpen /\ src = <<>> => produced = relayed

\* The relay leaves nothing behind: it settles when src is drained and closed.
RelayDone == ~outOpen => ~srcOpen /\ src = <<>> /\ charged = produced

\* The listener never reads past the piece that completes the content.
HearsEnough == heard <= enough /\ (listener = "reading" => heard < enough)

RelayInv == RelayTypeOK /\ SourceCounted /\ RelayDone /\ HearsEnough

\* A call starts with nothing sent, nothing relayed and nothing charged.
LEMMA RelayInvInit == RelayInit => RelayInv
<1> SUFFICES ASSUME RelayInit PROVE RelayInv
  OBVIOUS
<1>1. <<>> \in Seq(Frames) /\ Len(<<>>) = 0
  BY EmptySeq
<1>2. src \in Seq(Frames) /\ out \in Seq(Frames) /\ held \in Seq(Frames)
  BY <1>1 DEF RelayInit
<1>3. /\ enough \in 1..MaxPieces
      /\ produced \in 0..MaxPieces /\ relayed \in 0..MaxPieces
      /\ heard \in 0..MaxPieces /\ charged \in 0..MaxPieces
  BY PiecesAssumption DEF RelayInit
<1>4. RelayTypeOK
  BY <1>2, <1>3 DEF RelayTypeOK, RelayInit
<1>5. SourceCounted
  <2>1. Len(src) = 0 /\ srcOpen /\ produced = 0 /\ relayed = 0
    BY <1>1 DEF RelayInit
  <2>2. QED
    BY <2>1 DEF SourceCounted, Pieces
<1>6. RelayDone /\ HearsEnough
  BY PiecesAssumption DEF RelayInit, RelayDone, HearsEnough
<1>7. QED
  BY <1>4, <1>5, <1>6 DEF RelayInv

\* The parts of RelayTypeOK a proof needs one at a time.
Streams == src \in Seq(Frames) /\ out \in Seq(Frames) /\ held \in Seq(Frames)

Counts ==
  /\ enough \in 1..MaxPieces
  /\ produced \in 0..MaxPieces /\ relayed \in 0..MaxPieces
  /\ heard \in 0..MaxPieces /\ charged \in 0..MaxPieces

Modes ==
  /\ cancelled \in BOOLEAN /\ srcOpen \in BOOLEAN /\ outOpen \in BOOLEAN
  /\ listener \in {"reading", "complete", "end", "failed", "gave up"}

\* RelayTypeOK is its three parts.
LEMMA Typed == RelayTypeOK <=> Streams /\ Counts /\ Modes
  BY DEF RelayTypeOK, Streams, Counts, Modes

\* Every send, hand-over, charge and read keeps the counts.
LEMMA RelayInvNext == RelayInv /\ [RelayNext]_relayVars => RelayInv'
<1> SUFFICES ASSUME RelayInv, [RelayNext]_relayVars PROVE RelayInv'
  OBVIOUS
<1>t. /\ Streams /\ Counts /\ Modes /\ SourceCounted /\ RelayDone /\ HearsEnough
      /\ Len(src) \in Nat /\ MaxPieces \in Nat
      /\ src # <<>> => Len(src) >= 1
      /\ src \in Seq(Frames)
  BY Typed, PiecesAssumption, LenProperties, EmptySeq DEF RelayInv, Streams
<1>q. Streams' /\ Counts' /\ Modes' /\ SourceCounted' /\ RelayDone' /\ HearsEnough' => RelayInv'
  BY Typed DEF RelayInv, RelayTypeOK, Streams, Counts, Modes
<1>1. CASE SendPiece
  <2>1. /\ src' \in Seq(Frames) /\ Len(src') = Len(src) + 1 /\ src' # <<>>
        /\ \A i \in 1..Len(src) : src'[i] = src[i]
        /\ src'[Len(src) + 1] = "text"
    BY <1>1, <1>t, AppendProperties DEF SendPiece, Frames
  <2>2. srcOpen /\ produced < MaxPieces /\ produced' = produced + 1
        /\ UNCHANGED <<enough, srcOpen, out, held, relayed, charged, outOpen, heard, listener,
           cancelled>>
    BY <1>1 DEF SendPiece, relay, ears
  <2>3. Streams'
    BY <1>t, <2>1, <2>2 DEF Streams
  <2>4. Counts'
    BY <1>t, <2>2 DEF Counts
  <2>5. Modes' /\ HearsEnough'
    BY <1>t, <2>2 DEF Modes, HearsEnough
  <2>6. SourceCounted'
    <3>1. Pieces(src')
      BY <1>t, <2>1, <2>2 DEF SourceCounted, Pieces
    <3>2. produced' = relayed' + Len(src')
      BY <1>t, <2>1, <2>2 DEF SourceCounted, Counts
    <3>3. QED
      BY <3>1, <3>2, <2>2 DEF SourceCounted
  <2>7. RelayDone'
    BY <1>t, <2>2 DEF RelayDone
  <2>8. QED
    BY <1>q, <2>3, <2>4, <2>5, <2>6, <2>7
<1>2. CASE SendLast
  <2>1. PICK frame \in {"end", "failed"} : src' = Append(src, frame)
    BY <1>2 DEF SendLast
  <2>2. /\ src' \in Seq(Frames) /\ Len(src') = Len(src) + 1 /\ src' # <<>>
        /\ \A i \in 1..Len(src) : src'[i] = src[i]
        /\ src'[Len(src) + 1] # "text"
    BY <1>t, <2>1, AppendProperties DEF Frames
  <2>3. srcOpen /\ srcOpen' = FALSE
        /\ UNCHANGED <<enough, produced, out, held, relayed, charged, outOpen, heard, listener,
           cancelled>>
    BY <1>2 DEF SendLast, relay, ears
  <2>4. Streams'
    BY <1>t, <2>2, <2>3 DEF Streams
  <2>5. Counts' /\ Modes' /\ HearsEnough'
    BY <1>t, <2>3 DEF Counts, Modes, HearsEnough
  <2>6. SourceCounted'
    <3>1. Ended(src')
      BY <1>t, <2>2, <2>3 DEF SourceCounted, Pieces, Ended
    <3>2. produced' = relayed' + Len(src') - 1
      BY <1>t, <2>2, <2>3 DEF SourceCounted, Counts
    <3>3. QED
      BY <3>1, <3>2, <2>2, <2>3 DEF SourceCounted
  <2>7. RelayDone'
    BY <1>t, <2>3 DEF RelayDone
  <2>8. QED
    BY <1>q, <2>4, <2>5, <2>6, <2>7
<1>3. CASE Take
  <2>1. src # <<>> /\ outOpen
    BY <1>3 DEF Take
  <2>2. /\ src' \in Seq(Frames) /\ Len(src') = Len(src) - 1
        /\ \A i \in 1..Len(src') : src'[i] = src[i + 1]
        /\ Head(src) \in Frames /\ Head(src) = src[1]
    BY <1>3, <1>t, <2>1, HeadTailProperties DEF Take
  <2>3. held' \in Seq(Frames)
    BY <1>3, <2>2 DEF Take
  <2>4. UNCHANGED <<enough, out, produced, srcOpen, charged, outOpen, heard, listener, cancelled>>
    BY <1>3 DEF Take, provider, ears
  <2>5. relayed' = IF src[1] = "text" THEN relayed + 1 ELSE relayed
    BY <1>3, <2>2 DEF Take
  <2>6. Streams' /\ Modes' /\ RelayDone'
    BY <1>t, <2>1, <2>2, <2>3, <2>4 DEF Streams, Modes, RelayDone
  <2>7. SourceCounted' /\ relayed' \in 0..MaxPieces
    <3>1. CASE srcOpen
      <4>1. Pieces(src') /\ src[1] = "text"
        BY <3>1, <1>t, <2>1, <2>2 DEF Pieces, SourceCounted
      <4>2. produced' = relayed' + Len(src') /\ relayed' \in 0..MaxPieces
        BY <3>1, <4>1, <1>t, <2>1, <2>2, <2>4, <2>5 DEF SourceCounted, Counts
      <4>3. QED
        BY <3>1, <4>1, <4>2, <2>4 DEF SourceCounted
    <3>2. CASE ~srcOpen /\ Len(src) = 1
      <4>1. src' = <<>>
        BY <3>2, <2>2, EmptySeq
      <4>2. src[1] # "text"
        BY <3>2, <1>t, <2>1 DEF Ended, SourceCounted
      <4>3. produced' = relayed' /\ relayed' \in 0..MaxPieces
        BY <3>2, <4>2, <1>t, <2>1, <2>4, <2>5 DEF SourceCounted, Counts
      <4>4. QED
        BY <3>2, <4>1, <4>3, <2>4 DEF SourceCounted
    <3>3. CASE ~srcOpen /\ Len(src) >= 2
      <4>1. src' # <<>> /\ Ended(src') /\ src[1] = "text"
        BY <3>3, <1>t, <2>1, <2>2, EmptySeq DEF Ended, SourceCounted
      <4>2. /\ produced = relayed + Len(src) - 1
            /\ Len(src) >= 2
            /\ relayed' = relayed + 1
        BY <3>3, <4>1, <1>t, <2>1, <2>5 DEF SourceCounted
      <4>3. produced' = relayed' + Len(src') - 1 /\ relayed' \in 0..MaxPieces
        BY <4>2, <1>t, <2>2, <2>4 DEF Counts
      <4>4. QED
        BY <3>3, <4>1, <4>3, <2>4 DEF SourceCounted
    <3>4. Len(src) = 1 \/ Len(src) >= 2
      <4> DEFINE n == Len(src)
      <4>1. n \in Nat /\ n >= 1
        BY <1>t, <2>1
      <4> HIDE DEF n
      <4>2. n = 1 \/ n >= 2
        BY <4>1
      <4>3. QED
        BY <4>2 DEF n
    <3>5. QED
      BY <3>1, <3>2, <3>3, <3>4
  <2>8. Counts' /\ HearsEnough'
    BY <1>t, <2>4, <2>7 DEF Counts, HearsEnough
  <2>9. QED
    BY <1>q, <2>6, <2>7, <2>8
<1>4. CASE Pass
  <2>1. out' \in Seq(Frames) /\ held' \in Seq(Frames)
    BY <1>4, <1>t, ConcatProperties, EmptySeq DEF Pass, Streams
  <2>2. UNCHANGED <<enough, src, produced, srcOpen, relayed, charged, outOpen, heard, listener,
           cancelled>>
    BY <1>4 DEF Pass, provider, ears
  <2>3. Streams' /\ Counts' /\ Modes' /\ SourceCounted' /\ RelayDone' /\ HearsEnough'
    BY <1>t, <2>1, <2>2
    DEF Streams, Counts, Modes, SourceCounted, RelayDone, HearsEnough, Pieces, Ended
  <2>4. QED
    BY <1>q, <2>3
<1>5. CASE Settle
  <2>1. /\ outOpen' = FALSE /\ charged' = relayed /\ src = <<>> /\ ~srcOpen
        /\ UNCHANGED <<enough, src, out, produced, srcOpen, held, relayed, heard, listener,
           cancelled>>
    BY <1>5 DEF Settle, provider, ears
  <2>2. Streams' /\ Modes' /\ SourceCounted' /\ HearsEnough'
    BY <1>t, <2>1 DEF Streams, Modes, SourceCounted, HearsEnough, Pieces, Ended
  <2>3. Counts' /\ RelayDone'
    BY <1>t, <2>1 DEF Counts, RelayDone, SourceCounted
  <2>4. QED
    BY <1>q, <2>2, <2>3
<1>6. CASE Hear
  <2>1. /\ out # <<>> /\ out' = Tail(out) /\ listener = "reading"
        /\ UNCHANGED <<enough, src, produced, srcOpen, held, relayed, charged, outOpen>>
    BY <1>6 DEF Hear, provider, relay
  <2>2. out' \in Seq(Frames) /\ Head(out) \in Frames
    BY <1>t, <2>1, HeadTailProperties DEF Streams
  <2>3. Streams' /\ SourceCounted' /\ RelayDone'
    BY <1>t, <2>1, <2>2 DEF Streams, SourceCounted, RelayDone, Pieces, Ended
  <2>4. CASE Head(out) = "text"
    <3>1. /\ heard' = heard + 1
          /\ IF heard' = enough THEN listener' = "complete" /\ cancelled' = TRUE
                                ELSE UNCHANGED <<listener, cancelled>>
      BY <1>6, <2>4 DEF Hear, ReturnSpeech
    <3>2. Counts' /\ HearsEnough'
      BY <1>t, <2>1, <3>1 DEF Counts, HearsEnough
    <3>3. Modes'
      BY <1>t, <2>1, <3>1 DEF Modes
    <3>4. QED
      BY <1>q, <2>3, <3>2, <3>3
  <2>5. CASE Head(out) # "text"
    <3>1. heard' = heard /\ listener' \in {"end", "failed"} /\ cancelled' = TRUE
      BY <1>6, <2>2, <2>5 DEF Hear, ReturnSpeech, Frames
    <3>2. Counts' /\ HearsEnough'
      BY <1>t, <2>1, <3>1 DEF Counts, HearsEnough
    <3>3. Modes'
      BY <1>t, <2>1, <3>1 DEF Modes
    <3>4. QED
      BY <1>q, <2>3, <3>2, <3>3
  <2>6. QED
    BY <2>4, <2>5
<1>7. CASE StopListening \/ Cancel \/ UNCHANGED relayVars
  <2>1. UNCHANGED <<enough, src, out, produced, srcOpen, held, relayed, charged, outOpen, heard>>
    BY <1>7 DEF StopListening, Cancel, ReturnSpeech, provider, relay, ears, relayVars
  <2>2. /\ cancelled' \in BOOLEAN
        /\ UNCHANGED listener \/ listener' = "gave up"
    BY <1>7, <1>t DEF StopListening, Cancel, ReturnSpeech, provider, relay, ears, relayVars, Modes
  <2>3. Streams' /\ Counts' /\ SourceCounted' /\ RelayDone'
    BY <1>t, <2>1 DEF Streams, Counts, SourceCounted, RelayDone, Pieces, Ended
  <2>4. Modes' /\ HearsEnough'
    BY <1>t, <2>1, <2>2 DEF Modes, HearsEnough
  <2>5. QED
    BY <1>q, <2>3, <2>4
<1>8. QED
  BY <1>1, <1>2, <1>3, <1>4, <1>5, <1>6, <1>7 DEF RelayNext

--------------------------------------------------------------------------------
\* The inductive invariant of the three goroutines holds in every behaviour.
THEOREM RelayInvariant == RelaySpec => []RelayInv
  BY RelayInvInit, RelayInvNext, PTL DEF RelaySpec

\* The channels carry frames only, and no count (produced, relayed, heard,
\* charged) exceeds the length of the stream.
THEOREM RelayTypeCorrect == RelaySpec => []RelayTypeOK
<1>1. RelayInv => RelayTypeOK
  BY DEF RelayInv
<1>2. QED
  BY <1>1, RelayInvariant, PTL

\* Once the relay has closed out, the session has been charged for every piece
\* the upstream produced, whether or not anybody was still listening
\* (gateway.go, what follows the range loop of StreamComplete).
THEOREM AllIsCharged == RelaySpec => []ChargedForAll
<1>1. RelayInv => ChargedForAll
  BY DEF RelayInv, RelayDone, ChargedForAll
<1>2. QED
  BY <1>1, RelayInvariant, PTL
================================================================================
